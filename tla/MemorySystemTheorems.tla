------------------------- MODULE MemorySystemTheorems -----------------------
(***************************************************************************)
(* Types, and the mutex, for any number of threads, however deep their     *)
(* calls nest: it is counted right, one thread at a time has it, and no    *)
(* counter is stored over what another thread stored meanwhile.  Then, the *)
(* blocks: nobody loses one, and nobody has one that another frees.  Then, *)
(* the counters: they add up to the blocks that are allocated and reported. *)
(* And the nesting: it is bounded, unless a line of the engine's own is    *)
(* refused its memory.                                                     *)
(***************************************************************************)
EXTENDS MemorySystem, Induction

\* An activation as the calls make it.
Sound(a) ==
  /\ a.at = "loaded" => a.proc \in Locking /\ a.seen \in Count
  /\ a.proc \in {"free", "report", "free_report", "reallocate"} => a.block # null

Act == {a \in Frame : Sound(a)}

\* Only the innermost activation has loaded the counters.
LoadedOnTop(s) == \A i \in 1 .. Len(s) - 1 : s[i].at # "loaded"

StacksOK ==
  /\ stack \in [Threads -> Seq(Act)]
  /\ \A t \in Threads : Len(stack[t]) <= MaxStack /\ LoadedOnTop(stack[t])

ScalarsOK ==
  /\ up \in BOOLEAN /\ dead \in BOOLEAN
  /\ counters \in Count /\ refused \in Nat /\ strays \in Nat /\ depth \in Nat

BlocksOK ==
  /\ heap \subseteq Block /\ foreign \subseteq Block /\ held \subseteq Block
  /\ reported \subseteq Block
  /\ IsFiniteSet(heap) /\ IsFiniteSet(foreign) /\ IsFiniteSet(reported)
  /\ heap \cap foreign = {}

MemoryInv == StacksOK /\ ScalarsOK /\ BlocksOK /\ MutexSerialises

-----------------------------------------------------------------------------
(***************************************************************************)
(* Stacks.                                                                 *)
(***************************************************************************)
LEMMA FrontFacts ==
  ASSUME NEW S, NEW s \in Seq(S), s # <<>>
  PROVE  /\ Len(s) \in Nat \ {0}
         /\ Front(s) \in Seq(S) /\ Len(Front(s)) = Len(s) - 1
         /\ \A i \in 1 .. Len(s) - 1 : Front(s)[i] = s[i]
         /\ Last(s) \in S /\ Last(s) = s[Len(s)]
<1>1. Len(s) \in Nat \ {0}
  OBVIOUS
<1> DEFINE n == Len(s) - 1
           f == SubSeq(s, 1, n)
<1>n. n \in Nat /\ n <= Len(s)
  BY <1>1
<1> HIDE DEF n
<1>2. f \in Seq(S) /\ Len(f) = n /\ \A i \in 1 .. n : f[i] = s[i]
  BY <1>n
<1>3. s[Len(s)] \in S
  BY <1>1
<1>4. QED BY <1>1, <1>2, <1>3 DEF Front, Last, n

LEMMA AppendFacts ==
  ASSUME NEW S, NEW s \in Seq(S), NEW a \in S
  PROVE  /\ Append(s, a) \in Seq(S) /\ Len(Append(s, a)) = Len(s) + 1
         /\ \A i \in 1 .. Len(s) : Append(s, a)[i] = s[i]
         /\ Append(s, a)[Len(s) + 1] = a /\ Last(Append(s, a)) = a
         /\ Append(s, a) # <<>>
<1>1. /\ Append(s, a) \in Seq(S) /\ Len(Append(s, a)) = Len(s) + 1
      /\ \A i \in 1 .. Len(s) : Append(s, a)[i] = s[i]
      /\ Append(s, a)[Len(s) + 1] = a
  OBVIOUS
<1>2. QED BY <1>1 DEF Last

\* How many of a thread's entries an activation is.
Weight(a) == IF Inside(a) THEN 1 ELSE 0

LEMMA EntriesFacts ==
  ASSUME NEW s \in Seq(Act)
  PROVE  /\ IsFiniteSet({i \in DOMAIN s : Inside(s[i])})
         /\ Entries(s) \in Nat
         /\ \A i \in DOMAIN s : Inside(s[i]) => Entries(s) > 0
<1> DEFINE I == {i \in DOMAIN s : Inside(s[i])}
<1>1. DOMAIN s = 1 .. Len(s) /\ Len(s) \in Nat
  OBVIOUS
<1>2. IsFiniteSet(DOMAIN s)
  BY <1>1, FS_Interval
<1>3. I \subseteq DOMAIN s
  OBVIOUS
<1>4. IsFiniteSet(I)
  BY <1>2, <1>3, FS_Subset
<1>5. Cardinality(I) \in Nat
  BY <1>4, FS_CardinalityType
<1>6. Cardinality(I) = 0 <=> I = {}
  BY <1>4, FS_EmptySet
<1>7. Entries(s) = Cardinality(I)
  BY DEF Entries
<1>8. ASSUME NEW i \in DOMAIN s, Inside(s[i])
      PROVE  Entries(s) > 0
  <2>1. i \in I
    BY <1>8
  <2> HIDE DEF I
  <2>2. QED BY <1>5, <1>6, <1>7, <2>1
<1>9. QED BY <1>4, <1>5, <1>7, <1>8

LEMMA EntriesNone == Entries(<<>>) = 0
<1>1. {i \in DOMAIN <<>> : Inside(<<>>[i])} = {}
  OBVIOUS
<1>2. QED BY <1>1, FS_EmptySet DEF Entries

LEMMA EntriesAppend ==
  ASSUME NEW s \in Seq(Act), NEW a \in Act
  PROVE  Entries(Append(s, a)) = Entries(s) + Weight(a)
<1> DEFINE I == {i \in DOMAIN s : Inside(s[i])}
           J == {i \in DOMAIN Append(s, a) : Inside(Append(s, a)[i])}
           n == Len(s) + 1
<1>1. /\ DOMAIN s = 1 .. Len(s) /\ Len(s) \in Nat
      /\ DOMAIN Append(s, a) = 1 .. n
      /\ \A i \in 1 .. Len(s) : Append(s, a)[i] = s[i]
      /\ Append(s, a)[n] = a
  BY AppendFacts
<1>2. IsFiniteSet(I) /\ Entries(s) \in Nat /\ Entries(s) = Cardinality(I)
  BY EntriesFacts DEF Entries
<1>3. n \notin I /\ n \in 1 .. n
  BY <1>1
<1>4. CASE Inside(a)
  <2>1. J = I \cup {n}
    BY <1>1, <1>4
  <2> HIDE DEF I, J, n
  <2>2. Cardinality(J) = Cardinality(I) + 1
    BY <1>2, <1>3, <2>1, FS_AddElement
  <2>3. Entries(Append(s, a)) = Cardinality(J)
    BY DEF Entries, J
  <2>4. QED BY <1>2, <1>4, <2>2, <2>3 DEF Weight
<1>5. CASE ~ Inside(a)
  <2>1. J = I
    BY <1>1, <1>5
  <2> HIDE DEF I, J, n
  <2>2. Entries(Append(s, a)) = Cardinality(J)
    BY DEF Entries, J
  <2>3. QED BY <1>2, <1>5, <2>1, <2>2 DEF Weight
<1>6. QED BY <1>4, <1>5

LEMMA EntriesTop ==
  ASSUME NEW s \in Seq(Act), s # <<>>
  PROVE  Entries(s) = Entries(Front(s)) + Weight(Last(s))
<1>1. /\ Len(s) \in Nat \ {0}
      /\ Front(s) \in Seq(Act) /\ Len(Front(s)) = Len(s) - 1
      /\ \A i \in 1 .. Len(s) - 1 : Front(s)[i] = s[i]
      /\ Last(s) \in Act /\ Last(s) = s[Len(s)]
  BY FrontFacts
<1> DEFINE r == Append(Front(s), Last(s))
<1>2. /\ r \in Seq(Act) /\ Len(r) = Len(s)
      /\ \A i \in 1 .. Len(s) - 1 : r[i] = Front(s)[i]
      /\ r[Len(s)] = Last(s)
  BY <1>1, AppendFacts
<1> HIDE DEF r
<1>3. \A i \in 1 .. Len(s) : r[i] = s[i]
  BY <1>1, <1>2
<1>4. r = s
  BY <1>2, <1>3
<1>5. QED BY <1>1, <1>4, EntriesAppend DEF r

(***************************************************************************)
(* The innermost activation is replaced (Become), replaced with another on *)
(* top of it (BecomeAndCall), or gone (Returns).                           *)
(***************************************************************************)
LEMMA ReplaceFacts ==
  ASSUME NEW s \in Seq(Act), s # <<>>, LoadedOnTop(s), NEW a \in Act
  PROVE  LET r == Append(Front(s), a) IN
         /\ r \in Seq(Act) /\ r # <<>> /\ Len(r) = Len(s)
         /\ Last(r) = a
         /\ Entries(r) = Entries(s) - Weight(Last(s)) + Weight(a)
         /\ LoadedOnTop(r)
<1> DEFINE r == Append(Front(s), a)
<1>1. /\ Len(s) \in Nat \ {0}
      /\ Front(s) \in Seq(Act) /\ Len(Front(s)) = Len(s) - 1
      /\ \A i \in 1 .. Len(s) - 1 : Front(s)[i] = s[i]
      /\ Last(s) \in Act
  BY FrontFacts
<1>2. /\ r \in Seq(Act) /\ r # <<>> /\ Len(r) = Len(s) /\ Last(r) = a
      /\ \A i \in 1 .. Len(s) - 1 : r[i] = Front(s)[i]
  BY <1>1, AppendFacts
<1>3. Entries(r) = Entries(Front(s)) + Weight(a)
  BY <1>1, EntriesAppend
<1>4. Entries(s) = Entries(Front(s)) + Weight(Last(s))
  BY EntriesTop
<1>5. Entries(Front(s)) \in Nat /\ Weight(a) \in {0, 1} /\ Weight(Last(s)) \in {0, 1}
  BY <1>1, EntriesFacts DEF Weight
<1> HIDE DEF r
<1>6. Entries(r) = Entries(s) - Weight(Last(s)) + Weight(a)
  BY <1>3, <1>4, <1>5
<1>7. LoadedOnTop(r)
  BY <1>1, <1>2 DEF LoadedOnTop
<1>8. QED BY <1>2, <1>6, <1>7 DEF r

LEMMA CallFacts ==
  ASSUME NEW s \in Seq(Act), s # <<>>, LoadedOnTop(s), NEW a \in Act, NEW c \in Act,
         a.at # "loaded", ~ Inside(c)
  PROVE  LET r == Append(Append(Front(s), a), c) IN
         /\ r \in Seq(Act) /\ r # <<>> /\ Len(r) = Len(s) + 1
         /\ Last(r) = c
         /\ Entries(r) = Entries(s) - Weight(Last(s)) + Weight(a)
         /\ LoadedOnTop(r)
<1> DEFINE q == Append(Front(s), a)
           r == Append(q, c)
<1>1. /\ q \in Seq(Act) /\ q # <<>> /\ Len(q) = Len(s) /\ Last(q) = a
      /\ Entries(q) = Entries(s) - Weight(Last(s)) + Weight(a)
      /\ LoadedOnTop(q)
  BY ReplaceFacts
<1> HIDE DEF q
<1>2. /\ r \in Seq(Act) /\ r # <<>> /\ Len(r) = Len(q) + 1 /\ Last(r) = c
      /\ \A i \in 1 .. Len(q) : r[i] = q[i]
  BY <1>1, AppendFacts
<1>3. Entries(r) = Entries(q)
  <2>1. Entries(r) = Entries(q) + Weight(c)
    BY <1>1, EntriesAppend
  <2>2. Entries(q) \in Nat
    BY <1>1, EntriesFacts
  <2>3. QED BY <2>1, <2>2 DEF Weight
<1> HIDE DEF r
<1>4. LoadedOnTop(r)
  <2>1. q[Len(q)] = a /\ Len(q) \in Nat \ {0}
    BY <1>1, FrontFacts
  <2>2. \A i \in 1 .. Len(q) : i \in 1 .. Len(q) - 1 \/ i = Len(q)
    BY <2>1
  <2>3. QED BY <1>1, <1>2, <2>1, <2>2 DEF LoadedOnTop
<1>5. QED BY <1>1, <1>2, <1>3, <1>4 DEF q, r

LEMMA ReturnFacts ==
  ASSUME NEW s \in Seq(Act), s # <<>>, LoadedOnTop(s), NEW b \in Block \cup {null}
  PROVE  LET r == IF Len(s) = 1 THEN <<>> ELSE Answered(s, b) IN
         /\ r \in Seq(Act) /\ Len(r) = Len(s) - 1
         /\ r # <<>> => Last(r).at # "loaded"
         /\ Entries(r) = Entries(s) - Weight(Last(s))
         /\ LoadedOnTop(r)
<1> DEFINE f == Front(s)
           n == Len(s) - 1
<1>1. /\ Len(s) \in Nat \ {0} /\ Last(s) \in Act
      /\ f \in Seq(Act) /\ Len(f) = n
      /\ \A i \in 1 .. n : f[i] = s[i]
  BY FrontFacts
<1>2. Entries(s) = Entries(f) + Weight(Last(s))
  BY EntriesTop
<1>3. Entries(f) \in Nat /\ Weight(Last(s)) \in {0, 1}
  BY <1>1, EntriesFacts DEF Weight
<1>4. CASE Len(s) = 1
  <2>1. f = <<>>
    BY <1>1, <1>4
  <2>2. Entries(<<>>) = 0 /\ <<>> \in Seq(Act) /\ Len(<<>>) = 0 /\ LoadedOnTop(<<>>)
    BY EntriesNone DEF LoadedOnTop
  <2> HIDE DEF f
  <2>3. QED BY <1>2, <1>3, <1>4, <2>1, <2>2
<1>5. CASE Len(s) # 1
  <2> DEFINE r == Answered(s, b)
  <2>1. n \in 1 .. n /\ n \in Nat
    BY <1>1, <1>5
  <2>2. f[n] \in Act
    BY <1>1, <2>1
  <2> DEFINE a == [f[n] EXCEPT !.got = b]
  <2>3. r = [f EXCEPT ![n] = a]
    BY DEF Answered
  <2>4. a \in Act /\ a.at = f[n].at /\ a.proc = f[n].proc
    <3>1. a \in Frame /\ a.at = f[n].at /\ a.proc = f[n].proc /\ a.seen = f[n].seen
          /\ a.block = f[n].block
      BY <2>2 DEF Act, Frame
    <3> HIDE DEF a
    <3>2. QED BY <2>2, <3>1 DEF Act, Sound
  <2> HIDE DEF a, f, r, n
  <2>5. /\ r \in Seq(Act) /\ Len(r) = n /\ DOMAIN r = 1 .. n /\ DOMAIN f = 1 .. n
        /\ \A i \in 1 .. n : r[i].at = f[i].at /\ r[i].proc = f[i].proc
    BY <1>1, <2>1, <2>3, <2>4
  <2>6. {i \in DOMAIN r : Inside(r[i])} = {i \in DOMAIN f : Inside(f[i])}
    BY <2>5 DEF Inside
  <2>7. Entries(r) = Entries(f)
    BY <2>6 DEF Entries
  <2>8. \A i \in 1 .. n : r[i].at # "loaded"
    BY <1>1, <2>5 DEF LoadedOnTop, n
  <2>9. LoadedOnTop(r) /\ Last(r).at # "loaded"
    BY <2>1, <2>5, <2>8 DEF LoadedOnTop, Last
  <2>10. Entries(r) = Entries(s) - Weight(Last(s))
    BY <1>2, <1>3, <2>7
  <2>11. QED BY <1>5, <2>5, <2>9, <2>10 DEF r, n
<1>6. QED BY <1>4, <1>5

-----------------------------------------------------------------------------
(***************************************************************************)
(* The mutex, when the activations s take the place of a thread's.         *)
(***************************************************************************)
LEMMA StackUpdate ==
  ASSUME StacksOK, NEW t \in Threads, NEW s \in Seq(Act), Len(s) <= MaxStack,
         LoadedOnTop(s), stack' = [stack EXCEPT ![t] = s]
  PROVE  StacksOK' /\ stack'[t] = s /\ \A u \in Threads \ {t} : stack'[u] = stack[u]
<1>1. /\ stack' \in [Threads -> Seq(Act)]
      /\ stack'[t] = s /\ \A u \in Threads \ {t} : stack'[u] = stack[u]
  BY DEF StacksOK
<1>2. \A u \in Threads : Len(stack'[u]) <= MaxStack /\ LoadedOnTop(stack'[u])
  BY <1>1 DEF StacksOK
<1>3. StacksOK'
  BY <1>1, <1>2 DEF StacksOK, LoadedOnTop, Act, Frame, Places, Sound, Count, Block, AllTags, Locking
<1>4. QED BY <1>1, <1>3

\* A thread between lock and unlock is the one that has the mutex.
LEMMA InsideOwns ==
  ASSUME MemoryInv, NEW t \in Threads, ~ Idle(t), Inside(Top(t))
  PROVE  owner = t /\ depth \in Nat \ {0} /\ Entries(stack[t]) = depth
<1>1. stack[t] \in Seq(Act) /\ stack[t] # <<>>
  BY DEF MemoryInv, StacksOK, Idle
<1>2. Len(stack[t]) \in DOMAIN stack[t] /\ Inside(stack[t][Len(stack[t])])
  BY <1>1 DEF Top, Last
<1>3. Entries(stack[t]) > 0
  BY <1>1, <1>2, EntriesFacts
<1>4. Entries(stack[t]) = IF owner = t THEN depth ELSE 0
  BY DEF MemoryInv, MutexSerialises
<1>5. QED BY <1>3, <1>4 DEF MemoryInv, ScalarsOK

\* So what one thread stores, no other has loaded.
LEMMA OthersLoaded ==
  ASSUME MemoryInv, NEW u \in Threads, ~ dead, ~ Idle(u), Top(u).at = "loaded"
  PROVE  owner = u /\ Top(u).seen = counters
<1>1. stack[u] \in Seq(Act) /\ stack[u] # <<>>
  BY DEF MemoryInv, StacksOK, Idle
<1>2. Top(u) \in Act
  BY <1>1, FrontFacts DEF Top
<1>3. Inside(Top(u))
  BY <1>2 DEF Act, Sound, Inside
<1>4. QED BY <1>3, InsideOwns DEF MemoryInv, MutexSerialises

LEMMA MutexKept ==
  ASSUME MemoryInv, NEW t \in Threads, NEW s \in Seq(Act), ~ dead,
         stack'[t] = s, \A u \in Threads \ {t} : stack'[u] = stack[u],
         owner' = owner, depth' = depth, counters' = counters \/ owner = t,
         Entries(s) = Entries(stack[t]),
         s # <<>> /\ Last(s).at = "loaded" => Last(s).seen = counters'
  PROVE  MutexSerialises'
<1>1. MutexSerialises
  BY DEF MemoryInv
<1>2. IF owner' = null THEN depth' = 0 ELSE owner' \in Threads /\ depth' > 0
  BY <1>1 DEF MutexSerialises
<1>3. \A u \in Threads : Entries(stack'[u]) = IF owner' = u THEN depth' ELSE 0
  BY <1>1 DEF MutexSerialises
<1>4. ASSUME NEW u \in Threads, stack'[u] # <<>>, Last(stack'[u]).at = "loaded"
      PROVE  Last(stack'[u]).seen = counters'
  <2>1. CASE u = t
    BY <2>1, <1>4
  <2>2. CASE u # t
    <3>1. ~ Idle(u) /\ Top(u).at = "loaded" /\ Last(stack'[u]) = Top(u)
      BY <2>2, <1>4 DEF Idle, Top
    <3>2. owner = u /\ Top(u).seen = counters
      BY <3>1, OthersLoaded
    <3>3. QED BY <2>2, <3>1, <3>2
  <2>3. QED BY <2>1, <2>2
<1>5. QED BY <1>2, <1>3, <1>4 DEF MutexSerialises, Idle, Top, Entries, Inside, Locking

LEMMA MutexTaken ==
  ASSUME MemoryInv, NEW t \in Threads, NEW s \in Seq(Act), ~ dead,
         stack'[t] = s, \A u \in Threads \ {t} : stack'[u] = stack[u],
         owner \in {null, t}, owner' = t, depth' = depth + 1, counters' = counters,
         Entries(s) = Entries(stack[t]) + 1,
         Last(s).at = "loaded" => Last(s).seen = counters
  PROVE  MutexSerialises'
<1>1. MutexSerialises /\ depth \in Nat /\ null \notin Threads
  BY MemoryAssumption DEF MemoryInv, ScalarsOK
<1>2. IF owner' = null THEN depth' = 0 ELSE owner' \in Threads /\ depth' > 0
  BY <1>1
<1>3. ASSUME NEW u \in Threads
      PROVE  Entries(stack'[u]) = IF owner' = u THEN depth' ELSE 0
  <2>1. Entries(stack[u]) = IF owner = u THEN depth ELSE 0
    BY <1>1 DEF MutexSerialises
  <2>2. owner = null => depth = 0
    BY <1>1 DEF MutexSerialises
  <2>3. CASE u = t
    <3>1. Entries(stack[t]) = depth
      BY <1>1, <2>1, <2>2, <2>3
    <3>2. QED BY <2>3, <3>1
  <2>4. CASE u # t
    BY <1>1, <2>1, <2>4
  <2>5. QED BY <2>3, <2>4
<1>4. ASSUME NEW u \in Threads, stack'[u] # <<>>, Last(stack'[u]).at = "loaded"
      PROVE  Last(stack'[u]).seen = counters'
  <2>1. CASE u = t
    BY <2>1, <1>4
  <2>2. CASE u # t
    <3>1. ~ Idle(u) /\ Top(u).at = "loaded" /\ Last(stack'[u]) = Top(u)
      BY <2>2, <1>4 DEF Idle, Top
    <3>2. Top(u).seen = counters
      BY <3>1, OthersLoaded
    <3>3. QED BY <3>1, <3>2
  <2>3. QED BY <2>1, <2>2
<1>5. QED BY <1>2, <1>3, <1>4 DEF MutexSerialises, Idle, Top, Entries, Inside, Locking

LEMMA MutexLeft ==
  ASSUME MemoryInv, NEW t \in Threads, NEW s \in Seq(Act), ~ dead,
         stack'[t] = s, \A u \in Threads \ {t} : stack'[u] = stack[u],
         ~ Idle(t), Inside(Top(t)),
         owner' = IF depth = 1 THEN null ELSE owner, depth' = depth - 1,
         counters' = counters,
         Entries(s) = Entries(stack[t]) - 1,
         s # <<>> => Last(s).at # "loaded"
  PROVE  MutexSerialises'
<1>1. MutexSerialises /\ null \notin Threads
  BY MemoryAssumption DEF MemoryInv
<1>2. owner = t /\ depth \in Nat \ {0} /\ Entries(stack[t]) = depth
  BY InsideOwns
<1>3. IF owner' = null THEN depth' = 0 ELSE owner' \in Threads /\ depth' > 0
  BY <1>1, <1>2
<1>4. ASSUME NEW u \in Threads
      PROVE  Entries(stack'[u]) = IF owner' = u THEN depth' ELSE 0
  <2>1. CASE u = t
    BY <1>1, <1>2, <2>1
  <2>2. CASE u # t
    <3>1. Entries(stack[u]) = 0
      BY <1>1, <1>2, <2>2 DEF MutexSerialises
    <3>2. owner' # u
      BY <1>1, <1>2, <2>2
    <3>3. QED BY <2>2, <3>1, <3>2
  <2>3. QED BY <2>1, <2>2
<1>5. ASSUME NEW u \in Threads, stack'[u] # <<>>, Last(stack'[u]).at = "loaded"
      PROVE  Last(stack'[u]).seen = counters'
  <2>1. u # t
    BY <1>5
  <2>2. ~ Idle(u) /\ Top(u).at = "loaded" /\ Last(stack'[u]) = Top(u)
    BY <2>1, <1>5 DEF Idle, Top
  <2>3. QED BY <2>2, OthersLoaded
<1>6. QED BY <1>3, <1>4, <1>5 DEF MutexSerialises, Idle, Top, Entries, Inside, Locking

-----------------------------------------------------------------------------
(***************************************************************************)
(* What a step does to the stacks.                                         *)
(***************************************************************************)
LEMMA BecomeInv ==
  ASSUME MemoryInv, NEW t \in Threads, ~ dead, ~ Idle(t), NEW a \in Act, Become(t, a),
         Weight(a) = Weight(Top(t)),
         owner' = owner, depth' = depth, counters' = counters \/ owner = t,
         a.at = "loaded" => a.seen = counters'
  PROVE  /\ StacksOK' /\ MutexSerialises'
         /\ held' = held /\ reported' = reported /\ dead' = dead
<1>1. /\ stack[t] \in Seq(Act) /\ stack[t] # <<>> /\ LoadedOnTop(stack[t])
      /\ Len(stack[t]) <= MaxStack
  BY DEF MemoryInv, StacksOK, Idle
<1> DEFINE s == Append(Front(stack[t]), a)
<1>2. /\ s \in Seq(Act) /\ s # <<>> /\ Len(s) = Len(stack[t]) /\ Last(s) = a
      /\ Entries(s) = Entries(stack[t]) - Weight(Top(t)) + Weight(a)
      /\ LoadedOnTop(s)
  BY <1>1, ReplaceFacts DEF Top
<1>3. stack' = [stack EXCEPT ![t] = s] /\ held' = held /\ reported' = reported /\ dead' = dead
  BY DEF Become
<1> HIDE DEF s
<1>4. StacksOK' /\ stack'[t] = s /\ \A u \in Threads \ {t} : stack'[u] = stack[u]
  BY <1>1, <1>2, <1>3, StackUpdate DEF MemoryInv
<1>5. Entries(s) = Entries(stack[t])
  <2>1. Entries(stack[t]) \in Nat /\ Weight(a) \in {0, 1}
    BY <1>1, EntriesFacts DEF Weight
  <2>2. QED BY <1>2, <2>1
<1>6. MutexSerialises'
  BY <1>2, <1>4, <1>5, MutexKept
<1>7. QED BY <1>3, <1>4, <1>6

LEMMA CallInv ==
  ASSUME MemoryInv, NEW t \in Threads, ~ dead, ~ Idle(t), NEW a \in Act, NEW c \in Act,
         BecomeAndCall(t, a, c),
         a.at # "loaded", c.at # "loaded", ~ Inside(c), Weight(a) = Weight(Top(t)),
         owner' = owner, depth' = depth, counters' = counters \/ owner = t
  PROVE  /\ StacksOK' /\ MutexSerialises'
         /\ held' = held /\ reported' = reported /\ dead' \in BOOLEAN
<1>1. /\ stack[t] \in Seq(Act) /\ stack[t] # <<>> /\ LoadedOnTop(stack[t])
      /\ Len(stack[t]) <= MaxStack /\ Len(stack[t]) \in Nat /\ MaxStack \in Nat
  BY MemoryAssumption DEF MemoryInv, StacksOK, Idle
<1>2. held' = held /\ reported' = reported
  BY DEF BecomeAndCall
<1>3. CASE Len(stack[t]) < MaxStack
  <2> DEFINE s == Append(Append(Front(stack[t]), a), c)
  <2>1. /\ s \in Seq(Act) /\ s # <<>> /\ Len(s) = Len(stack[t]) + 1 /\ Last(s) = c
        /\ Entries(s) = Entries(stack[t]) - Weight(Top(t)) + Weight(a)
        /\ LoadedOnTop(s)
    BY <1>1, CallFacts DEF Top
  <2>2. stack' = [stack EXCEPT ![t] = s] /\ dead' = dead
    BY <1>3 DEF BecomeAndCall
  <2> HIDE DEF s
  <2>3. StacksOK' /\ stack'[t] = s /\ \A u \in Threads \ {t} : stack'[u] = stack[u]
    <3>1. Len(s) <= MaxStack
      BY <1>1, <1>3, <2>1
    <3>2. QED BY <2>1, <2>2, <3>1, StackUpdate DEF MemoryInv
  <2>4. Entries(s) = Entries(stack[t])
    <3>1. Entries(stack[t]) \in Nat /\ Weight(a) \in {0, 1}
      BY <1>1, EntriesFacts DEF Weight
    <3>2. QED BY <2>1, <3>1
  <2>5. MutexSerialises'
    BY <2>1, <2>3, <2>4, MutexKept
  <2>6. dead' \in BOOLEAN
    BY <2>2 DEF MemoryInv, ScalarsOK
  <2>7. QED BY <1>2, <2>3, <2>5, <2>6
<1>4. CASE ~ (Len(stack[t]) < MaxStack)
  <2>1. stack' = stack /\ dead' = TRUE
    BY <1>4 DEF BecomeAndCall
  <2>2. StacksOK'
    BY <2>1 DEF MemoryInv, StacksOK, LoadedOnTop, Act, Frame, Places, Sound, Count, Block, AllTags, Locking
  <2>3. MutexSerialises'
    BY <2>1 DEF MemoryInv, MutexSerialises, Idle, Top, Entries, Inside, Locking
  <2>4. QED BY <1>2, <2>1, <2>2, <2>3
<1>5. QED BY <1>3, <1>4

\* What a returning call leaves, and hands to its caller.
Left(t, b) == IF Len(stack[t]) = 1 THEN <<>> ELSE Answered(stack[t], b)

LEMMA ReturnsInv ==
  ASSUME MemoryInv, NEW t \in Threads, ~ Idle(t), NEW a \in Act, Returns(t, a)
  PROVE  /\ StacksOK' /\ dead' = dead
         /\ Left(t, a.got) \in Seq(Act)
         /\ stack'[t] = Left(t, a.got)
         /\ \A u \in Threads \ {t} : stack'[u] = stack[u]
         /\ Left(t, a.got) # <<>> => Last(Left(t, a.got)).at # "loaded"
         /\ Entries(Left(t, a.got)) = Entries(stack[t]) - Weight(Top(t))
         /\ held' \subseteq Block /\ reported' \subseteq Block
         /\ IsFiniteSet(reported')
<1>1. /\ stack[t] \in Seq(Act) /\ stack[t] # <<>> /\ LoadedOnTop(stack[t])
      /\ Len(stack[t]) <= MaxStack /\ Len(stack[t]) \in Nat /\ MaxStack \in Nat
  BY MemoryAssumption DEF MemoryInv, StacksOK, Idle
<1>2. /\ a.got \in Block \cup {null} /\ a.block \in Block \cup {null}
      /\ a.proc = "report" => a.block \in Block
  BY DEF Act, Frame, Sound
<1> DEFINE s == Left(t, a.got)
<1>3. /\ s \in Seq(Act) /\ Len(s) = Len(stack[t]) - 1
      /\ s # <<>> => Last(s).at # "loaded"
      /\ Entries(s) = Entries(stack[t]) - Weight(Top(t))
      /\ LoadedOnTop(s)
  BY <1>1, <1>2, ReturnFacts DEF Left, Top
<1>4. stack' = [stack EXCEPT ![t] = s] /\ dead' = dead
  BY DEF Returns, Left
<1>5. Len(s) <= MaxStack
  BY <1>1, <1>3
<1> HIDE DEF s
<1>6. StacksOK' /\ stack'[t] = s /\ \A u \in Threads \ {t} : stack'[u] = stack[u]
  BY <1>3, <1>4, <1>5, StackUpdate DEF MemoryInv
<1>7. Result(a) \subseteq Block
  BY <1>2 DEF Result
<1>8. held' \subseteq Block
  BY <1>7 DEF Returns, MemoryInv, BlocksOK
<1>9. reported' \subseteq Block /\ IsFiniteSet(reported')
  <2>1. reported' = IF a.proc = "report" THEN reported \cup {a.block} ELSE reported
    BY DEF Returns
  <2>2. reported \subseteq Block /\ IsFiniteSet(reported)
    BY DEF MemoryInv, BlocksOK
  <2>3. IsFiniteSet(reported \cup {a.block})
    BY <2>2, FS_AddElement
  <2>4. QED BY <1>2, <2>1, <2>2, <2>3
<1>10. QED BY <1>3, <1>4, <1>6, <1>8, <1>9 DEF s

\* A call begins on an empty stack.
LEMMA NewCallInv ==
  ASSUME MemoryInv, NEW t \in Threads, NEW a \in Act, Call(t, a),
         ~ Inside(a), a.at # "loaded"
  PROVE  StacksOK' /\ ScalarsOK' /\ MutexSerialises'
<1>1. /\ ~ dead /\ stack[t] = <<>> /\ stack' = [stack EXCEPT ![t] = <<a>>]
      /\ up' = up /\ owner' = owner /\ depth' = depth /\ counters' = counters
      /\ refused' = refused /\ strays' = strays /\ dead' = dead
  BY DEF Call, Idle
<1> DEFINE s == <<a>>
<1>2. s \in Seq(Act) /\ s = Append(<<>>, a) /\ <<>> \in Seq(Act) /\ Len(s) = 1 /\ s[1] = a
  OBVIOUS
<1>3. Entries(s) = Entries(<<>>)
  <2>1. Entries(Append(<<>>, a)) = Entries(<<>>) + Weight(a)
    BY <1>2, EntriesAppend
  <2>2. QED BY <1>2, <2>1, EntriesNone DEF Weight
<1>4. LoadedOnTop(s) /\ Last(s) = a
  BY <1>2 DEF LoadedOnTop, Last
<1>5. Len(s) <= MaxStack
  BY <1>2, MemoryAssumption
<1> HIDE DEF s
<1>6. StacksOK' /\ stack'[t] = s /\ \A u \in Threads \ {t} : stack'[u] = stack[u]
  BY <1>1, <1>2, <1>4, <1>5, StackUpdate DEF MemoryInv, s
<1>7. MutexSerialises'
  BY <1>1, <1>2, <1>3, <1>4, <1>6, MutexKept
<1>8. ScalarsOK'
  BY <1>1 DEF MemoryInv, ScalarsOK, Count, AllTags
<1>9. QED BY <1>6, <1>7, <1>8

-----------------------------------------------------------------------------
(***************************************************************************)
(* Blocks get identifiers that no other block has.                         *)
(***************************************************************************)
LEMMA MinInside ==
  ASSUME NEW T \in SUBSET Nat, T # {}
  PROVE  Min(T) \in T
<1>1. \E x \in T : \A y \in T : x <= y
  BY LeastNatural
<1> QED BY <1>1 DEF Min

LEMMA NamedFinite ==
  ASSUME MemoryInv
  PROVE  IsFiniteSet(Named)
<1> DEFINE InCall(t) == {stack[t][i].block : i \in DOMAIN stack[t]}
           Calls == {InCall(t) : t \in Threads}
<1>1. ASSUME NEW t \in Threads PROVE IsFiniteSet(InCall(t))
  <2>1. stack[t] \in Seq(Act)
    BY DEF MemoryInv, StacksOK
  <2>2. DOMAIN stack[t] = 1 .. Len(stack[t]) /\ Len(stack[t]) \in Nat
    BY <2>1
  <2>3. IsFiniteSet(DOMAIN stack[t])
    BY <2>2, FS_Interval
  <2> DEFINE f == [i \in DOMAIN stack[t] |-> stack[t][i].block]
  <2>4. f \in Surjection(DOMAIN stack[t], InCall(t))
    BY DEF Surjection
  <2> HIDE DEF f
  <2>5. QED BY <2>3, <2>4, FS_Surjection
<1>2. IsFiniteSet(Calls)
  <2> DEFINE f == [t \in Threads |-> InCall(t)]
  <2>1. f \in Surjection(Threads, Calls)
    BY DEF Surjection
  <2> HIDE DEF f
  <2>2. QED BY <2>1, MemoryAssumption, FS_Surjection
<1>3. IsFiniteSet(UNION Calls)
  <2>1. \A T \in Calls : IsFiniteSet(T)
    BY <1>1
  <2> HIDE DEF Calls
  <2>2. QED BY <1>2, <2>1, FS_UNION
<1>4. IsFiniteSet(heap) /\ IsFiniteSet(foreign) /\ IsFiniteSet(reported)
  BY DEF MemoryInv, BlocksOK
<1>5. Named = ((heap \cup foreign) \cup reported) \cup UNION Calls
  BY DEF Named
<1> HIDE DEF Calls
<1>6. IsFiniteSet(heap \cup foreign)
  BY <1>4, FS_Union
<1>7. IsFiniteSet((heap \cup foreign) \cup reported)
  BY <1>4, <1>6, FS_Union
<1>8. QED BY <1>3, <1>5, <1>7, FS_Union

LEMMA NewBlockFacts ==
  ASSUME MemoryInv, NEW n \in Nat, NEW tag \in AllTags
  PROVE  /\ NewBlock(n, tag) \in Block
         /\ NewBlock(n, tag) \notin Named
<1> DEFINE used == {b.id : b \in Named \ {null}}
           T == (1 .. Cardinality(used) + 1) \ used
<1>1. IsFiniteSet(used)
  <2>1. IsFiniteSet(Named \ {null})
    BY NamedFinite, FS_RemoveElement
  <2> DEFINE f == [b \in Named \ {null} |-> b.id]
  <2>2. f \in Surjection(Named \ {null}, used)
    BY DEF Surjection
  <2> HIDE DEF f
  <2>3. QED BY <2>1, <2>2, FS_Surjection
<1>2. NewBlock(n, tag) = [id |-> Min(T), size |-> n, tag |-> tag]
  BY DEF NewBlock
<1> DEFINE c == Cardinality(used)
<1> HIDE DEF used
<1>3. c \in Nat
  BY <1>1, FS_CardinalityType
<1>4. T # {}
  <2>1. SUFFICES ASSUME 1 .. c + 1 \subseteq used PROVE FALSE
    OBVIOUS
  <2>2. Cardinality(1 .. c + 1) <= c
    BY <1>1, <2>1, FS_Subset
  <2>3. Cardinality(1 .. c + 1) = c + 1
    BY <1>3, FS_Interval
  <2>4. QED BY <1>3, <2>2, <2>3
<1>5. T \in SUBSET Nat
  BY <1>3
<1>6. Min(T) \in T
  <2> HIDE DEF T
  <2>1. QED BY <1>4, <1>5, MinInside
<1>7. Min(T) \in Nat /\ Min(T) \notin used
  BY <1>5, <1>6
<1> HIDE DEF T
<1>8. NewBlock(n, tag) \in Block
  BY <1>2, <1>7 DEF Block
<1>9. ASSUME NewBlock(n, tag) \in Named
      PROVE  FALSE
  <2>1. NewBlock(n, tag).id \in used
    BY <1>8, <1>9, NullAssumption DEF used
  <2>2. QED BY <1>2, <1>7, <2>1
<1>10. QED BY <1>8, <1>9

-----------------------------------------------------------------------------
(***************************************************************************)
(* The actions.                                                            *)
(***************************************************************************)
LEMMA TopFacts ==
  ASSUME MemoryInv, NEW t \in Threads, ~ Idle(t)
  PROVE  Top(t) \in Act
<1>1. stack[t] \in Seq(Act) /\ stack[t] # <<>>
  BY DEF MemoryInv, StacksOK, Idle
<1>2. QED BY <1>1, FrontFacts DEF Top

LEMMA CalleeFacts ==
  /\ \A n \in Nat, tag \in AllTags :
       Allocating(n, tag) \in Act /\ ~ Inside(Allocating(n, tag)) /\ Allocating(n, tag).at = "enter"
  /\ \A n \in Nat : Logging(n) \in Act /\ ~ Inside(Logging(n)) /\ Logging(n).at = "format"
  /\ \A b \in Block : Freeing(b) \in Act /\ ~ Inside(Freeing(b)) /\ Freeing(b).at = "enter"
<1>1. ASSUME NEW n \in Nat, NEW tag \in AllTags
      PROVE  Allocating(n, tag) \in Act /\ ~ Inside(Allocating(n, tag)) /\ Allocating(n, tag).at = "enter"
  BY DEF Allocating, Activation, Act, Frame, Places, Sound, Inside, Locking
<1>2. ASSUME NEW n \in Nat
      PROVE  Logging(n) \in Act /\ ~ Inside(Logging(n)) /\ Logging(n).at = "format"
  BY DEF Logging, Activation, Act, Frame, Places, Sound, Inside, Locking, AllTags
<1>3. ASSUME NEW b \in Block
      PROVE  Freeing(b) \in Act /\ ~ Inside(Freeing(b)) /\ Freeing(b).at = "enter"
  <2>1. b # null /\ b.size \in Nat /\ b.tag \in AllTags
    BY NullAssumption DEF Block
  <2>2. QED BY <2>1 DEF Freeing, Activation, Act, Frame, Places, Sound, Inside, Locking
<1>4. QED BY <1>1, <1>2, <1>3

LEMMA Sized == LogSize \in Nat /\ Sizes \subseteq Nat /\ Tags \subseteq AllTags /\ StringTag \in AllTags
BY MemoryAssumption DEF AllTags

\* What is left to show of a step that gives out no block.
LEMMA Assembled ==
  ASSUME MemoryInv, StacksOK', MutexSerialises', dead' \in BOOLEAN, counters' \in Count,
         refused' \in {refused, refused + 1}, strays' \in {strays, strays + 1},
         depth' \in Nat, up' = up, heap' \subseteq heap, foreign' \subseteq foreign,
         held' \subseteq Block, reported' \subseteq Block, IsFiniteSet(reported')
  PROVE  MemoryInv'
<1>1. ScalarsOK'
  BY DEF MemoryInv, ScalarsOK, Count, AllTags
<1>2. IsFiniteSet(heap') /\ IsFiniteSet(foreign')
  BY FS_Subset DEF MemoryInv, BlocksOK
<1>3. BlocksOK'
  BY <1>2 DEF MemoryInv, BlocksOK, Block, AllTags
<1>4. QED BY <1>1, <1>3 DEF MemoryInv

LEMMA AssembledKept ==
  ASSUME MemoryInv, StacksOK', MutexSerialises', dead' \in BOOLEAN, counters' \in Count,
         refused' \in {refused, refused + 1}, strays' \in {strays, strays + 1},
         depth' = depth, up' = up, heap' \subseteq heap, foreign' \subseteq foreign,
         held' = held, reported' = reported
  PROVE  MemoryInv'
<1>1. /\ depth' \in Nat /\ held' \subseteq Block /\ reported' \subseteq Block
      /\ IsFiniteSet(reported')
  BY DEF MemoryInv, ScalarsOK, BlocksOK
<1>2. QED BY <1>1, Assembled

LEMMA LockInv ==
  ASSUME MemoryInv, NEW t \in Threads, mutex_lock(t)
  PROVE  MemoryInv'
<1>1. /\ owner \in {null, t} /\ ~ dead /\ ~ Idle(t)
      /\ Top(t).proc \in Locking /\ Top(t).at = "enter"
      /\ owner' = t /\ depth' = depth + 1
      /\ up' = up /\ counters' = counters /\ heap' = heap /\ foreign' = foreign
      /\ refused' = refused /\ strays' = strays
  BY DEF mutex_lock, Enter, At
<1> DEFINE a == IF Top(t).proc = "free" THEN [Top(t) EXCEPT !.at = "locked"]
                ELSE [Top(t) EXCEPT !.at = "loaded", !.seen = counters]
<1>2. Become(t, a)
  BY DEF mutex_lock, Enter
<1>3. /\ depth \in Nat /\ counters \in Count /\ dead \in BOOLEAN
  BY DEF MemoryInv, ScalarsOK
<1>4. Top(t) \in Act
  BY <1>1, TopFacts
<1>5. a \in Act /\ Inside(a) /\ a.at = "loaded" => a.seen = counters
  BY <1>1, <1>3, <1>4 DEF Act, Frame, Places, Sound, Inside
<1>6. a \in Act /\ Inside(a)
  BY <1>1, <1>3, <1>4 DEF Act, Frame, Places, Sound, Inside
<1> HIDE DEF a
<1>7. /\ stack[t] \in Seq(Act) /\ stack[t] # <<>> /\ LoadedOnTop(stack[t])
      /\ Len(stack[t]) <= MaxStack
  BY <1>1 DEF MemoryInv, StacksOK, Idle
<1> DEFINE s == Append(Front(stack[t]), a)
<1>8. /\ s \in Seq(Act) /\ Len(s) = Len(stack[t]) /\ Last(s) = a
      /\ Entries(s) = Entries(stack[t]) - Weight(Top(t)) + Weight(a)
      /\ LoadedOnTop(s)
  BY <1>6, <1>7, ReplaceFacts DEF Top
<1>9. stack' = [stack EXCEPT ![t] = s] /\ held' = held /\ reported' = reported /\ dead' = dead
  BY <1>2 DEF Become
<1> HIDE DEF s
<1>10. StacksOK' /\ stack'[t] = s /\ \A u \in Threads \ {t} : stack'[u] = stack[u]
  BY <1>7, <1>8, <1>9, StackUpdate DEF MemoryInv
<1>11. Entries(s) = Entries(stack[t]) + 1
  <2>1. Weight(Top(t)) = 0 /\ Weight(a) = 1
    BY <1>1, <1>6 DEF Weight, Inside
  <2>2. Entries(stack[t]) \in Nat
    BY <1>7, EntriesFacts
  <2>3. QED BY <1>8, <2>1, <2>2
<1>12. MutexSerialises'
  BY <1>1, <1>5, <1>6, <1>8, <1>10, <1>11, MutexTaken
<1>13. depth' \in Nat /\ held' \subseteq Block /\ reported' \subseteq Block /\ IsFiniteSet(reported')
  BY <1>1, <1>3, <1>9 DEF MemoryInv, BlocksOK
<1>14. QED BY <1>1, <1>3, <1>9, <1>10, <1>12, <1>13, Assembled

LEMMA UnlockInv ==
  ASSUME MemoryInv, NEW t \in Threads, mutex_unlock(t)
  PROVE  MemoryInv'
<1>1. /\ ~ dead /\ ~ Idle(t) /\ Top(t).proc \in Locking /\ Top(t).at = "unlock"
      /\ owner' = (IF depth = 1 THEN null ELSE owner) /\ depth' = depth - 1
      /\ up' = up /\ counters' = counters /\ heap' = heap
      /\ refused' = refused /\ strays' = strays
  BY DEF mutex_unlock, At
<1>2. foreign' \subseteq foreign
  BY DEF mutex_unlock
<1>3. Inside(Top(t)) /\ Weight(Top(t)) = 1 /\ Top(t) \in Act
  BY <1>1, TopFacts DEF Inside, Weight
<1>4. depth \in Nat \ {0} /\ owner = t
  BY <1>1, <1>3, InsideOwns
<1>5. /\ stack[t] \in Seq(Act) /\ stack[t] # <<>> /\ LoadedOnTop(stack[t])
      /\ Len(stack[t]) <= MaxStack
  BY <1>1 DEF MemoryInv, StacksOK, Idle
<1>6. counters' \in Count /\ dead \in BOOLEAN /\ depth' \in Nat
  BY <1>1, <1>4 DEF MemoryInv, ScalarsOK
<1>7. CASE Top(t).proc = "allocate" /\ Top(t).got = null
  <2> DEFINE a == [Top(t) EXCEPT !.at = "complain"]
             s == Append(Front(stack[t]), a)
  <2>1. a \in Act /\ ~ Inside(a) /\ a.at = "complain"
    BY <1>3 DEF Act, Frame, Places, Sound, Inside
  <2>2. Become(t, a)
    BY <1>7 DEF mutex_unlock
  <2> HIDE DEF a
  <2>3. /\ s \in Seq(Act) /\ Len(s) = Len(stack[t]) /\ Last(s) = a
        /\ Entries(s) = Entries(stack[t]) - Weight(Top(t)) + Weight(a)
        /\ LoadedOnTop(s)
    BY <1>5, <2>1, ReplaceFacts DEF Top
  <2>4. stack' = [stack EXCEPT ![t] = s] /\ held' = held /\ reported' = reported /\ dead' = dead
    BY <2>2 DEF Become
  <2> HIDE DEF s
  <2>5. StacksOK' /\ stack'[t] = s /\ \A u \in Threads \ {t} : stack'[u] = stack[u]
    BY <1>5, <2>3, <2>4, StackUpdate DEF MemoryInv
  <2>6. Entries(s) = Entries(stack[t]) - 1
    <3>1. Entries(stack[t]) \in Nat /\ Weight(a) = 0
      BY <1>5, <2>1, EntriesFacts DEF Weight
    <3>2. QED BY <1>3, <2>3, <3>1
  <2>7. MutexSerialises'
    BY <1>1, <1>3, <2>1, <2>3, <2>5, <2>6, MutexLeft
  <2>8. held' \subseteq Block /\ reported' \subseteq Block /\ IsFiniteSet(reported')
    BY <2>4 DEF MemoryInv, BlocksOK
  <2>9. QED BY <1>1, <1>2, <1>6, <2>4, <2>5, <2>7, <2>8, Assembled
<1>8. CASE ~ (Top(t).proc = "allocate" /\ Top(t).got = null)
  <2>1. Returns(t, Top(t))
    BY <1>8 DEF mutex_unlock
  <2> DEFINE s == Left(t, Top(t).got)
  <2>2. /\ StacksOK' /\ dead' = dead
        /\ s \in Seq(Act) /\ stack'[t] = s
        /\ \A u \in Threads \ {t} : stack'[u] = stack[u]
        /\ s # <<>> => Last(s).at # "loaded"
        /\ Entries(s) = Entries(stack[t]) - Weight(Top(t))
        /\ held' \subseteq Block /\ reported' \subseteq Block
        /\ IsFiniteSet(reported')
    BY <1>1, <1>3, <2>1, ReturnsInv
  <2> HIDE DEF s
  <2>3. Entries(s) = Entries(stack[t]) - 1
    BY <1>3, <2>2
  <2>4. MutexSerialises'
    BY <1>1, <1>3, <2>2, <2>3, MutexLeft
  <2>5. QED BY <1>1, <1>2, <1>6, <2>2, <2>4, Assembled
<1>9. QED BY <1>7, <1>8

\* A step that ends a call outside of the mutex.
LEMMA EndInv ==
  ASSUME MemoryInv, NEW t \in Threads, ~ dead, ~ Idle(t), ~ Inside(Top(t)),
         NEW a \in Act, Returns(t, a),
         owner' = owner, depth' = depth, counters' = counters
  PROVE  /\ StacksOK' /\ MutexSerialises' /\ dead' = dead
         /\ held' \subseteq Block /\ reported' \subseteq Block /\ IsFiniteSet(reported')
<1> DEFINE s == Left(t, a.got)
<1>1. /\ StacksOK' /\ dead' = dead
      /\ s \in Seq(Act) /\ stack'[t] = s
      /\ \A u \in Threads \ {t} : stack'[u] = stack[u]
      /\ s # <<>> => Last(s).at # "loaded"
      /\ Entries(s) = Entries(stack[t]) - Weight(Top(t))
      /\ held' \subseteq Block /\ reported' \subseteq Block
      /\ IsFiniteSet(reported')
  BY ReturnsInv
<1> HIDE DEF s
<1>2. Entries(s) = Entries(stack[t])
  <2>1. stack[t] \in Seq(Act)
    BY DEF MemoryInv, StacksOK
  <2>2. Entries(stack[t]) \in Nat /\ Weight(Top(t)) = 0
    BY <2>1, EntriesFacts DEF Weight
  <2>3. QED BY <1>1, <2>2
<1>3. MutexSerialises'
  BY <1>1, <1>2, MutexKept
<1>4. QED BY <1>1, <1>3

\* What is stored is what was loaded, with one request more or less.
LEMMA StoreFacts ==
  ASSUME MemoryInv, NEW t \in Threads, At(t, Locking, "loaded"), Store(t)
  PROVE  /\ ~ dead /\ ~ Idle(t) /\ Top(t) \in Act /\ Inside(Top(t)) /\ owner = t
         /\ counters' \in Count
<1>1. ~ dead /\ ~ Idle(t) /\ Top(t).proc \in Locking /\ Top(t).at = "loaded"
  BY DEF At
<1>2. Top(t) \in Act /\ Inside(Top(t))
  BY <1>1, TopFacts DEF Inside
<1>3. owner = t
  BY <1>1, <1>2, InsideOwns
<1>4. Top(t).seen \in Count /\ Top(t).size \in Nat /\ Top(t).tag \in AllTags
  BY <1>1, <1>2 DEF Act, Frame, Sound
<1>5. ASSUME NEW c \in Count, NEW n \in Nat, NEW g \in AllTags
      PROVE  Tracked(c, n, g) \in Count /\ Untracked(c, n, g) \in Count
  <2>1. c.count \in Int /\ c.total \in Int /\ c.tagged \in [AllTags -> Int] /\ n \in Int
    BY DEF Count
  <2>2. [c.tagged EXCEPT ![g] = @ + n] \in [AllTags -> Int]
        /\ [c.tagged EXCEPT ![g] = @ - n] \in [AllTags -> Int]
    BY <2>1
  <2>3. Tracked(c, n, g) \in Count
    BY <2>1, <2>2 DEF Tracked, Count
  <2>4. Untracked(c, n, g) \in Count
    BY <2>1, <2>2 DEF Untracked, Count
  <2>5. QED BY <2>3, <2>4
<1>6. counters' \in Count
  BY <1>4, <1>5 DEF Store
<1>7. QED BY <1>1, <1>2, <1>3, <1>6

LEMMA StoreCountersInv ==
  ASSUME MemoryInv, NEW t \in Threads, StoreCounters(t)
  PROVE  MemoryInv'
<1>1. At(t, Locking \ {"allocate"}, "loaded") /\ Store(t)
  BY DEF StoreCounters
<1>2. At(t, Locking, "loaded")
  BY <1>1 DEF At
<1>3. /\ ~ dead /\ ~ Idle(t) /\ Top(t) \in Act /\ Inside(Top(t)) /\ owner = t
      /\ counters' \in Count
  BY <1>1, <1>2, StoreFacts
<1> DEFINE a == [Top(t) EXCEPT !.at = "unlock", !.seen = null]
<1>4. a \in Act /\ Inside(a) /\ a.at = "unlock"
  BY <1>2, <1>3 DEF Act, Frame, Places, Sound, Inside, At
<1>5. /\ Become(t, a) /\ up' = up /\ owner' = owner /\ depth' = depth /\ heap' = heap
      /\ foreign' = foreign /\ refused' = refused /\ strays' = strays
  BY DEF StoreCounters
<1>6. Weight(a) = Weight(Top(t))
  BY <1>3, <1>4 DEF Weight
<1> HIDE DEF a
<1>7. /\ StacksOK' /\ MutexSerialises'
      /\ held' = held /\ reported' = reported /\ dead' = dead
  BY <1>3, <1>4, <1>5, <1>6, BecomeInv
<1>8. dead' \in BOOLEAN
  BY <1>7 DEF MemoryInv, ScalarsOK
<1>9. QED BY <1>3, <1>5, <1>7, <1>8, AssembledKept

LEMMA AllocateGrantedInv ==
  ASSUME MemoryInv, NEW t \in Threads, AllocateGranted(t)
  PROVE  MemoryInv'
<1>1. At(t, {"allocate"}, "loaded") /\ Store(t)
  BY DEF AllocateGranted
<1>2. At(t, Locking, "loaded")
  BY <1>1 DEF At, Locking
<1>3. /\ ~ dead /\ ~ Idle(t) /\ Top(t) \in Act /\ Inside(Top(t)) /\ owner = t
      /\ counters' \in Count
  BY <1>1, <1>2, StoreFacts
<1> DEFINE b == NewBlock(Top(t).size, Top(t).tag)
           a == [Top(t) EXCEPT !.at = "unlock", !.seen = null, !.got = b]
<1>4. b \in Block /\ b \notin Named
  <2>1. Top(t).size \in Nat /\ Top(t).tag \in AllTags
    BY <1>3 DEF Act, Frame
  <2>2. QED BY <2>1, NewBlockFacts
<1>5. /\ heap' = heap \cup {b} /\ Become(t, a) /\ up' = up /\ owner' = owner
      /\ depth' = depth /\ foreign' = foreign /\ refused' = refused /\ strays' = strays
  BY DEF AllocateGranted
<1> HIDE DEF b
<1>6. a \in Act /\ Inside(a) /\ a.at = "unlock"
  BY <1>2, <1>3, <1>4 DEF Act, Frame, Places, Sound, Inside, At
<1>7. Weight(a) = Weight(Top(t))
  BY <1>3, <1>6 DEF Weight
<1> HIDE DEF a
<1>8. /\ StacksOK' /\ MutexSerialises'
      /\ held' = held /\ reported' = reported /\ dead' = dead
  BY <1>3, <1>5, <1>6, <1>7, BecomeInv
<1>9. ScalarsOK'
  BY <1>3, <1>5, <1>8 DEF MemoryInv, ScalarsOK, Count, AllTags
<1>10. BlocksOK'
  <2>1. IsFiniteSet(heap')
    BY <1>5, FS_AddElement DEF MemoryInv, BlocksOK
  <2>2. b \notin foreign
    BY <1>4 DEF Named
  <2>3. QED BY <1>4, <1>5, <1>8, <2>1, <2>2 DEF MemoryInv, BlocksOK, Block, AllTags
<1>11. QED BY <1>8, <1>9, <1>10 DEF MemoryInv

LEMMA AllocateOutsideInv ==
  ASSUME MemoryInv, NEW t \in Threads, AllocateOutside(t)
  PROVE  MemoryInv'
<1>1. /\ ~ dead /\ ~ Idle(t) /\ Top(t).proc = "allocate" /\ Top(t).at = "enter"
      /\ up' = up /\ owner' = owner /\ depth' = depth /\ counters' = counters
      /\ heap' = heap /\ refused' = refused /\ strays' = strays
  BY DEF AllocateOutside, At
<1>2. Top(t) \in Act /\ ~ Inside(Top(t))
  BY <1>1, TopFacts DEF Inside
<1> DEFINE b == NewBlock(Top(t).size, Top(t).tag)
           a == [Top(t) EXCEPT !.got = b]
<1>3. b \in Block /\ b \notin Named
  <2>1. Top(t).size \in Nat /\ Top(t).tag \in AllTags
    BY <1>2 DEF Act, Frame
  <2>2. QED BY <2>1, NewBlockFacts
<1>4. foreign' = foreign \cup {b} /\ Returns(t, a)
  BY DEF AllocateOutside
<1> HIDE DEF b
<1>5. a \in Act
  BY <1>2, <1>3 DEF Act, Frame, Sound
<1> HIDE DEF a
<1>6. /\ StacksOK' /\ MutexSerialises' /\ dead' = dead
      /\ held' \subseteq Block /\ reported' \subseteq Block /\ IsFiniteSet(reported')
  BY <1>1, <1>2, <1>4, <1>5, EndInv
<1>7. ScalarsOK'
  BY <1>1, <1>6 DEF MemoryInv, ScalarsOK, Count, AllTags
<1>8. BlocksOK'
  <2>1. IsFiniteSet(foreign')
    BY <1>4, FS_AddElement DEF MemoryInv, BlocksOK
  <2>2. b \notin heap
    BY <1>3 DEF Named
  <2>3. QED BY <1>1, <1>3, <1>4, <1>6, <2>1, <2>2 DEF MemoryInv, BlocksOK, Block, AllTags
<1>9. QED BY <1>6, <1>7, <1>8 DEF MemoryInv

LEMMA FreeOutsideInv ==
  ASSUME MemoryInv, NEW t \in Threads, FreeOutside(t)
  PROVE  MemoryInv'
<1>1. /\ ~ dead /\ ~ Idle(t) /\ Top(t).at = "enter" /\ Returns(t, Top(t))
      /\ up' = up /\ owner' = owner /\ depth' = depth /\ counters' = counters
      /\ heap' = heap /\ foreign' \subseteq foreign
      /\ refused' = refused /\ strays' = strays
  BY DEF FreeOutside, At
<1>2. Top(t) \in Act /\ ~ Inside(Top(t))
  BY <1>1, TopFacts DEF Inside
<1>3. /\ StacksOK' /\ MutexSerialises' /\ dead' = dead
      /\ held' \subseteq Block /\ reported' \subseteq Block /\ IsFiniteSet(reported')
  BY <1>1, <1>2, EndInv
<1>4. depth' \in Nat /\ counters' \in Count /\ dead' \in BOOLEAN
  BY <1>1, <1>3 DEF MemoryInv, ScalarsOK
<1>5. QED BY <1>1, <1>3, <1>4, Assembled

LEMMA CallReturnsInv ==
  ASSUME MemoryInv, NEW t \in Threads, CallReturns(t)
  PROVE  MemoryInv'
<1>1. /\ ~ dead /\ ~ Idle(t) /\ Top(t).at = "return" /\ Returns(t, Top(t))
      /\ up' = up /\ owner' = owner /\ depth' = depth /\ counters' = counters
      /\ heap' = heap /\ foreign' = foreign
      /\ refused' = refused /\ strays' = strays
  BY DEF CallReturns, At
<1>2. Top(t) \in Act /\ ~ Inside(Top(t))
  BY <1>1, TopFacts DEF Inside
<1>3. /\ StacksOK' /\ MutexSerialises' /\ dead' = dead
      /\ held' \subseteq Block /\ reported' \subseteq Block /\ IsFiniteSet(reported')
  BY <1>1, <1>2, EndInv
<1>4. depth' \in Nat /\ counters' \in Count /\ dead' \in BOOLEAN
  BY <1>1, <1>3 DEF MemoryInv, ScalarsOK
<1>5. QED BY <1>1, <1>3, <1>4, Assembled

LEMMA FreeOwnInv ==
  ASSUME MemoryInv, NEW t \in Threads, FreeOwn(t)
  PROVE  MemoryInv'
<1> DEFINE a == [Top(t) EXCEPT !.at = "loaded", !.seen = counters]
<1>1. /\ ~ dead /\ ~ Idle(t) /\ Top(t).proc = "free" /\ Top(t).at = "locked"
      /\ Become(t, a) /\ up' = up /\ owner' = owner /\ depth' = depth
      /\ counters' = counters /\ heap' \subseteq heap /\ foreign' = foreign
      /\ refused' = refused /\ strays' = strays
  BY DEF FreeOwn, At
<1>2. counters \in Count /\ dead \in BOOLEAN /\ Top(t) \in Act
  BY <1>1, TopFacts DEF MemoryInv, ScalarsOK
<1>3. a \in Act /\ Inside(a) /\ Inside(Top(t)) /\ a.seen = counters
  BY <1>1, <1>2 DEF Act, Frame, Places, Sound, Inside, Locking
<1> HIDE DEF a
<1>4. /\ StacksOK' /\ MutexSerialises'
      /\ held' = held /\ reported' = reported /\ dead' = dead
  BY <1>1, <1>3, BecomeInv DEF Weight
<1>5. QED BY <1>1, <1>2, <1>4, AssembledKept

LEMMA FreeForeignLoadsInv ==
  ASSUME MemoryInv, NEW t \in Threads, FreeForeignLoads(t)
  PROVE  MemoryInv'
<1> DEFINE a == [Top(t) EXCEPT !.at = "loaded", !.seen = counters]
<1>1. /\ ~ dead /\ ~ Idle(t) /\ Top(t).proc = "free" /\ Top(t).at = "logged"
      /\ Become(t, a) /\ up' = up /\ owner' = owner /\ depth' = depth
      /\ counters' = counters /\ heap' \subseteq heap /\ foreign' = foreign
      /\ refused' = refused /\ strays' = strays
  BY DEF FreeForeignLoads, At
<1>2. counters \in Count /\ dead \in BOOLEAN /\ Top(t) \in Act
  BY <1>1, TopFacts DEF MemoryInv, ScalarsOK
<1>3. a \in Act /\ Inside(a) /\ Inside(Top(t)) /\ a.seen = counters
  BY <1>1, <1>2 DEF Act, Frame, Places, Sound, Inside, Locking
<1> HIDE DEF a
<1>4. /\ StacksOK' /\ MutexSerialises'
      /\ held' = held /\ reported' = reported /\ dead' = dead
  BY <1>1, <1>3, BecomeInv DEF Weight
<1>5. QED BY <1>1, <1>2, <1>4, AssembledKept

LEMMA AllocateComplainsInv ==
  ASSUME MemoryInv, NEW t \in Threads, AllocateComplains(t)
  PROVE  MemoryInv'
<1> DEFINE a == [Top(t) EXCEPT !.at = "return"]
           c == Logging(LogSize)
<1>1. /\ ~ dead /\ ~ Idle(t) /\ Top(t).proc = "allocate" /\ Top(t).at = "complain"
      /\ BecomeAndCall(t, a, c) /\ up' = up /\ owner' = owner /\ depth' = depth
      /\ counters' = counters /\ heap' \subseteq heap /\ foreign' = foreign
      /\ refused' = refused /\ strays' \in {strays, strays + 1}
  BY DEF AllocateComplains, At
<1>2. Top(t) \in Act /\ counters \in Count
  BY <1>1, TopFacts DEF MemoryInv, ScalarsOK
<1>3. c \in Act /\ ~ Inside(c) /\ c.at # "loaded"
  BY CalleeFacts, Sized
<1>4. a \in Act /\ a.at = "return" /\ Inside(a) = Inside(Top(t))
  BY <1>1, <1>2 DEF Act, Frame, Places, Sound, Inside, Locking
<1> HIDE DEF a, c
<1>5. /\ StacksOK' /\ MutexSerialises'
      /\ held' = held /\ reported' = reported /\ dead' \in BOOLEAN
  BY <1>1, <1>3, <1>4, CallInv DEF Weight
<1>6. QED BY <1>1, <1>2, <1>5, AssembledKept

LEMMA FreeForeignInv ==
  ASSUME MemoryInv, NEW t \in Threads, FreeForeign(t)
  PROVE  MemoryInv'
<1> DEFINE a == [Top(t) EXCEPT !.at = "logged"]
           c == Logging(LogSize)
<1>1. /\ ~ dead /\ ~ Idle(t) /\ Top(t).proc = "free" /\ Top(t).at = "locked"
      /\ BecomeAndCall(t, a, c) /\ up' = up /\ owner' = owner /\ depth' = depth
      /\ counters' = counters /\ heap' \subseteq heap /\ foreign' = foreign
      /\ refused' = refused /\ strays' \in {strays, strays + 1}
  BY DEF FreeForeign, At
<1>2. Top(t) \in Act /\ counters \in Count
  BY <1>1, TopFacts DEF MemoryInv, ScalarsOK
<1>3. c \in Act /\ ~ Inside(c) /\ c.at # "loaded"
  BY CalleeFacts, Sized
<1>4. a \in Act /\ a.at = "logged" /\ Inside(a) = Inside(Top(t))
  BY <1>1, <1>2 DEF Act, Frame, Places, Sound, Inside, Locking
<1> HIDE DEF a, c
<1>5. /\ StacksOK' /\ MutexSerialises'
      /\ held' = held /\ reported' = reported /\ dead' \in BOOLEAN
  BY <1>1, <1>3, <1>4, CallInv DEF Weight
<1>6. QED BY <1>1, <1>2, <1>5, AssembledKept

LEMMA ReallocateAllocatesInv ==
  ASSUME MemoryInv, NEW t \in Threads, ReallocateAllocates(t)
  PROVE  MemoryInv'
<1> DEFINE a == [Top(t) EXCEPT !.at = "copy"]
           c == Allocating(Top(t).size, Top(t).tag)
<1>1. /\ ~ dead /\ ~ Idle(t) /\ Top(t).proc = "reallocate" /\ Top(t).at = "allocate"
      /\ BecomeAndCall(t, a, c) /\ up' = up /\ owner' = owner /\ depth' = depth
      /\ counters' = counters /\ heap' \subseteq heap /\ foreign' = foreign
      /\ refused' = refused /\ strays' \in {strays, strays + 1}
  BY DEF ReallocateAllocates, At
<1>2. Top(t) \in Act /\ counters \in Count
  BY <1>1, TopFacts DEF MemoryInv, ScalarsOK
<1>3. c \in Act /\ ~ Inside(c) /\ c.at # "loaded"
  <2>1. Top(t).size \in Nat /\ Top(t).tag \in AllTags
    BY <1>2 DEF Act, Frame
  <2>2. QED BY <2>1, CalleeFacts, Sized
<1>4. a \in Act /\ a.at = "copy" /\ Inside(a) = Inside(Top(t))
  BY <1>1, <1>2 DEF Act, Frame, Places, Sound, Inside, Locking
<1> HIDE DEF a, c
<1>5. /\ StacksOK' /\ MutexSerialises'
      /\ held' = held /\ reported' = reported /\ dead' \in BOOLEAN
  BY <1>1, <1>3, <1>4, CallInv DEF Weight
<1>6. QED BY <1>1, <1>2, <1>5, AssembledKept

LEMMA LogFormatsInv ==
  ASSUME MemoryInv, NEW t \in Threads, LogFormats(t)
  PROVE  MemoryInv'
<1> DEFINE a == [Top(t) EXCEPT !.at = "prefix"]
           c == Allocating(Top(t).size, StringTag)
<1>1. /\ ~ dead /\ ~ Idle(t) /\ Top(t).proc = "log" /\ Top(t).at = "format"
      /\ BecomeAndCall(t, a, c) /\ up' = up /\ owner' = owner /\ depth' = depth
      /\ counters' = counters /\ heap' \subseteq heap /\ foreign' = foreign
      /\ refused' = refused /\ strays' \in {strays, strays + 1}
  BY DEF LogFormats, At
<1>2. Top(t) \in Act /\ counters \in Count
  BY <1>1, TopFacts DEF MemoryInv, ScalarsOK
<1>3. c \in Act /\ ~ Inside(c) /\ c.at # "loaded"
  <2>1. Top(t).size \in Nat /\ Top(t).tag \in AllTags
    BY <1>2 DEF Act, Frame
  <2>2. QED BY <2>1, CalleeFacts, Sized
<1>4. a \in Act /\ a.at = "prefix" /\ Inside(a) = Inside(Top(t))
  BY <1>1, <1>2 DEF Act, Frame, Places, Sound, Inside, Locking
<1> HIDE DEF a, c
<1>5. /\ StacksOK' /\ MutexSerialises'
      /\ held' = held /\ reported' = reported /\ dead' \in BOOLEAN
  BY <1>1, <1>3, <1>4, CallInv DEF Weight
<1>6. QED BY <1>1, <1>2, <1>5, AssembledKept

LEMMA LogPrefixesInv ==
  ASSUME MemoryInv, NEW t \in Threads, LogPrefixes(t)
  PROVE  MemoryInv'
<1> DEFINE a == [Top(t) EXCEPT !.at = "write", !.block = Top(t).got]
           c == Allocating(IF Top(t).got = null THEN LogSize ELSE Top(t).size, StringTag)
<1>1. /\ ~ dead /\ ~ Idle(t) /\ Top(t).proc = "log" /\ Top(t).at = "prefix"
      /\ BecomeAndCall(t, a, c) /\ up' = up /\ owner' = owner /\ depth' = depth
      /\ counters' = counters /\ heap' \subseteq heap /\ foreign' = foreign
      /\ refused' = refused /\ strays' \in {strays, strays + 1}
  BY DEF LogPrefixes, At
<1>2. Top(t) \in Act /\ counters \in Count
  BY <1>1, TopFacts DEF MemoryInv, ScalarsOK
<1>3. c \in Act /\ ~ Inside(c) /\ c.at # "loaded"
  <2>1. (IF Top(t).got = null THEN LogSize ELSE Top(t).size) \in Nat
    BY <1>2, Sized DEF Act, Frame
  <2>2. QED BY <2>1, CalleeFacts, Sized
<1>4. a \in Act /\ a.at = "write" /\ Inside(a) = Inside(Top(t))
  BY <1>1, <1>2 DEF Act, Frame, Places, Sound, Inside, Locking
<1> HIDE DEF a, c
<1>5. /\ StacksOK' /\ MutexSerialises'
      /\ held' = held /\ reported' = reported /\ dead' \in BOOLEAN
  BY <1>1, <1>3, <1>4, CallInv DEF Weight
<1>6. QED BY <1>1, <1>2, <1>5, AssembledKept

LEMMA LogWritesInv ==
  ASSUME MemoryInv, NEW t \in Threads, LogWrites(t)
  PROVE  MemoryInv'
<1> DEFINE a == [Top(t) EXCEPT !.at = "release", !.block = Top(t).got]
           c == ReleasingString(Top(t).block)
<1>1. /\ ~ dead /\ ~ Idle(t) /\ Top(t).proc = "log" /\ Top(t).at = "write"
      /\ BecomeAndCall(t, a, c) /\ up' = up /\ owner' = owner /\ depth' = depth
      /\ counters' = counters /\ heap' \subseteq heap /\ foreign' = foreign
      /\ refused' = refused /\ strays' \in {strays, strays + 1}
  BY DEF LogWrites, At
<1>2. Top(t) \in Act /\ counters \in Count
  BY <1>1, TopFacts DEF MemoryInv, ScalarsOK
<1>3. c \in Act /\ ~ Inside(c) /\ c.at # "loaded"
  <2>1. Top(t).block = null \/ Top(t).block \in Block
    BY <1>2 DEF Act, Frame
  <2>2. QED BY <2>1, CalleeFacts, Sized DEF ReleasingString
<1>4. a \in Act /\ a.at = "release" /\ Inside(a) = Inside(Top(t))
  BY <1>1, <1>2 DEF Act, Frame, Places, Sound, Inside, Locking
<1> HIDE DEF a, c
<1>5. /\ StacksOK' /\ MutexSerialises'
      /\ held' = held /\ reported' = reported /\ dead' \in BOOLEAN
  BY <1>1, <1>3, <1>4, CallInv DEF Weight
<1>6. QED BY <1>1, <1>2, <1>5, AssembledKept

LEMMA LogReleasesInv ==
  ASSUME MemoryInv, NEW t \in Threads, LogReleases(t)
  PROVE  MemoryInv'
<1> DEFINE a == [Top(t) EXCEPT !.at = "return", !.block = null]
           c == ReleasingString(Top(t).block)
<1>1. /\ ~ dead /\ ~ Idle(t) /\ Top(t).proc = "log" /\ Top(t).at = "release"
      /\ BecomeAndCall(t, a, c) /\ up' = up /\ owner' = owner /\ depth' = depth
      /\ counters' = counters /\ heap' \subseteq heap /\ foreign' = foreign
      /\ refused' = refused /\ strays' \in {strays, strays + 1}
  BY DEF LogReleases, At
<1>2. Top(t) \in Act /\ counters \in Count
  BY <1>1, TopFacts DEF MemoryInv, ScalarsOK
<1>3. c \in Act /\ ~ Inside(c) /\ c.at # "loaded"
  <2>1. Top(t).block = null \/ Top(t).block \in Block
    BY <1>2 DEF Act, Frame
  <2>2. QED BY <2>1, CalleeFacts, Sized DEF ReleasingString
<1>4. a \in Act /\ a.at = "return" /\ Inside(a) = Inside(Top(t))
  BY <1>1, <1>2 DEF Act, Frame, Places, Sound, Inside, Locking
<1> HIDE DEF a, c
<1>5. /\ StacksOK' /\ MutexSerialises'
      /\ held' = held /\ reported' = reported /\ dead' \in BOOLEAN
  BY <1>1, <1>3, <1>4, CallInv DEF Weight
<1>6. QED BY <1>1, <1>2, <1>5, AssembledKept

LEMMA AllocateRefusedInv ==
  ASSUME MemoryInv, NEW t \in Threads, AllocateRefused(t)
  PROVE  MemoryInv'
<1>1. At(t, {"allocate"}, "loaded") /\ Store(t)
  BY DEF AllocateRefused
<1>2. At(t, Locking, "loaded")
  BY <1>1 DEF At, Locking
<1>3. /\ ~ dead /\ ~ Idle(t) /\ Top(t) \in Act /\ Inside(Top(t)) /\ owner = t
      /\ counters' \in Count
  BY <1>1, <1>2, StoreFacts
<1> DEFINE a == [Top(t) EXCEPT !.at = "unlock", !.seen = null]
           c == Logging(LogSize)
<1>4. /\ BecomeAndCall(t, a, c) /\ up' = up /\ owner' = owner /\ depth' = depth
      /\ heap' = heap /\ foreign' = foreign /\ refused' = refused + 1 /\ strays' = strays
  BY DEF AllocateRefused
<1>5. c \in Act /\ ~ Inside(c) /\ c.at # "loaded"
  BY CalleeFacts, Sized
<1>6. a \in Act /\ Inside(a) /\ a.at = "unlock"
  BY <1>2, <1>3 DEF Act, Frame, Places, Sound, Inside, At
<1> HIDE DEF a, c
<1>7. /\ StacksOK' /\ MutexSerialises'
      /\ held' = held /\ reported' = reported /\ dead' \in BOOLEAN
  BY <1>3, <1>4, <1>5, <1>6, CallInv DEF Weight
<1>8. QED BY <1>3, <1>4, <1>7, AssembledKept

LEMMA ReallocateCopiesInv ==
  ASSUME MemoryInv, NEW t \in Threads, ReallocateCopies(t)
  PROVE  MemoryInv'
<1>1. /\ ~ dead /\ ~ Idle(t) /\ Top(t).proc = "reallocate" /\ Top(t).at = "copy"
      /\ up' = up /\ owner' = owner /\ depth' = depth /\ counters' = counters
      /\ heap' = heap /\ foreign' = foreign /\ refused' = refused /\ strays' = strays
  BY DEF ReallocateCopies, At
<1>2. /\ Top(t) \in Act /\ ~ Inside(Top(t)) /\ counters \in Count /\ depth \in Nat
      /\ dead \in BOOLEAN
  BY <1>1, TopFacts DEF MemoryInv, ScalarsOK, Inside
<1>3. CASE Top(t).got # null
  <2> DEFINE a == [Top(t) EXCEPT !.at = "return", !.block = Top(t).got]
             c == Freeing(Top(t).block)
  <2>1. BecomeAndCall(t, a, c)
    BY <1>3 DEF ReallocateCopies
  <2>2. c \in Act /\ ~ Inside(c) /\ c.at # "loaded"
    <3>1. Top(t).block \in Block
      BY <1>1, <1>2 DEF Act, Frame, Sound
    <3>2. QED BY <3>1, CalleeFacts
  <2>3. a \in Act /\ a.at = "return" /\ ~ Inside(a)
    BY <1>1, <1>2, <1>3 DEF Act, Frame, Places, Sound, Inside, Locking
  <2> HIDE DEF a, c
  <2>4. /\ StacksOK' /\ MutexSerialises'
        /\ held' = held /\ reported' = reported /\ dead' \in BOOLEAN
    BY <1>1, <1>2, <2>1, <2>2, <2>3, CallInv DEF Weight
  <2>5. QED BY <1>1, <1>2, <2>4, AssembledKept
<1>4. CASE Top(t).got = null
  <2>1. Returns(t, Top(t))
    BY <1>4 DEF ReallocateCopies
  <2>2. /\ StacksOK' /\ MutexSerialises' /\ dead' = dead
        /\ held' \subseteq Block /\ reported' \subseteq Block /\ IsFiniteSet(reported')
    BY <1>1, <1>2, <2>1, EndInv
  <2>3. QED BY <1>1, <1>2, <2>2, Assembled
<1>5. QED BY <1>3, <1>4

-----------------------------------------------------------------------------
\* New calls.
LEMMA NewCallsInv ==
  ASSUME MemoryInv, NEW t \in Threads, NewCall(t)
  PROVE  MemoryInv'
<1> DEFINE Called(a) ==
      /\ a \in Act /\ ~ Inside(a) /\ a.at # "loaded" /\ Call(t, a)
      /\ held' \subseteq held /\ reported' \subseteq reported
<1>1. ASSUME NEW a, Called(a)
      PROVE  MemoryInv'
  <2>1. StacksOK' /\ ScalarsOK' /\ MutexSerialises'
    BY <1>1, NewCallInv
  <2>2. heap' = heap /\ foreign' = foreign
    BY <1>1 DEF Call
  <2>3. IsFiniteSet(reported')
    BY <1>1, FS_Subset DEF MemoryInv, BlocksOK
  <2>4. BlocksOK'
    BY <1>1, <2>2, <2>3 DEF MemoryInv, BlocksOK, Block, AllTags
  <2>5. QED BY <2>1, <2>4 DEF MemoryInv
<1>2. held \subseteq Block /\ reported \subseteq Block
  BY DEF MemoryInv, BlocksOK
<1>3. \A b \in Block : b # null /\ b.size \in Nat /\ b.tag \in AllTags
  BY NullAssumption DEF Block
<1>4. CASE \E n \in Sizes, tag \in Tags : memory_allocate(t, n, tag)
  <2>1. PICK n \in Sizes, tag \in Tags : memory_allocate(t, n, tag)
    BY <1>4
  <2>2. Called(Allocating(n, tag))
    BY <2>1, CalleeFacts, Sized DEF memory_allocate
  <2> HIDE DEF Called
  <2>3. QED BY <1>1, <2>2
<1>5. CASE \E n \in Sizes, tag \in Tags : memory_allocate_report(t, n, tag)
  <2>1. PICK n \in Sizes, tag \in Tags : memory_allocate_report(t, n, tag)
    BY <1>5
  <2> DEFINE b == NewBlock(n, tag)
             a == Activation("report", "enter", n, tag, b)
  <2>2. n \in Nat /\ tag \in AllTags
    BY Sized
  <2>3. b \in Block /\ b # null
    BY <1>3, <2>2, NewBlockFacts
  <2>4. Call(t, a) /\ held' = held /\ reported' = reported
    BY <2>1 DEF memory_allocate_report
  <2> HIDE DEF b
  <2>5. a \in Act /\ ~ Inside(a) /\ a.at # "loaded"
    BY <2>2, <2>3 DEF Activation, Act, Frame, Places, Sound, Inside, Locking
  <2> HIDE DEF a
  <2>6. Called(a)
    BY <2>4, <2>5
  <2> HIDE DEF Called
  <2>7. QED BY <1>1, <2>6
<1>6. CASE \E b \in held : memory_free(t, b)
  <2>1. PICK b \in held : memory_free(t, b)
    BY <1>6
  <2>2. Called(Freeing(b))
    BY <1>2, <2>1, CalleeFacts DEF memory_free
  <2> HIDE DEF Called
  <2>3. QED BY <1>1, <2>2
<1>7. CASE \E b \in held : \E n \in Sizes : memory_reallocate(t, b, n)
  <2>1. PICK b \in held, n \in Sizes : memory_reallocate(t, b, n)
    BY <1>7
  <2> DEFINE a == Activation("reallocate", "allocate", n, b.tag, b)
  <2>2. b \in Block /\ b # null /\ b.tag \in AllTags /\ n \in Nat
    BY <1>2, <1>3, Sized
  <2>3. Call(t, a) /\ held' \subseteq held /\ reported' = reported
    BY <2>1 DEF memory_reallocate
  <2>4. a \in Act /\ ~ Inside(a) /\ a.at # "loaded"
    BY <2>2 DEF Activation, Act, Frame, Places, Sound, Inside, Locking
  <2> HIDE DEF a
  <2>5. Called(a)
    BY <2>3, <2>4
  <2> HIDE DEF Called
  <2>6. QED BY <1>1, <2>5
<1>8. CASE \E b \in reported : memory_free_report(t, b)
  <2>1. PICK b \in reported : memory_free_report(t, b)
    BY <1>8
  <2> DEFINE a == Activation("free_report", "enter", b.size, b.tag, b)
  <2>2. b \in Block /\ b # null /\ b.tag \in AllTags /\ b.size \in Nat
    BY <1>2, <1>3
  <2>3. Call(t, a) /\ held' = held /\ reported' \subseteq reported
    BY <2>1 DEF memory_free_report
  <2>4. a \in Act /\ ~ Inside(a) /\ a.at # "loaded"
    BY <2>2 DEF Activation, Act, Frame, Places, Sound, Inside, Locking
  <2> HIDE DEF a
  <2>5. Called(a)
    BY <2>3, <2>4
  <2> HIDE DEF Called
  <2>6. QED BY <1>1, <2>5
<1>9. CASE \E n \in Sizes : log_output(t, n)
  <2>1. PICK n \in Sizes : log_output(t, n)
    BY <1>9
  <2>2. Called(Logging(n))
    BY <2>1, CalleeFacts, Sized DEF log_output
  <2> HIDE DEF Called
  <2>3. QED BY <1>1, <2>2
<1>10. QED BY <1>4, <1>5, <1>6, <1>7, <1>8, <1>9 DEF NewCall

-----------------------------------------------------------------------------
LEMMA NothingCountedFacts == NothingCounted \in Count
BY DEF NothingCounted, Count

LEMMA InitInv == Init => MemoryInv
<1> SUFFICES ASSUME Init PROVE MemoryInv
  OBVIOUS
<1>1. StacksOK
  <2>1. <<>> \in Seq(Act) /\ Len(<<>>) = 0 /\ LoadedOnTop(<<>>)
    BY DEF LoadedOnTop
  <2>2. QED BY <2>1, MemoryAssumption DEF Init, StacksOK
<1>2. ScalarsOK
  BY NothingCountedFacts DEF Init, ScalarsOK
<1>3. BlocksOK
  BY FS_EmptySet DEF Init, BlocksOK
<1>4. MutexSerialises
  <2>1. \A t \in Threads : stack[t] = <<>> /\ t # null
    BY MemoryAssumption DEF Init
  <2>2. QED BY <2>1, EntriesNone DEF Init, MutexSerialises, Idle
<1>5. QED BY <1>1, <1>2, <1>3, <1>4 DEF MemoryInv

\* The engine starts and stops the system when no call runs.
LEMMA SystemInv ==
  ASSUME MemoryInv, memory_system_initialize \/ memory_system_shutdown
  PROVE  MemoryInv'
<1>1. /\ stack' = stack /\ owner' = owner /\ depth' = depth /\ dead' = dead
      /\ up' \in BOOLEAN /\ counters' = NothingCounted /\ refused' = 0 /\ strays' = 0
      /\ heap' \subseteq heap /\ foreign' = foreign /\ held' \subseteq held
      /\ reported' \subseteq reported
      /\ \A t \in Threads : Idle(t)
  BY DEF memory_system_initialize, memory_system_shutdown
<1>2. StacksOK'
  BY <1>1 DEF MemoryInv, StacksOK, LoadedOnTop, Act, Frame, Places, Sound, Count, Block, AllTags, Locking
<1>3. ScalarsOK'
  BY <1>1, NothingCountedFacts DEF MemoryInv, ScalarsOK, Count, AllTags
<1>4. IsFiniteSet(heap') /\ IsFiniteSet(foreign') /\ IsFiniteSet(reported')
  BY <1>1, FS_Subset DEF MemoryInv, BlocksOK
<1>5. BlocksOK'
  BY <1>1, <1>4 DEF MemoryInv, BlocksOK, Block, AllTags
<1>6. MutexSerialises'
  BY <1>1 DEF MemoryInv, MutexSerialises, Idle, Top, Entries, Inside, Locking
<1>7. QED BY <1>2, <1>3, <1>5, <1>6 DEF MemoryInv

LEMMA StepInv ==
  ASSUME MemoryInv, NEW t \in Threads, Step(t)
  PROVE  MemoryInv'
BY LockInv, UnlockInv, StoreCountersInv, AllocateGrantedInv, AllocateRefusedInv,
   AllocateComplainsInv, AllocateOutsideInv, FreeOutsideInv, FreeOwnInv, FreeForeignInv,
   FreeForeignLoadsInv, ReallocateAllocatesInv, ReallocateCopiesInv, LogFormatsInv,
   LogPrefixesInv, LogWritesInv, LogReleasesInv, CallReturnsInv
   DEF Step

LEMMA NextInv == MemoryInv /\ [Next]_vars => MemoryInv'
<1> SUFFICES ASSUME MemoryInv, [Next]_vars PROVE MemoryInv'
  OBVIOUS
<1>1. CASE memory_system_initialize \/ memory_system_shutdown
  BY <1>1, SystemInv
<1>2. CASE \E t \in Threads : NewCall(t) \/ Step(t)
  BY <1>2, NewCallsInv, StepInv
<1>3. CASE UNCHANGED vars
  <2>1. StacksOK'
    BY <1>3 DEF vars, MemoryInv, StacksOK, LoadedOnTop, Act, Frame, Places, Sound, Count, Block,
                AllTags, Locking
  <2>2. ScalarsOK'
    BY <1>3 DEF vars, MemoryInv, ScalarsOK, Count, AllTags
  <2>3. BlocksOK'
    BY <1>3 DEF vars, MemoryInv, BlocksOK, Block, AllTags
  <2>4. MutexSerialises'
    BY <1>3 DEF vars, MemoryInv, MutexSerialises, Idle, Top, Entries, Inside, Locking
  <2>5. QED BY <2>1, <2>2, <2>3, <2>4 DEF MemoryInv
<1>4. QED BY <1>1, <1>2, <1>3 DEF Next

(***************************************************************************)
(* The invariant: stacks of activations as the calls make them, with only  *)
(* the innermost between load and store (memory.c:131-173, 201-239).       *)
(***************************************************************************)
THEOREM MemoryConsistent == Spec => []MemoryInv
<1>1. QED BY InitInv, NextInv, PTL DEF Spec

(***************************************************************************)
(* The mutex is counted right and held by one thread at a time, although   *)
(* its owner takes it again when it logs, and what a thread stores in the  *)
(* counters is what it loaded and its own request (memory.c:133-141,       *)
(* 163-173, 225-234): no update of another thread is overwritten.          *)
(***************************************************************************)
THEOREM MutualExclusion == Spec => []MutexSerialises
<1>1. MemoryInv => MutexSerialises
  BY DEF MemoryInv
<1>2. QED BY MemoryConsistent, <1>1, PTL

(***************************************************************************)
(* Every variable has its type, no block is both the allocator's and       *)
(* malloc's, and the mutex serialises the threads.                         *)
(***************************************************************************)
THEOREM TypeCorrect == Spec => []TypeOK
<1>1. MemoryInv => TypeOK
  <2> SUFFICES ASSUME MemoryInv PROVE TypeOK
    OBVIOUS
  <2>1. ScalarsOK /\ BlocksOK /\ MutexSerialises
    BY DEF MemoryInv
  <2>2. stack \in [Threads -> Seq(Frame)]
    <3>1. stack \in [Threads -> Seq(Act)] /\ Act \subseteq Frame
      BY DEF MemoryInv, StacksOK, Act
    <3>2. QED BY <3>1
  <2>3. \A t \in Threads : Len(stack[t]) <= MaxStack
    BY DEF MemoryInv, StacksOK
  <2>4. QED BY <2>1, <2>2, <2>3 DEF TypeOK, ScalarsOK, BlocksOK
<1>2. QED BY MemoryConsistent, <1>1, PTL

-----------------------------------------------------------------------------
(***************************************************************************)
(* Who has which block.  An activation has the block that it was given to  *)
(* free, to reallocate or to print, and the innermost one has besides what *)
(* it got.  These are the places 1 .. Len(s) and Len(s) + 1 of a stack s.  *)
(***************************************************************************)
\* It waits for what an allocation returns.
Pending(a) ==
  \/ a.proc = "log" /\ a.at \in {"prefix", "write"}
  \/ a.proc = "reallocate" /\ a.at = "copy"

\* A line has no strings before the first one and after the last.
Proper(a) ==
  a.proc = "log" /\ a.at \in {"format", "prefix", "return"} => a.block = null

Calls(a, c) ==
  /\ c.proc \in {"allocate", "free", "log"}
  /\ c.proc = "allocate" => Pending(a)

\* What it got has just come.
Delivered(a) ==
  a.got # null => Pending(a) \/ (a.proc = "allocate" /\ a.at = "unlock")

Nested(s) ==
  /\ \A i \in 1 .. Len(s) : Proper(s[i])
  /\ \A i \in 1 .. Len(s) - 1 : Calls(s[i], s[i + 1])
  /\ s # <<>> => Delivered(Last(s))

Given(a) == IF a.proc \in {"free", "reallocate", "log"} THEN {a.block} \ {null} ELSE {}

Own(s, k) ==
  CASE k \in 1 .. Len(s)               -> Given(s[k])
    [] k = Len(s) + 1 /\ s # <<>>      -> {Last(s).got} \ {null}
    [] OTHER                           -> {}

\* A free that has found the block outside of the allocator, or taken it out,
\* and one after which nobody reads the block.
Parting(a) == a.proc = "free" /\ a.at \in {"logged", "loaded", "unlock"}
Departed(a) == a.proc = "free" /\ a.at \in {"loaded", "unlock"}

Allocated == heap \cup foreign

\* No two places have the same block, nor a place and a caller.
Apart ==
  /\ \A t, u \in Threads, j, k \in Nat :
       t # u \/ j # k => Own(stack[t], j) \cap Own(stack[u], k) = {}
  /\ \A t \in Threads, k \in Nat : Own(stack[t], k) \cap held = {}

\* What somebody has is allocated, but for the end of a free.
Alive ==
  /\ held \subseteq Allocated
  /\ \A t \in Threads, k \in Nat :
       \/ Own(stack[t], k) \subseteq Allocated
       \/ k \in 1 .. Len(stack[t]) /\ Departed(stack[t][k])
  /\ \A t \in Threads : \A k \in 1 .. Len(stack[t]) :
       Parting(stack[t][k]) => stack[t][k].block \notin heap

\* What is allocated, somebody has.
NoLeak ==
  \A b \in Allocated : b \in held \/ \E t \in Threads, k \in Nat : b \in Own(stack[t], k)

UpOK == (owner # null => up) /\ (~ up => heap = {})

OwnerInv ==
  /\ \A t \in Threads : Nested(stack[t])
  /\ Apart /\ Alive /\ NoLeak /\ UpOK

-----------------------------------------------------------------------------
(***************************************************************************)
(* The places of a stack, when the innermost activation changes, calls or  *)
(* returns.                                                                *)
(***************************************************************************)
LEMMA OwnReplace ==
  ASSUME NEW s \in Seq(Act), s # <<>>, NEW a \in Act
  PROVE  LET r == Append(Front(s), a)
             n == Len(s) IN
         /\ n \in Nat \ {0} /\ r \in Seq(Act) /\ Len(r) = n /\ r # <<>> /\ Last(r) = a
         /\ \A k \in 1 .. n - 1 : r[k] = s[k]
         /\ r[n] = a /\ s[n] = Last(s)
         /\ \A k \in Nat : k # n /\ k # n + 1 => Own(r, k) = Own(s, k)
         /\ Own(r, n) = Given(a) /\ Own(r, n + 1) = {a.got} \ {null}
         /\ Own(s, n) = Given(Last(s)) /\ Own(s, n + 1) = {Last(s).got} \ {null}
<1> DEFINE r == Append(Front(s), a)
           n == Len(s)
<1>1. /\ n \in Nat \ {0}
      /\ Front(s) \in Seq(Act) /\ Len(Front(s)) = n - 1
      /\ \A i \in 1 .. n - 1 : Front(s)[i] = s[i]
      /\ Last(s) \in Act /\ Last(s) = s[n]
  BY FrontFacts
<1>2. /\ r \in Seq(Act) /\ r # <<>> /\ Len(r) = n /\ Last(r) = a /\ r[n] = a
      /\ \A i \in 1 .. n - 1 : r[i] = s[i]
  BY <1>1, AppendFacts
<1> HIDE DEF r
<1>3. \A k \in Nat : k # n /\ k # n + 1 => Own(r, k) = Own(s, k)
  <2> SUFFICES ASSUME NEW k \in Nat, k # n, k # n + 1 PROVE Own(r, k) = Own(s, k)
    OBVIOUS
  <2>1. CASE k \in 1 .. n - 1
    BY <1>1, <1>2, <2>1 DEF Own
  <2>2. CASE k \notin 1 .. n - 1
    <3>1. k \notin 1 .. n
      BY <1>1, <2>2
    <3>2. QED BY <1>1, <1>2, <3>1 DEF Own
  <2>3. QED BY <2>1, <2>2
<1>4. Own(r, n) = Given(a) /\ Own(s, n) = Given(Last(s))
  BY <1>1, <1>2 DEF Own
<1>5. Own(r, n + 1) = {a.got} \ {null} /\ Own(s, n + 1) = {Last(s).got} \ {null}
  <2>1. n + 1 \notin 1 .. n
    BY <1>1
  <2>2. QED BY <1>1, <1>2, <2>1 DEF Own
<1>6. QED BY <1>1, <1>2, <1>3, <1>4, <1>5 DEF r

LEMMA OwnAppend ==
  ASSUME NEW s \in Seq(Act), NEW c \in Act
  PROVE  LET r == Append(s, c)
             n == Len(s) IN
         /\ n \in Nat /\ r \in Seq(Act) /\ Len(r) = n + 1 /\ r # <<>> /\ Last(r) = c
         /\ \A k \in 1 .. n : r[k] = s[k]
         /\ r[n + 1] = c
         /\ \A k \in Nat : k # n + 1 /\ k # n + 2 => Own(r, k) = Own(s, k)
         /\ Own(r, n + 1) = Given(c) /\ Own(r, n + 2) = {c.got} \ {null}
<1> DEFINE r == Append(s, c)
           n == Len(s)
<1>1. /\ n \in Nat /\ r \in Seq(Act) /\ Len(r) = n + 1 /\ r # <<>> /\ Last(r) = c
      /\ \A k \in 1 .. n : r[k] = s[k]
      /\ r[n + 1] = c
  BY AppendFacts
<1> HIDE DEF r
<1>2. \A k \in Nat : k # n + 1 /\ k # n + 2 => Own(r, k) = Own(s, k)
  <2> SUFFICES ASSUME NEW k \in Nat, k # n + 1, k # n + 2 PROVE Own(r, k) = Own(s, k)
    OBVIOUS
  <2>1. CASE k \in 1 .. n
    <3>1. k \in 1 .. Len(r)
      BY <1>1, <2>1
    <3>2. QED BY <1>1, <2>1, <3>1 DEF Own
  <2>2. CASE k \notin 1 .. n
    <3>1. k \notin 1 .. n + 1 /\ k # (n + 1) + 1
      BY <1>1, <2>2
    <3>2. QED BY <1>1, <2>2, <3>1 DEF Own
  <2>3. QED BY <2>1, <2>2
<1>3. Own(r, n + 1) = Given(c)
  <2>1. n + 1 \in 1 .. Len(r)
    BY <1>1
  <2>2. QED BY <1>1, <2>1 DEF Own
<1>4. Own(r, n + 2) = {c.got} \ {null}
  <2>1. n + 2 \notin 1 .. Len(r) /\ n + 2 = Len(r) + 1
    BY <1>1
  <2>2. QED BY <1>1, <2>1 DEF Own
<1>5. QED BY <1>1, <1>2, <1>3, <1>4 DEF r

LEMMA OwnEmpty == \A k \in Nat : Own(<<>>, k) = {}
BY DEF Own

LEMMA OwnAnswered ==
  ASSUME NEW s \in Seq(Act), NEW b \in Block \cup {null}, Len(s) > 1
  PROVE  LET r == Answered(s, b)
             n == Len(s) IN
         /\ n \in Nat /\ n > 1 /\ r \in Seq(Act) /\ Len(r) = n - 1 /\ r # <<>>
         /\ \A k \in 1 .. n - 1 : /\ r[k].proc = s[k].proc /\ r[k].at = s[k].at
                                  /\ r[k].block = s[k].block
         /\ Last(r) = r[n - 1] /\ Last(r).got = b
         /\ \A k \in Nat : k < n => Own(r, k) = Own(s, k)
         /\ Own(r, n) = {b} \ {null}
         /\ \A k \in Nat : k > n => Own(r, k) = {}
<1> DEFINE f == Front(s)
           m == Len(s) - 1
           r == Answered(s, b)
<1>1. /\ s # <<>> /\ Len(s) \in Nat /\ m \in Nat \ {0}
  <2>1. Len(s) \in Nat /\ s # <<>>
    OBVIOUS
  <2>2. \A k \in Nat : k > 1 => k - 1 \in Nat \ {0}
    OBVIOUS
  <2>3. QED BY <2>1, <2>2
<1>2. /\ f \in Seq(Act) /\ Len(f) = m
      /\ \A i \in 1 .. m : f[i] = s[i]
  BY <1>1, FrontFacts
<1>3. f[m] \in Act
  BY <1>1, <1>2
<1> DEFINE a == [f[m] EXCEPT !.got = b]
<1>4. r = [f EXCEPT ![m] = a]
  BY DEF Answered
<1>5. /\ a \in Act /\ a.at = f[m].at /\ a.proc = f[m].proc /\ a.block = f[m].block
      /\ a.got = b
  <2>1. a \in Frame /\ a.at = f[m].at /\ a.proc = f[m].proc /\ a.seen = f[m].seen
        /\ a.block = f[m].block /\ a.got = b
    BY <1>3 DEF Act, Frame
  <2> HIDE DEF a
  <2>2. QED BY <1>3, <2>1 DEF Act, Sound
<1> HIDE DEF a, f, r, m
<1>6. /\ r \in Seq(Act) /\ Len(r) = m /\ r[m] = a
      /\ \A i \in 1 .. m : i # m => r[i] = f[i]
  BY <1>1, <1>2, <1>4, <1>5
<1>7. r # <<>> /\ Last(r) = r[m] /\ Last(r).got = b
  <2>1. r # <<>>
    BY <1>1, <1>6
  <2>2. QED BY <1>5, <1>6, <2>1, FrontFacts
<1>8. \A k \in 1 .. m : r[k].proc = s[k].proc /\ r[k].at = s[k].at /\ r[k].block = s[k].block
  BY <1>1, <1>2, <1>5, <1>6
<1>9. \A k \in Nat : k <= m => Own(r, k) = Own(s, k)
  <2> SUFFICES ASSUME NEW k \in Nat, k <= m PROVE Own(r, k) = Own(s, k)
    OBVIOUS
  <2>1. CASE k \in 1 .. m
    <3>1. k \in 1 .. Len(r) /\ k \in 1 .. Len(s)
      BY <1>1, <1>6, <2>1 DEF m
    <3>2. Own(r, k) = Given(r[k]) /\ Own(s, k) = Given(s[k])
      BY <3>1 DEF Own
    <3>3. QED BY <1>8, <2>1, <3>2 DEF Given
  <2>2. CASE k \notin 1 .. m
    <3>1. k = 0 /\ Len(r) \in Nat /\ Len(s) \in Nat
      BY <1>1, <1>6, <2>2
    <3>2. QED BY <3>1 DEF Own
  <2>3. QED BY <2>1, <2>2
<1>10. Own(r, m + 1) = {b} \ {null}
  <2>1. m + 1 \notin 1 .. Len(r) /\ m + 1 = Len(r) + 1
    BY <1>1, <1>6
  <2>2. QED BY <1>7, <2>1 DEF Own
<1>11. \A k \in Nat : k > m + 1 => Own(r, k) = {}
  <2> SUFFICES ASSUME NEW k \in Nat, k > m + 1 PROVE Own(r, k) = {}
    OBVIOUS
  <2>1. k \notin 1 .. Len(r) /\ k # Len(r) + 1
    BY <1>1, <1>6
  <2>2. QED BY <2>1 DEF Own
<1>12. Len(s) = m + 1 /\ \A k \in Nat : k < Len(s) => k <= m
  BY <1>1 DEF m
<1>13. QED BY <1>1, <1>6, <1>7, <1>8, <1>9, <1>10, <1>11, <1>12 DEF r, m

-----------------------------------------------------------------------------
(***************************************************************************)
(* What a step of one thread has to show of its own places, so that the    *)
(* blocks of all threads remain apart, alive and owned.                    *)
(***************************************************************************)
\* What thread t and the callers have between them.
Mine(t, b) == b \in held \/ \E j \in Nat : b \in Own(stack[t], j)

\* Blocks that nobody knows of.
Fresh(N) ==
  \A b \in N : /\ b \notin Allocated /\ b \notin held
               /\ \A u \in Threads : /\ \A k \in Nat : b \notin Own(stack[u], k)
                                     /\ \A k \in 1 .. Len(stack[u]) : stack[u][k].block # b

UpKept ==
  up' = up /\ (owner' # null => owner # null \/ up) /\ (heap' \subseteq heap \/ up)

LEMMA OwnershipMoves ==
  ASSUME MemoryInv, OwnerInv, NEW t \in Threads, NEW s, NEW N, NEW D,
         stack' = [stack EXCEPT ![t] = s], Nested(s),
         Fresh(N),
         \A b \in D : Mine(t, b),
         Allocated' = (Allocated \cup N) \ D, heap' \subseteq heap \cup N,
         \A j, k \in Nat : j # k => Own(s, j) \cap Own(s, k) = {},
         \A k \in Nat : \A b \in Own(s, k) : b \notin held' /\ (b \in N \/ Mine(t, b)),
         \A b \in held' : b \in Allocated' /\ (b \in N \/ Mine(t, b)),
         \A b : b \in N \/ Mine(t, b) => b \in D \/ b \in held' \/ \E k \in Nat : b \in Own(s, k),
         \A k \in Nat : \/ Own(s, k) \subseteq Allocated'
                        \/ k \in 1 .. Len(s) /\ Departed(s[k]),
         \A k \in 1 .. Len(s) : Parting(s[k]) => s[k].block \notin heap',
         UpKept
  PROVE  OwnerInv'
<1>1. /\ stack'[t] = s /\ \A u \in Threads \ {t} : stack'[u] = stack[u]
  BY DEF MemoryInv, StacksOK
<1>2. \A u \in Threads \ {t}, k \in Nat : \A b \in Own(stack[u], k) : ~ Mine(t, b) /\ b \notin N /\ b \notin D
  BY DEF OwnerInv, Apart, Mine, Fresh
<1>3. \A u \in Threads : Nested(stack'[u])
  BY <1>1 DEF OwnerInv
<1>4. Apart'
  <2>1. ASSUME NEW u \in Threads, NEW v \in Threads, NEW j \in Nat, NEW k \in Nat, u # v \/ j # k
        PROVE  Own(stack'[u], j) \cap Own(stack'[v], k) = {}
    <3>1. CASE u = t /\ v = t
      BY <1>1, <2>1, <3>1
    <3>2. CASE u = t /\ v # t
      BY <1>1, <1>2, <3>2
    <3>3. CASE u # t /\ v = t
      BY <1>1, <1>2, <3>3
    <3>4. CASE u # t /\ v # t
      BY <1>1, <2>1, <3>4 DEF OwnerInv, Apart
    <3>5. QED BY <3>1, <3>2, <3>3, <3>4
  <2>2. ASSUME NEW u \in Threads, NEW k \in Nat
        PROVE  Own(stack'[u], k) \cap held' = {}
    <3>1. CASE u = t
      BY <1>1, <3>1
    <3>2. CASE u # t
      BY <1>1, <1>2, <3>2
    <3>3. QED BY <3>1, <3>2
  <2>3. QED BY <2>1, <2>2 DEF Apart
<1>5. Alive'
  <2>1. held' \subseteq Allocated'
    OBVIOUS
  <2>2. ASSUME NEW u \in Threads, NEW k \in Nat
        PROVE  \/ Own(stack'[u], k) \subseteq Allocated'
               \/ k \in 1 .. Len(stack'[u]) /\ Departed(stack'[u][k])
    <3>1. CASE u = t
      BY <1>1, <3>1
    <3>2. CASE u # t
      <4>1. \/ Own(stack[u], k) \subseteq Allocated
            \/ k \in 1 .. Len(stack[u]) /\ Departed(stack[u][k])
        BY DEF OwnerInv, Alive
      <4>2. \A b \in Own(stack[u], k) : b \notin D
        BY <1>2, <3>2
      <4>3. QED BY <1>1, <3>2, <4>1, <4>2
    <3>3. QED BY <3>1, <3>2
  <2>3. ASSUME NEW u \in Threads, NEW k \in 1 .. Len(stack'[u]), Parting(stack'[u][k])
        PROVE  stack'[u][k].block \notin heap'
    <3>1. CASE u = t
      BY <1>1, <2>3, <3>1
    <3>2. CASE u # t
      BY <1>1, <2>3, <3>2 DEF OwnerInv, Alive, Fresh
    <3>3. QED BY <3>1, <3>2
  <2>4. QED BY <2>1, <2>2, <2>3 DEF Alive, Departed, Parting
<1>6. NoLeak'
  <2> SUFFICES ASSUME NEW b \in Allocated'
               PROVE  b \in held' \/ \E u \in Threads, k \in Nat : b \in Own(stack'[u], k)
    BY DEF NoLeak
  <2>1. b \notin D /\ (b \in N \/ b \in Allocated)
    OBVIOUS
  <2>2. CASE b \in N \/ Mine(t, b)
    BY <1>1, <2>1, <2>2
  <2>3. CASE b \notin N /\ ~ Mine(t, b)
    <3>1. PICK u \in Threads, k \in Nat : b \in Own(stack[u], k)
      BY <2>1, <2>3 DEF OwnerInv, NoLeak, Mine
    <3>2. u # t
      BY <2>3, <3>1 DEF Mine
    <3>3. QED BY <1>1, <3>1, <3>2
  <2>4. QED BY <2>2, <2>3
<1>7. UpOK'
  BY DEF OwnerInv, UpOK, UpKept
<1>8. QED BY <1>3, <1>4, <1>5, <1>6, <1>7 DEF OwnerInv, Nested, Proper, Calls, Delivered, Pending

LEMMA BecomeMoves ==
  ASSUME MemoryInv, OwnerInv, NEW t \in Threads, ~ Idle(t), NEW a \in Act, Become(t, a),
         NEW N, NEW D, Fresh(N),
         a.proc = Top(t).proc, a.block = Top(t).block, Proper(a), Delivered(a),
         {a.got} \ {null} = ({Top(t).got} \ {null}) \cup N,
         D \subseteq Given(a), D # {} \/ Departed(Top(t)) => Departed(a),
         Parting(a) => a.block \notin heap',
         Allocated' = (Allocated \cup N) \ D, heap' \subseteq heap \cup N,
         UpKept
  PROVE  OwnerInv'
<1> DEFINE z == stack[t]
           n == Len(z)
           s == Append(Front(z), a)
<1>1. z \in Seq(Act) /\ z # <<>>
  BY DEF MemoryInv, StacksOK, Idle
<1>2. /\ n \in Nat \ {0} /\ s \in Seq(Act) /\ Len(s) = n /\ s # <<>> /\ Last(s) = a
      /\ \A k \in 1 .. n - 1 : s[k] = z[k]
      /\ s[n] = a /\ z[n] = Top(t)
      /\ \A k \in Nat : k # n /\ k # n + 1 => Own(s, k) = Own(z, k)
      /\ Own(s, n) = Given(a) /\ Own(s, n + 1) = {a.got} \ {null}
      /\ Own(z, n) = Given(Top(t)) /\ Own(z, n + 1) = {Top(t).got} \ {null}
  BY <1>1, OwnReplace DEF Top
<1>3. stack' = [stack EXCEPT ![t] = s] /\ held' = held
  BY DEF Become
<1> HIDE DEF s, n
<1>4. Given(a) = Given(Top(t))
  BY DEF Given
<1>5. /\ \A k \in Nat : k # n + 1 => Own(s, k) = Own(z, k)
      /\ Own(s, n + 1) = Own(z, n + 1) \cup N
      /\ n \in Nat /\ n + 1 \in Nat /\ n # n + 1
  BY <1>2, <1>4
<1>6. Nested(s)
  <2>1. Nested(z) /\ Len(z) = n
    BY DEF OwnerInv, n
  <2>2. \A i \in 1 .. n : Proper(s[i])
    <3> SUFFICES ASSUME NEW i \in 1 .. n PROVE Proper(s[i])
      OBVIOUS
    <3>1. i = n \/ i \in 1 .. n - 1
      BY <1>2
    <3>2. QED BY <1>2, <2>1, <3>1 DEF Nested
  <2>3. \A i \in 1 .. n - 1 : Calls(s[i], s[i + 1])
    <3> SUFFICES ASSUME NEW i \in 1 .. n - 1 PROVE Calls(s[i], s[i + 1])
      OBVIOUS
    <3>1. Calls(z[i], z[i + 1]) /\ s[i] = z[i]
      BY <1>2, <2>1 DEF Nested
    <3>2. s[i + 1].proc = z[i + 1].proc
      <4>1. i + 1 = n \/ i + 1 \in 1 .. n - 1
        BY <1>2
      <4>2. QED BY <1>2, <4>1
    <3>3. QED BY <3>1, <3>2 DEF Calls
  <2>4. QED BY <1>2, <2>2, <2>3 DEF Nested
<1>7. \A b \in D : Mine(t, b) /\ b \in Own(z, n)
  BY <1>2, <1>4 DEF Mine
<1>8. \A j, k \in Nat : j # k => Own(s, j) \cap Own(s, k) = {}
  <2>1. \A j, k \in Nat : j # k => Own(z, j) \cap Own(z, k) = {}
    BY DEF OwnerInv, Apart
  <2>2. \A k \in Nat : Own(z, k) \cap N = {}
    BY DEF Fresh
  <2>3. QED BY <1>5, <2>1, <2>2
<1>9. \A k \in Nat : \A b \in Own(s, k) : b \notin held' /\ (b \in N \/ Mine(t, b))
  <2>1. \A k \in Nat : Own(z, k) \cap held = {}
    BY DEF OwnerInv, Apart
  <2>2. N \cap held = {}
    BY DEF Fresh
  <2>3. QED BY <1>3, <1>5, <2>1, <2>2 DEF Mine
<1>10. \A b \in held' : b \in Allocated' /\ (b \in N \/ Mine(t, b))
  <2>1. held \subseteq Allocated /\ Own(z, n) \cap held = {}
    BY <1>5 DEF OwnerInv, Alive, Apart
  <2>2. QED BY <1>3, <1>7, <2>1 DEF Mine
<1>11. \A b : b \in N \/ Mine(t, b) => b \in D \/ b \in held' \/ \E k \in Nat : b \in Own(s, k)
  <2>1. ASSUME NEW b, NEW j \in Nat, b \in Own(z, j)
        PROVE  \E k \in Nat : b \in Own(s, k)
    BY <1>5, <2>1
  <2>2. ASSUME NEW b \in N PROVE \E k \in Nat : b \in Own(s, k)
    BY <1>5
  <2>3. QED BY <1>3, <2>1, <2>2 DEF Mine
<1>12. ASSUME NEW k \in Nat
       PROVE  \/ Own(s, k) \subseteq Allocated'
              \/ k \in 1 .. Len(s) /\ Departed(s[k])
  <2>1. \/ Own(z, k) \subseteq Allocated
        \/ k \in 1 .. n /\ Departed(z[k])
    BY DEF OwnerInv, Alive, n
  <2>2. CASE k = n
    <3>1. n \in 1 .. n
      BY <1>2
    <3>2. CASE Departed(a)
      BY <1>2, <2>2, <3>1, <3>2
    <3>3. CASE ~ Departed(a)
      BY <1>2, <1>5, <2>1, <2>2, <3>3
    <3>4. QED BY <3>2, <3>3
  <2>3. CASE k = n + 1
    <3>1. k \notin 1 .. n
      BY <1>2, <2>3
    <3>2. Own(z, n + 1) \cap Own(z, n) = {}
      BY <1>5 DEF OwnerInv, Apart
    <3>3. N \cap Own(z, n) = {}
      BY <1>5 DEF Fresh
    <3>4. QED BY <1>5, <1>7, <2>1, <2>3, <3>1, <3>2, <3>3
  <2>4. CASE k # n /\ k # n + 1
    <3>1. Own(s, k) = Own(z, k) /\ Own(z, k) \cap Own(z, n) = {}
      BY <1>5, <2>4 DEF OwnerInv, Apart
    <3>2. k \in 1 .. n => k \in 1 .. n - 1
      BY <1>2, <2>4
    <3>3. QED BY <1>2, <1>7, <2>1, <3>1, <3>2
  <2>5. QED BY <2>2, <2>3, <2>4
<1>13. ASSUME NEW k \in 1 .. Len(s), Parting(s[k])
       PROVE  s[k].block \notin heap'
  <2>1. k = n \/ k \in 1 .. n - 1
    BY <1>2
  <2>2. CASE k \in 1 .. n - 1
    <3>1. k \in 1 .. Len(stack[t]) /\ s[k] = stack[t][k]
      BY <1>2, <2>2 DEF n
    <3>2. s[k].block \notin heap /\ s[k].block \notin N
      BY <1>13, <3>1 DEF OwnerInv, Alive, Fresh
    <3>3. QED BY <3>2
  <2>3. QED BY <1>2, <1>13, <2>1, <2>2
<1>14. QED BY <1>3, <1>6, <1>7, <1>8, <1>9, <1>10, <1>11, <1>12, <1>13, OwnershipMoves

LEMMA Unmoved ==
  ASSUME OwnerInv, stack' = stack, held' = held, heap' = heap, foreign' = foreign,
         up' = up, owner' = owner
  PROVE  OwnerInv'
<1>1. \A u \in Threads : Nested(stack'[u])
  BY DEF OwnerInv
<1>2. Apart'
  BY DEF OwnerInv, Apart
<1>3. Alive'
  BY DEF OwnerInv, Alive, Allocated, Parting, Departed
<1>4. NoLeak'
  BY DEF OwnerInv, NoLeak, Allocated
<1>5. UpOK'
  BY DEF OwnerInv, UpOK
<1>6. QED BY <1>1, <1>2, <1>3, <1>4, <1>5 DEF OwnerInv, Nested, Proper, Calls, Delivered, Pending

\* What the caller has goes to the place above, and what it was given takes
\* its place; or nothing moves.
LEMMA CallMoves ==
  ASSUME MemoryInv, OwnerInv, NEW t \in Threads, ~ Idle(t), NEW a \in Act, NEW c \in Act,
         BecomeAndCall(t, a, c),
         a.proc = Top(t).proc, Proper(a), Proper(c), Calls(a, c), c.got = null,
         \/ Given(a) = Given(Top(t)) /\ Given(c) = {} /\ Top(t).got = null
         \/ Given(a) = {Top(t).got} \ {null} /\ Given(c) = Given(Top(t)) /\ a.proc # "free",
         ~ Departed(Top(t)), ~ Parting(c), Parting(a) => a.block \notin heap,
         heap' = heap, foreign' = foreign, up' = up, owner' = owner
  PROVE  OwnerInv'
<1> DEFINE z == stack[t]
           n == Len(z)
           q == Append(Front(z), a)
           s == Append(q, c)
<1>1. z \in Seq(Act) /\ z # <<>>
  BY DEF MemoryInv, StacksOK, Idle
<1>2. held' = held
  BY DEF BecomeAndCall
<1>3. CASE ~ (Len(stack[t]) < MaxStack)
  <2>1. stack' = stack
    BY <1>3 DEF BecomeAndCall
  <2>2. QED BY <1>2, <2>1, Unmoved
<1>4. CASE Len(stack[t]) < MaxStack
  <2>1. /\ n \in Nat \ {0} /\ q \in Seq(Act) /\ Len(q) = n /\ q # <<>> /\ Last(q) = a
        /\ \A k \in 1 .. n - 1 : q[k] = z[k]
        /\ q[n] = a /\ z[n] = Top(t)
        /\ \A k \in Nat : k # n /\ k # n + 1 => Own(q, k) = Own(z, k)
        /\ Own(q, n) = Given(a)
        /\ Own(z, n) = Given(Top(t)) /\ Own(z, n + 1) = {Top(t).got} \ {null}
    BY <1>1, OwnReplace DEF Top
  <2> HIDE DEF q
  <2>2. /\ s \in Seq(Act) /\ Len(s) = n + 1 /\ s # <<>> /\ Last(s) = c
        /\ \A k \in 1 .. n : s[k] = q[k]
        /\ s[n + 1] = c
        /\ \A k \in Nat : k # n + 1 /\ k # n + 2 => Own(s, k) = Own(q, k)
        /\ Own(s, n + 1) = Given(c) /\ Own(s, n + 2) = {}
    <3>1. LET m == Len(q) IN
          /\ s \in Seq(Act) /\ Len(s) = m + 1 /\ s # <<>> /\ Last(s) = c
          /\ \A k \in 1 .. m : s[k] = q[k]
          /\ s[m + 1] = c
          /\ \A k \in Nat : k # m + 1 /\ k # m + 2 => Own(s, k) = Own(q, k)
          /\ Own(s, m + 1) = Given(c) /\ Own(s, m + 2) = {c.got} \ {null}
      BY <2>1, OwnAppend
    <3> HIDE DEF s, n
    <3>2. QED BY <2>1, <3>1
  <2>3. stack' = [stack EXCEPT ![t] = s]
    BY <1>4 DEF BecomeAndCall, q
  <2> HIDE DEF s
  <2>4. Own(z, n + 2) = {}
    <3>1. n + 2 \notin 1 .. Len(z) /\ n + 2 # Len(z) + 1
      BY <2>1
    <3>2. QED BY <3>1 DEF Own
  <2>5. Nested(z) /\ Len(z) = n
    BY DEF OwnerInv
  <2> HIDE DEF n
  <2>6. /\ n \in Nat /\ n + 1 \in Nat /\ n + 2 \in Nat
        /\ n # n + 1 /\ n # n + 2 /\ n + 1 # n + 2
        /\ n \in 1 .. n /\ n \in 1 .. n + 1 /\ n + 1 \in 1 .. n + 1 /\ n + 1 \notin 1 .. n
        /\ \A k : k \in 1 .. n + 1 <=> k = n \/ k = n + 1 \/ k \in 1 .. n - 1
        /\ \A k \in 1 .. n - 1 : k \in 1 .. n
    BY <2>1
  <2>7. /\ \A k \in 1 .. n - 1 : s[k] = z[k]
        /\ s[n] = a /\ s[n + 1] = c
    BY <2>1, <2>2, <2>6
  <2>8. /\ \A k \in Nat : k # n /\ k # n + 1 => Own(s, k) = Own(z, k)
        /\ Own(s, n) = Given(a) /\ Own(s, n + 1) = Given(c)
    <3>1. ASSUME NEW k \in Nat, k # n, k # n + 1
          PROVE  Own(s, k) = Own(z, k)
      <4>1. CASE k = n + 2
        BY <2>2, <2>4, <4>1
      <4>2. CASE k # n + 2
        BY <2>1, <2>2, <3>1, <4>2
      <4>3. QED BY <4>1, <4>2
    <3>2. QED BY <2>1, <2>2, <2>6, <3>1
  <2>9. \/ Own(s, n) = Own(z, n) /\ Own(s, n + 1) = Own(z, n + 1)
        \/ Own(s, n) = Own(z, n + 1) /\ Own(s, n + 1) = Own(z, n) /\ a.proc # "free"
    BY <2>1, <2>8
  <2>10. Nested(s)
    <3>1. \A i \in 1 .. n + 1 : Proper(s[i])
      <4> SUFFICES ASSUME NEW i \in 1 .. n + 1 PROVE Proper(s[i])
        OBVIOUS
      <4>1. CASE i \in 1 .. n - 1
        BY <2>5, <2>6, <2>7, <4>1 DEF Nested
      <4>2. QED BY <2>6, <2>7, <4>1
    <3>2. \A i \in 1 .. (n + 1) - 1 : Calls(s[i], s[i + 1])
      <4> SUFFICES ASSUME NEW i \in 1 .. n PROVE Calls(s[i], s[i + 1])
        BY <2>1
      <4>1. CASE i = n
        BY <2>7, <4>1
      <4>2. CASE i # n
        <5>1. i \in 1 .. n - 1 /\ (i + 1 = n \/ i + 1 \in 1 .. n - 1)
          BY <2>1, <4>2
        <5>2. Calls(z[i], z[i + 1]) /\ s[i] = z[i]
          BY <2>5, <2>7, <5>1 DEF Nested
        <5>3. s[i + 1].proc = z[i + 1].proc
          BY <2>1, <2>7, <5>1
        <5>4. QED BY <5>2, <5>3 DEF Calls
      <4>3. QED BY <4>1, <4>2
    <3>3. Delivered(Last(s))
      BY <2>2 DEF Delivered
    <3>4. QED BY <2>2, <3>1, <3>2, <3>3 DEF Nested
  <2>11. /\ \A j, k \in Nat : j # k => Own(z, j) \cap Own(z, k) = {}
         /\ \A k \in Nat : Own(z, k) \cap held = {}
    BY DEF OwnerInv, Apart
  <2>12. \A j, k \in Nat : j # k => Own(s, j) \cap Own(s, k) = {}
    <3>1. CASE Own(s, n) = Own(z, n) /\ Own(s, n + 1) = Own(z, n + 1)
      BY <2>8, <2>11, <3>1
    <3>2. CASE Own(s, n) = Own(z, n + 1) /\ Own(s, n + 1) = Own(z, n)
      <4> SUFFICES ASSUME NEW j \in Nat, NEW k \in Nat, j # k
                   PROVE  Own(s, j) \cap Own(s, k) = {}
        OBVIOUS
      <4> DEFINE Old(i) == IF i = n THEN n + 1 ELSE IF i = n + 1 THEN n ELSE i
      <4>1. Old(j) \in Nat /\ Old(k) \in Nat /\ Old(j) # Old(k)
        BY <2>6
      <4>2. Own(s, j) = Own(z, Old(j)) /\ Own(s, k) = Own(z, Old(k))
        BY <2>6, <2>8, <3>2
      <4> HIDE DEF Old
      <4>3. QED BY <2>11, <4>1, <4>2
    <3>3. QED BY <2>9, <3>1, <3>2
  <2>13. /\ \A k \in Nat : \A b \in Own(s, k) : \E j \in Nat : b \in Own(z, j)
         /\ \A k \in Nat : \A b \in Own(z, k) : \E j \in Nat : b \in Own(s, j)
    BY <2>6, <2>8, <2>9
  <2>14. \A k \in Nat : \A b \in Own(s, k) : b \notin held' /\ (b \in {} \/ Mine(t, b))
    BY <1>2, <2>11, <2>13 DEF Mine
  <2>15. \A b \in held' : b \in Allocated' /\ (b \in {} \/ Mine(t, b))
    BY <1>2 DEF OwnerInv, Alive, Allocated, Mine
  <2>16. \A b : b \in {} \/ Mine(t, b) => b \in {} \/ b \in held' \/ \E k \in Nat : b \in Own(s, k)
    BY <1>2, <2>13 DEF Mine
  <2>17. \A k \in Nat : \/ Own(z, k) \subseteq Allocated
                        \/ k \in 1 .. n /\ Departed(z[k])
    BY <2>5 DEF OwnerInv, Alive
  <2>18. ASSUME NEW k \in Nat
         PROVE  \/ Own(s, k) \subseteq Allocated'
                \/ k \in 1 .. Len(s) /\ Departed(s[k])
    <3>1. Allocated' = Allocated
      BY DEF Allocated
    <3>2. CASE k = n \/ k = n + 1
      <4>1. Own(z, n) \subseteq Allocated /\ Own(z, n + 1) \subseteq Allocated
        BY <2>1, <2>6, <2>17
      <4>2. QED BY <2>9, <3>1, <3>2, <4>1
    <3>3. CASE k # n /\ k # n + 1
      <4>1. k \in 1 .. n => k \in 1 .. n - 1 /\ k \in 1 .. n + 1
        BY <2>1, <3>3
      <4>2. QED BY <2>2, <2>7, <2>8, <2>17, <3>1, <3>3, <4>1
    <3>4. QED BY <3>2, <3>3
  <2>19. ASSUME NEW k \in 1 .. Len(s), Parting(s[k])
         PROVE  s[k].block \notin heap'
    <3>1. k = n \/ k = n + 1 \/ k \in 1 .. n - 1
      BY <2>2, <2>6
    <3>2. CASE k \in 1 .. n - 1
      <4>1. k \in 1 .. Len(z) /\ s[k] = z[k]
        BY <2>5, <2>6, <2>7, <3>2
      <4>2. QED BY <2>19, <4>1 DEF OwnerInv, Alive
    <3>3. QED BY <2>7, <2>19, <3>1, <3>2
  <2>20. Fresh({}) /\ UpKept /\ Allocated' = (Allocated \cup {}) \ {} /\ heap' \subseteq heap \cup {}
    BY DEF Fresh, UpKept, Allocated
  <2>21. \A b \in {} : Mine(t, b)
    OBVIOUS
  <2>22. QED BY <2>3, <2>10, <2>12, <2>14, <2>15, <2>16, <2>18, <2>19, <2>20, <2>21, OwnershipMoves
<1>5. QED BY <1>3, <1>4

\* What a call got goes to the activation below, or to the caller, and what it
\* was given is gone.
LEMMA ReturnMoves ==
  ASSUME MemoryInv, OwnerInv, NEW t \in Threads, ~ Idle(t), NEW a \in Act, Returns(t, a),
         NEW N, NEW D, Fresh(N),
         a.proc = Top(t).proc, a.block = Top(t).block,
         {a.got} \ {null} = ({Top(t).got} \ {null}) \cup N,
         a.got # null => a.proc = "allocate",
         D = (IF a.proc = "reallocate" THEN {} ELSE Given(a)),
         Allocated' = (Allocated \cup N) \ D, heap' \subseteq heap,
         UpKept
  PROVE  OwnerInv'
<1> DEFINE z == stack[t]
           n == Len(z)
<1>1. z \in Seq(Act) /\ z # <<>> /\ n \in Nat \ {0} /\ Last(z) = z[n] /\ Last(z) = Top(t)
  <2>1. z \in Seq(Act) /\ z # <<>>
    BY DEF MemoryInv, StacksOK, Idle
  <2>2. QED BY <2>1, FrontFacts DEF Top
<1>2. /\ Own(z, n) = Given(a) /\ Own(z, n + 1) = {Top(t).got} \ {null}
      /\ \A k \in Nat : k # n /\ k # n + 1 /\ k \notin 1 .. n - 1 => Own(z, k) = {}
  <2>1. n \in 1 .. n /\ n + 1 \notin 1 .. n /\ \A k \in 1 .. n : k = n \/ k \in 1 .. n - 1
    BY <1>1
  <2>2. Given(a) = Given(Top(t))
    BY DEF Given
  <2>3. QED BY <1>1, <2>1, <2>2 DEF Own
<1>3. Nested(z)
  BY DEF OwnerInv
<1>4. /\ \A j, k \in Nat : j # k => Own(z, j) \cap Own(z, k) = {}
      /\ \A k \in Nat : Own(z, k) \cap held = {}
  BY DEF OwnerInv, Apart
<1>5. \A k \in Nat : \/ Own(z, k) \subseteq Allocated
                     \/ k \in 1 .. n /\ Departed(z[k])
  BY DEF OwnerInv, Alive
<1>6. /\ n \in Nat /\ n + 1 \in Nat /\ n # n + 1 /\ n \in 1 .. n /\ n + 1 \notin 1 .. n
      /\ \A k \in 1 .. n - 1 : k \in Nat /\ k \in 1 .. n /\ k # n /\ k # n + 1
  BY <1>1
<1>7. D \subseteq Own(z, n) /\ \A b \in D : Mine(t, b)
  BY <1>2, <1>6 DEF Mine
<1>8. D \cap held = {} /\ D \cap N = {} /\ N \cap held = {} /\ N \cap Allocated = {}
      /\ \A k \in Nat : Own(z, k) \cap N = {}
  BY <1>4, <1>6, <1>7 DEF Fresh
\* What it got is new, or allocated, and no place's but the top one's.
<1>9. \A b \in {a.got} \ {null} :
        /\ b \in Allocated' /\ b \notin D /\ b \notin held
        /\ b \in N \/ Mine(t, b)
        /\ \A k \in Nat : k # n + 1 => b \notin Own(z, k)
  <2> SUFFICES ASSUME NEW b \in {a.got} \ {null}
               PROVE  /\ b \in Allocated' /\ b \notin D /\ b \notin held
                      /\ b \in N \/ Mine(t, b)
                      /\ \A k \in Nat : k # n + 1 => b \notin Own(z, k)
    OBVIOUS
  <2>1. b \in N \/ b \in Own(z, n + 1)
    BY <1>2
  <2>2. CASE b \in N
    BY <1>8, <2>2
  <2>3. CASE b \in Own(z, n + 1)
    BY <1>4, <1>5, <1>6, <1>7, <2>3 DEF Mine
  <2>4. QED BY <2>1, <2>2, <2>3
<1>10. CASE n = 1
  <2>1. /\ stack' = [stack EXCEPT ![t] = <<>>]
        /\ held' = held \cup Result(a)
    BY <1>10 DEF Returns
  <2>2. \A k \in Nat : Own(<<>>, k) = {}
    BY OwnEmpty
  <2>3. Nested(<<>>) /\ Len(<<>>) = 0
    BY DEF Nested
  <2>4. Result(a) = (IF a.proc = "reallocate" THEN Given(a) ELSE {a.got} \ {null})
    <3>1. CASE a.proc = "allocate"
      BY <3>1 DEF Result
    <3>2. CASE a.proc = "reallocate"
      BY <3>2 DEF Result, Given
    <3>3. CASE a.proc # "allocate" /\ a.proc # "reallocate"
      BY <3>3 DEF Result
    <3>4. QED BY <3>1, <3>2, <3>3
  <2>5. \A b \in Result(a) : b \in Allocated' /\ (b \in N \/ Mine(t, b))
    <3>1. CASE a.proc = "reallocate"
      <4>1. Own(z, n) \subseteq Allocated
        <5>1. ~ Departed(z[n])
          BY <1>1, <3>1 DEF Departed
        <5>2. QED BY <1>5, <1>6, <5>1
      <4>2. QED BY <1>2, <1>6, <2>4, <3>1, <4>1 DEF Mine
    <3>2. CASE a.proc # "reallocate"
      BY <1>9, <2>4, <3>2
    <3>3. QED BY <3>1, <3>2
  <2>6. \A b \in held' : b \in Allocated' /\ (b \in N \/ Mine(t, b))
    <3>1. held \subseteq Allocated
      BY DEF OwnerInv, Alive
    <3>2. QED BY <1>8, <2>1, <2>5, <3>1 DEF Mine
  <2>7. \A b : b \in N \/ Mine(t, b) => b \in D \/ b \in held' \/ \E k \in Nat : b \in Own(<<>>, k)
    <3>1. ASSUME NEW b \in N PROVE b \in held'
      BY <2>1, <2>4, <3>1
    <3>2. ASSUME NEW b, NEW j \in Nat, b \in Own(z, j) PROVE b \in D \/ b \in held'
      <4>1. j = n \/ j = n + 1
        <5>1. 1 .. n - 1 = {}
          BY <1>10
        <5>2. QED BY <1>2, <3>2, <5>1
      <4>2. CASE j = n
        BY <1>2, <2>1, <2>4, <3>2, <4>2
      <4>3. CASE j = n + 1
        BY <1>2, <2>1, <2>4, <3>2, <4>3
      <4>4. QED BY <4>1, <4>2, <4>3
    <3>3. QED BY <2>1, <3>1, <3>2 DEF Mine
  <2>8. /\ \A j, k \in Nat : j # k => Own(<<>>, j) \cap Own(<<>>, k) = {}
        /\ \A k \in Nat : \A b \in Own(<<>>, k) : b \notin held' /\ (b \in N \/ Mine(t, b))
        /\ \A k \in Nat : \/ Own(<<>>, k) \subseteq Allocated'
                          \/ k \in 1 .. Len(<<>>) /\ Departed(<<>>[k])
    BY <2>2
  <2>9. \A k \in 1 .. Len(<<>>) : Parting(<<>>[k]) => <<>>[k].block \notin heap'
    BY <2>3
  <2>10. heap' \subseteq heap \cup N
    OBVIOUS
  <2>11. QED BY <1>7, <2>1, <2>3, <2>6, <2>7, <2>8, <2>9, <2>10, OwnershipMoves
<1>11. CASE n # 1
  <2> DEFINE s == Answered(z, a.got)
  <2>1. stack' = [stack EXCEPT ![t] = s] /\ held' = held
    BY <1>11 DEF Returns
  <2>2. a.got \in Block \cup {null}
    BY DEF Act, Frame
  <2>3. n > 1
    <3>1. \A k \in Nat \ {0} : k # 1 => k > 1
      OBVIOUS
    <3>2. QED BY <1>1, <1>11, <3>1
  <2>4. /\ s \in Seq(Act) /\ Len(s) = n - 1 /\ s # <<>>
        /\ \A k \in 1 .. n - 1 : /\ s[k].proc = z[k].proc /\ s[k].at = z[k].at
                                 /\ s[k].block = z[k].block
        /\ Last(s) = s[n - 1] /\ Last(s).got = a.got
        /\ \A k \in Nat : k < n => Own(s, k) = Own(z, k)
        /\ Own(s, n) = {a.got} \ {null}
        /\ \A k \in Nat : k > n => Own(s, k) = {}
    BY <1>1, <2>2, <2>3, OwnAnswered
  <2> HIDE DEF s
  <2>5. Calls(z[n - 1], z[n])
    <3>1. n - 1 \in 1 .. Len(z) - 1
      BY <1>1, <2>3
    <3>2. Calls(z[n - 1], z[(n - 1) + 1]) /\ (n - 1) + 1 = n
      BY <1>1, <1>3, <3>1 DEF Nested
    <3>3. QED BY <3>2
  <2>6. a.proc # "reallocate" /\ D = Own(z, n)
    BY <1>1, <1>2, <2>5 DEF Calls
  <2>7. Nested(s)
    <3>1. \A i \in 1 .. n - 1 : Proper(s[i])
      BY <1>3, <1>6, <2>4 DEF Nested, Proper
    <3>2. \A i \in 1 .. (n - 1) - 1 : Calls(s[i], s[i + 1])
      <4> SUFFICES ASSUME NEW i \in 1 .. (n - 1) - 1 PROVE Calls(s[i], s[i + 1])
        OBVIOUS
      <4>1. i \in 1 .. n - 1 /\ i + 1 \in 1 .. n - 1
        BY <1>1
      <4>2. Calls(z[i], z[i + 1])
        BY <1>3, <4>1 DEF Nested
      <4>3. QED BY <2>4, <4>1, <4>2 DEF Calls, Pending
    <3>3. Delivered(Last(s))
      <4>1. n - 1 \in 1 .. n - 1
        BY <1>1, <2>3
      <4>2. a.got # null => Pending(s[n - 1])
        BY <1>1, <2>4, <2>5, <4>1 DEF Calls, Pending
      <4>3. QED BY <2>4, <4>2 DEF Delivered
    <3>4. QED BY <2>4, <3>1, <3>2, <3>3 DEF Nested
  <2>8. \A k \in Nat : k < n \/ k = n \/ k > n
    BY <1>1
  <2>9. \A j, k \in Nat : j # k => Own(s, j) \cap Own(s, k) = {}
    <3>1. \A k \in Nat : k # n => Own(s, k) \subseteq Own(z, k) /\ Own(s, k) \cap Own(s, n) = {}
      <4> SUFFICES ASSUME NEW k \in Nat, k # n
                   PROVE  Own(s, k) \subseteq Own(z, k) /\ Own(s, k) \cap Own(s, n) = {}
        OBVIOUS
      <4>1. CASE k < n
        <5>1. k # n + 1
          BY <1>1, <4>1
        <5>2. QED BY <1>9, <2>4, <4>1, <5>1
      <4>2. CASE k > n
        BY <2>4, <4>2
      <4>3. QED BY <2>8, <4>1, <4>2
    <3>2. QED BY <1>4, <3>1
  <2>10. \A k \in Nat : \A b \in Own(s, k) : b \notin held' /\ (b \in N \/ Mine(t, b))
    BY <1>4, <1>9, <2>1, <2>4, <2>8 DEF Mine
  <2>11. \A b \in held' : b \in Allocated' /\ (b \in N \/ Mine(t, b))
    BY <1>8, <2>1 DEF OwnerInv, Alive, Mine
  <2>12. \A b : b \in N \/ Mine(t, b) => b \in D \/ b \in held' \/ \E k \in Nat : b \in Own(s, k)
    <3>1. ASSUME NEW b \in N PROVE b \in Own(s, n)
      BY <2>4
    <3>2. ASSUME NEW b, NEW j \in Nat, b \in Own(z, j)
          PROVE  b \in D \/ \E k \in Nat : b \in Own(s, k)
      <4>1. CASE j = n
        BY <2>6, <3>2, <4>1
      <4>2. CASE j = n + 1
        BY <1>2, <1>6, <2>4, <3>2, <4>2
      <4>3. CASE j # n /\ j # n + 1
        <5>1. j < n
          <6>1. j \in 1 .. n - 1
            BY <1>2, <3>2, <4>3
          <6>2. QED BY <1>1, <6>1
        <5>2. QED BY <2>4, <3>2, <5>1
      <4>4. QED BY <4>1, <4>2, <4>3
    <3>3. QED BY <1>6, <2>1, <3>1, <3>2 DEF Mine
  <2>13. ASSUME NEW k \in Nat
         PROVE  \/ Own(s, k) \subseteq Allocated'
                \/ k \in 1 .. Len(s) /\ Departed(s[k])
    <3>1. CASE k < n
      <4>1. k # n /\ (k \in 1 .. n => k \in 1 .. n - 1)
        BY <1>1, <3>1
      <4>2. Own(z, k) \cap D = {}
        BY <1>4, <1>6, <1>7, <4>1
      <4>3. k \in 1 .. n - 1 /\ Departed(z[k]) => Departed(s[k])
        BY <2>4 DEF Departed
      <4>4. QED BY <1>5, <2>4, <3>1, <4>1, <4>2, <4>3
    <3>2. CASE k = n
      BY <1>9, <2>4, <3>2
    <3>3. CASE k > n
      BY <2>4, <3>3
    <3>4. QED BY <2>8, <3>1, <3>2, <3>3
  <2>14. ASSUME NEW k \in 1 .. Len(s), Parting(s[k])
         PROVE  s[k].block \notin heap'
    <3>1. k \in 1 .. n - 1 /\ k \in 1 .. Len(stack[t])
      BY <1>6, <2>4
    <3>2. Parting(z[k]) /\ s[k].block = z[k].block
      BY <2>4, <2>14, <3>1 DEF Parting
    <3>3. QED BY <3>1, <3>2 DEF OwnerInv, Alive
  <2>15. heap' \subseteq heap \cup N
    OBVIOUS
  <2>16. QED BY <1>7, <2>1, <2>7, <2>9, <2>10, <2>11, <2>12, <2>13, <2>14, <2>15, OwnershipMoves
<1>12. QED BY <1>10, <1>11

\* A call takes what its caller gives up.
LEMMA NewCallMoves ==
  ASSUME MemoryInv, OwnerInv, NEW t \in Threads, NEW a \in Act, Call(t, a),
         a.got = null, Proper(a), ~ Parting(a),
         Given(a) \subseteq held, held' = held \ Given(a)
  PROVE  OwnerInv'
<1> DEFINE s == Append(<<>>, a)
<1>1. /\ stack[t] = <<>> /\ stack' = [stack EXCEPT ![t] = s]
      /\ heap' = heap /\ foreign' = foreign /\ up' = up /\ owner' = owner
  BY DEF Call, Idle
<1>2. /\ s \in Seq(Act) /\ Len(s) = 1 /\ s # <<>> /\ Last(s) = a /\ s[1] = a
      /\ Own(s, 1) = Given(a)
      /\ \A k \in Nat : k # 1 => Own(s, k) = {}
  <2>1. <<>> \in Seq(Act) /\ Len(<<>>) = 0
    OBVIOUS
  <2>2. LET m == Len(<<>>) IN
        /\ s \in Seq(Act) /\ Len(s) = m + 1 /\ s # <<>> /\ Last(s) = a
        /\ s[m + 1] = a
        /\ \A k \in Nat : k # m + 1 /\ k # m + 2 => Own(s, k) = Own(<<>>, k)
        /\ Own(s, m + 1) = Given(a) /\ Own(s, m + 2) = {a.got} \ {null}
    BY <2>1, OwnAppend
  <2> HIDE DEF s
  <2>3. /\ s \in Seq(Act) /\ Len(s) = 1 /\ s # <<>> /\ Last(s) = a /\ s[1] = a
        /\ Own(s, 1) = Given(a) /\ Own(s, 2) = {}
        /\ \A k \in Nat : k # 1 /\ k # 2 => Own(s, k) = Own(<<>>, k)
    BY <2>1, <2>2
  <2>4. QED BY <2>3, OwnEmpty
<1> HIDE DEF s
<1>3. \A k \in Nat : Own(stack[t], k) = {}
  BY <1>1, OwnEmpty
<1>4. Nested(s)
  <2>1. Delivered(Last(s))
    BY <1>2 DEF Delivered
  <2>2. \A i \in 1 .. Len(s) : Proper(s[i])
    BY <1>2
  <2>3. 1 .. Len(s) - 1 = {}
    BY <1>2
  <2>4. QED BY <2>1, <2>2, <2>3 DEF Nested
<1>5. Allocated' = (Allocated \cup {}) \ {} /\ heap' \subseteq heap \cup {} /\ Fresh({}) /\ UpKept
      /\ \A b \in {} : Mine(t, b)
  BY <1>1 DEF Allocated, Fresh, UpKept
<1>6. \A j, k \in Nat : j # k => Own(s, j) \cap Own(s, k) = {}
  BY <1>2
<1>7. \A k \in Nat : \A b \in Own(s, k) : b \notin held' /\ (b \in {} \/ Mine(t, b))
  BY <1>2 DEF Mine
<1>8. held \subseteq Allocated /\ Allocated' = Allocated
  BY <1>5 DEF OwnerInv, Alive
<1>9. \A b \in held' : b \in Allocated' /\ (b \in {} \/ Mine(t, b))
  BY <1>8 DEF Mine
<1>10. \A b : b \in {} \/ Mine(t, b) => b \in {} \/ b \in held' \/ \E k \in Nat : b \in Own(s, k)
  BY <1>2, <1>3 DEF Mine
<1>11. \A k \in Nat : \/ Own(s, k) \subseteq Allocated'
                      \/ k \in 1 .. Len(s) /\ Departed(s[k])
  BY <1>2, <1>8
<1>12. \A k \in 1 .. Len(s) : Parting(s[k]) => s[k].block \notin heap'
  BY <1>2
<1>13. QED BY <1>1, <1>4, <1>5, <1>6, <1>7, <1>9, <1>10, <1>11, <1>12, OwnershipMoves

-----------------------------------------------------------------------------
(***************************************************************************)
(* The actions.                                                            *)
(***************************************************************************)
LEMMA TopOwns ==
  ASSUME MemoryInv, OwnerInv, NEW t \in Threads, ~ Idle(t)
  PROVE  /\ Top(t) \in Act /\ Proper(Top(t)) /\ Delivered(Top(t))
         /\ Parting(Top(t)) => Top(t).block \notin heap
<1>1. stack[t] \in Seq(Act) /\ stack[t] # <<>>
  BY DEF MemoryInv, StacksOK, Idle
<1>2. /\ Len(stack[t]) \in 1 .. Len(stack[t]) /\ Top(t) = stack[t][Len(stack[t])]
      /\ Top(t) \in Act
  <2>1. /\ Len(stack[t]) \in Nat \ {0} /\ Top(t) = stack[t][Len(stack[t])]
        /\ Top(t) \in Act
    BY <1>1, FrontFacts DEF Top
  <2>2. QED BY <2>1
<1>3. Nested(stack[t])
  BY DEF OwnerInv
<1>4. QED BY <1>1, <1>2, <1>3 DEF Nested, OwnerInv, Alive, Top

LEMMA NewBlockFresh ==
  ASSUME MemoryInv, OwnerInv, NEW n \in Nat, NEW tag \in AllTags
  PROVE  /\ Fresh({NewBlock(n, tag)}) /\ NewBlock(n, tag) # null
         /\ NewBlock(n, tag) \in Block
<1> DEFINE b == NewBlock(n, tag)
<1>1. b \in Block /\ b \notin Named
  BY NewBlockFacts
<1> HIDE DEF b
<1>2. b \notin Allocated /\ b \notin held
  BY <1>1 DEF Named, Allocated, OwnerInv, Alive
<1>3. ASSUME NEW u \in Threads, NEW k \in 1 .. Len(stack[u])
      PROVE  stack[u][k].block # b
  <2>1. stack[u] \in Seq(Act)
    BY DEF MemoryInv, StacksOK
  <2>2. k \in DOMAIN stack[u]
    BY <2>1
  <2>3. QED BY <1>1, <2>2 DEF Named
<1>4. ASSUME NEW u \in Threads, NEW k \in Nat
      PROVE  b \notin Own(stack[u], k)
  <2>1. CASE Own(stack[u], k) \subseteq Allocated
    BY <1>2, <2>1
  <2>2. CASE k \in 1 .. Len(stack[u])
    <3>1. Own(stack[u], k) = Given(stack[u][k])
      BY <2>2 DEF Own
    <3>2. QED BY <1>3, <2>2, <3>1 DEF Given
  <2>3. QED BY <2>1, <2>2 DEF OwnerInv, Alive
<1>5. QED BY <1>1, <1>2, <1>3, <1>4, NullAssumption DEF Fresh, b

LEMMA NothingFresh == Fresh({})
BY DEF Fresh

\* The thread that has the mutex runs while the system is up.
LEMMA OwnerUp ==
  ASSUME OwnerInv, NEW t \in Threads, owner = t
  PROVE  up
BY MemoryAssumption DEF OwnerInv, UpOK

LEMMA LockOwns ==
  ASSUME MemoryInv, OwnerInv, NEW t \in Threads, mutex_lock(t)
  PROVE  OwnerInv'
<1> DEFINE a == IF Top(t).proc = "free" THEN [Top(t) EXCEPT !.at = "locked"]
                ELSE [Top(t) EXCEPT !.at = "loaded", !.seen = counters]
<1>1. /\ up /\ ~ Idle(t) /\ Top(t).proc \in Locking /\ Top(t).at = "enter" /\ Become(t, a)
      /\ up' = up /\ heap' = heap /\ foreign' = foreign
  BY DEF mutex_lock, Enter, At
<1>2. Top(t) \in Act /\ Delivered(Top(t)) /\ counters \in Count
  BY <1>1, TopOwns DEF MemoryInv, ScalarsOK
<1>3. Top(t).got = null
  BY <1>1, <1>2 DEF Delivered, Pending
<1>4. /\ a \in Act /\ a.proc = Top(t).proc /\ a.block = Top(t).block /\ a.got = null
      /\ ~ Parting(a) /\ Proper(a) /\ Delivered(a)
  BY <1>1, <1>2, <1>3 DEF Act, Frame, Places, Sound, Parting, Proper, Delivered, Locking
<1>5. ~ Departed(Top(t))
  BY <1>1 DEF Departed
<1> HIDE DEF a
<1>6. /\ Allocated' = (Allocated \cup {}) \ {} /\ heap' \subseteq heap \cup {} /\ UpKept
      /\ {} \subseteq Given(a) /\ {a.got} \ {null} = ({Top(t).got} \ {null}) \cup {}
  BY <1>1, <1>3, <1>4 DEF Allocated, UpKept
<1>7. QED BY <1>1, <1>4, <1>5, <1>6, NothingFresh, BecomeMoves

LEMMA StoreCountersOwns ==
  ASSUME MemoryInv, OwnerInv, NEW t \in Threads, StoreCounters(t)
  PROVE  OwnerInv'
<1> DEFINE a == [Top(t) EXCEPT !.at = "unlock", !.seen = null]
<1>1. /\ ~ Idle(t) /\ Top(t).proc \in Locking \ {"allocate"} /\ Top(t).at = "loaded" /\ Become(t, a)
      /\ up' = up /\ owner' = owner /\ heap' = heap /\ foreign' = foreign
  BY DEF StoreCounters, At
<1>2. /\ Top(t) \in Act /\ Delivered(Top(t))
      /\ Parting(Top(t)) => Top(t).block \notin heap
  BY <1>1, TopOwns
<1>3. Top(t).got = null
  BY <1>1, <1>2 DEF Delivered, Pending
<1>4. /\ a \in Act /\ a.proc = Top(t).proc /\ a.block = Top(t).block /\ a.got = null
      /\ Proper(a) /\ Delivered(a) /\ a.at = "unlock"
  BY <1>1, <1>2, <1>3 DEF Act, Frame, Places, Sound, Proper, Delivered, Locking
<1> HIDE DEF a
<1>5. /\ Departed(Top(t)) => Departed(a)
      /\ Parting(a) => a.block \notin heap'
  BY <1>1, <1>2, <1>4 DEF Departed, Parting
<1>6. /\ Allocated' = (Allocated \cup {}) \ {} /\ heap' \subseteq heap \cup {} /\ UpKept
      /\ {} \subseteq Given(a) /\ {a.got} \ {null} = ({Top(t).got} \ {null}) \cup {}
  BY <1>1, <1>3, <1>4 DEF Allocated, UpKept
<1>7. QED BY <1>1, <1>4, <1>5, <1>6, NothingFresh, BecomeMoves

LEMMA FreeForeignLoadsOwns ==
  ASSUME MemoryInv, OwnerInv, NEW t \in Threads, FreeForeignLoads(t)
  PROVE  OwnerInv'
<1> DEFINE a == [Top(t) EXCEPT !.at = "loaded", !.seen = counters]
<1>1. /\ ~ Idle(t) /\ Top(t).proc = "free" /\ Top(t).at = "logged" /\ Become(t, a)
      /\ up' = up /\ owner' = owner /\ heap' = heap /\ foreign' = foreign
  BY DEF FreeForeignLoads, At
<1>2. /\ Top(t) \in Act /\ Delivered(Top(t)) /\ counters \in Count
      /\ Parting(Top(t)) => Top(t).block \notin heap
  BY <1>1, TopOwns DEF MemoryInv, ScalarsOK
<1>3. Top(t).got = null /\ Parting(Top(t))
  BY <1>1, <1>2 DEF Delivered, Pending, Parting
<1>4. /\ a \in Act /\ a.proc = "free" /\ a.block = Top(t).block /\ a.got = null
      /\ Proper(a) /\ Delivered(a) /\ Departed(a)
  BY <1>1, <1>2, <1>3 DEF Act, Frame, Places, Sound, Proper, Delivered, Departed, Locking
<1> HIDE DEF a
<1>5. /\ Allocated' = (Allocated \cup {}) \ {} /\ heap' \subseteq heap \cup {} /\ UpKept
      /\ {} \subseteq Given(a) /\ {a.got} \ {null} = ({Top(t).got} \ {null}) \cup {}
      /\ a.block \notin heap'
  BY <1>1, <1>2, <1>3, <1>4 DEF Allocated, UpKept
<1>6. QED BY <1>1, <1>4, <1>5, NothingFresh, BecomeMoves

LEMMA FreeOwnOwns ==
  ASSUME MemoryInv, OwnerInv, NEW t \in Threads, FreeOwn(t)
  PROVE  OwnerInv'
<1> DEFINE a == [Top(t) EXCEPT !.at = "loaded", !.seen = counters]
           b == Top(t).block
<1>1. /\ ~ Idle(t) /\ Top(t).proc = "free" /\ Top(t).at = "locked" /\ Become(t, a)
      /\ b \in heap /\ heap' = heap \ {b}
      /\ up' = up /\ owner' = owner /\ foreign' = foreign
  BY DEF FreeOwn, At
<1>2. Top(t) \in Act /\ Delivered(Top(t)) /\ counters \in Count
  BY <1>1, TopOwns DEF MemoryInv, ScalarsOK
<1>3. Top(t).got = null
  BY <1>1, <1>2 DEF Delivered, Pending
<1>4. /\ a \in Act /\ a.proc = "free" /\ a.block = b /\ a.got = null
      /\ Proper(a) /\ Delivered(a) /\ Departed(a)
  BY <1>1, <1>2, <1>3 DEF Act, Frame, Places, Sound, Proper, Delivered, Departed, Locking
<1>5. b # null /\ b \notin foreign
  BY <1>1, NullAssumption DEF MemoryInv, BlocksOK
<1> HIDE DEF a, b
<1> DEFINE D == {b}
<1>6. D \subseteq Given(a)
  BY <1>4, <1>5 DEF Given
<1>7. Allocated' = (Allocated \cup {}) \ D
  BY <1>1, <1>5 DEF Allocated
<1>8. /\ heap' \subseteq heap \cup {} /\ UpKept /\ a.block \notin heap'
      /\ {a.got} \ {null} = ({Top(t).got} \ {null}) \cup {}
  BY <1>1, <1>3, <1>4 DEF UpKept
<1>9. a.proc = Top(t).proc /\ a.block = Top(t).block
  BY <1>1, <1>4 DEF b
<1>10. (D # {} \/ Departed(Top(t)) => Departed(a)) /\ Become(t, a) /\ ~ Idle(t)
  BY <1>1, <1>4
<1> HIDE DEF D
<1>11. QED BY <1>4, <1>6, <1>7, <1>8, <1>9, <1>10, NothingFresh, BecomeMoves

LEMMA AllocateGrantedOwns ==
  ASSUME MemoryInv, OwnerInv, NEW t \in Threads, AllocateGranted(t)
  PROVE  OwnerInv'
<1> DEFINE b == NewBlock(Top(t).size, Top(t).tag)
           a == [Top(t) EXCEPT !.at = "unlock", !.seen = null, !.got = b]
<1>1. /\ ~ Idle(t) /\ Top(t).proc = "allocate" /\ Top(t).at = "loaded" /\ Become(t, a)
      /\ heap' = heap \cup {b} /\ up' = up /\ owner' = owner /\ foreign' = foreign
      /\ Store(t)
  BY DEF AllocateGranted, At
<1>2. Top(t) \in Act /\ Delivered(Top(t))
  BY <1>1, TopOwns
<1>3. Top(t).got = null
  BY <1>1, <1>2 DEF Delivered, Pending
<1>4. Fresh({b}) /\ b # null /\ b \in Block
  BY <1>2, NewBlockFresh DEF Act, Frame
<1>5. up
  <2>1. Inside(Top(t))
    BY <1>1 DEF Inside, Locking
  <2>2. owner = t
    BY <1>1, <2>1, InsideOwns
  <2>3. QED BY <2>2, OwnerUp
<1> HIDE DEF b
<1>6. /\ a \in Act /\ a.proc = "allocate" /\ a.block = Top(t).block /\ a.got = b
      /\ Proper(a) /\ Delivered(a) /\ ~ Parting(a)
  BY <1>1, <1>2, <1>4 DEF Act, Frame, Places, Sound, Proper, Delivered, Parting, Locking
<1> HIDE DEF a
<1>7. /\ Allocated' = (Allocated \cup {b}) \ {} /\ heap' \subseteq heap \cup {b} /\ UpKept
      /\ {} \subseteq Given(a)
      /\ {a.got} \ {null} = ({Top(t).got} \ {null}) \cup {b}
      /\ ~ Departed(Top(t))
  BY <1>1, <1>3, <1>4, <1>5, <1>6 DEF Allocated, UpKept, Departed
<1> DEFINE N == {b}
           D == {}
<1>8. /\ Fresh(N) /\ Allocated' = (Allocated \cup N) \ D /\ heap' \subseteq heap \cup N
      /\ {a.got} \ {null} = ({Top(t).got} \ {null}) \cup N
      /\ a.proc = Top(t).proc /\ a.block = Top(t).block
  BY <1>1, <1>4, <1>6, <1>7
<1>9. /\ ~ Idle(t) /\ Become(t, a) /\ a \in Act /\ Proper(a) /\ Delivered(a) /\ ~ Parting(a)
      /\ D \subseteq Given(a) /\ UpKept
      /\ D # {} \/ Departed(Top(t)) => Departed(a)
  BY <1>1, <1>6, <1>7
<1> HIDE DEF N, D
<1>10. QED BY <1>8, <1>9, BecomeMoves

LEMMA UnlockOwns ==
  ASSUME MemoryInv, OwnerInv, NEW t \in Threads, mutex_unlock(t)
  PROVE  OwnerInv'
<1>1. /\ ~ Idle(t) /\ Top(t).proc \in Locking /\ Top(t).at = "unlock"
      /\ up' = up /\ heap' = heap
      /\ foreign' = (IF Top(t).proc = "free" THEN foreign \ {Top(t).block} ELSE foreign)
      /\ owner' = (IF depth = 1 THEN null ELSE owner)
  BY DEF mutex_unlock, At
<1>2. /\ Top(t) \in Act /\ Delivered(Top(t)) /\ Proper(Top(t))
      /\ Parting(Top(t)) => Top(t).block \notin heap
  BY <1>1, TopOwns
<1>3. UpKept
  BY <1>1 DEF UpKept
<1>4. CASE Top(t).proc = "allocate" /\ Top(t).got = null
  <2> DEFINE a == [Top(t) EXCEPT !.at = "complain"]
  <2>1. Become(t, a)
    BY <1>4 DEF mutex_unlock
  <2>2. /\ a \in Act /\ a.proc = "allocate" /\ a.block = Top(t).block /\ a.got = null
        /\ Proper(a) /\ Delivered(a) /\ ~ Parting(a)
    BY <1>2, <1>4 DEF Act, Frame, Places, Sound, Proper, Delivered, Parting
  <2> HIDE DEF a
  <2>3. /\ Allocated' = (Allocated \cup {}) \ {} /\ heap' \subseteq heap \cup {}
        /\ {} \subseteq Given(a) /\ {a.got} \ {null} = ({Top(t).got} \ {null}) \cup {}
        /\ ~ Departed(Top(t)) /\ a.proc = Top(t).proc
    BY <1>1, <1>4, <2>2 DEF Allocated, Departed
  <2>4. QED BY <1>1, <1>3, <2>1, <2>2, <2>3, NothingFresh, BecomeMoves
<1>5. CASE ~ (Top(t).proc = "allocate" /\ Top(t).got = null)
  <2>1. Returns(t, Top(t))
    BY <1>5 DEF mutex_unlock
  <2>2. Top(t).got # null => Top(t).proc = "allocate"
    BY <1>1, <1>2 DEF Delivered, Pending
  <2> DEFINE D == IF Top(t).proc = "reallocate" THEN {} ELSE Given(Top(t))
             N == {}
  <2>3. Top(t).proc = "free" => D = {Top(t).block} /\ Top(t).block \notin heap
    <3>1. Top(t).proc = "free" => Top(t).block # null
      BY <1>2 DEF Act, Sound
    <3>2. QED BY <1>1, <1>2, <3>1 DEF Given, Parting
  <2>4. Top(t).proc # "free" => D = {}
    BY <1>1 DEF Given, Locking
  <2>5. Allocated' = (Allocated \cup N) \ D
    BY <1>1, <2>3, <2>4 DEF Allocated
  <2>6. Fresh(N) /\ {Top(t).got} \ {null} = ({Top(t).got} \ {null}) \cup N /\ heap' \subseteq heap
        /\ D = (IF Top(t).proc = "reallocate" THEN {} ELSE Given(Top(t)))
    BY <1>1, NothingFresh
  <2> HIDE DEF D, N
  <2>7. QED BY <1>1, <1>2, <1>3, <2>1, <2>2, <2>5, <2>6, ReturnMoves
<1>6. QED BY <1>4, <1>5

LEMMA AllocateOutsideOwns ==
  ASSUME MemoryInv, OwnerInv, NEW t \in Threads, AllocateOutside(t)
  PROVE  OwnerInv'
<1> DEFINE b == NewBlock(Top(t).size, Top(t).tag)
           a == [Top(t) EXCEPT !.got = b]
<1>1. /\ ~ Idle(t) /\ Top(t).proc = "allocate" /\ Top(t).at = "enter" /\ Returns(t, a)
      /\ foreign' = foreign \cup {b} /\ up' = up /\ owner' = owner /\ heap' = heap
  BY DEF AllocateOutside, At
<1>2. Top(t) \in Act /\ Delivered(Top(t))
  BY <1>1, TopOwns
<1>3. Top(t).got = null
  BY <1>1, <1>2 DEF Delivered, Pending
<1>4. Fresh({b}) /\ b # null /\ b \in Block
  BY <1>2, NewBlockFresh DEF Act, Frame
<1> HIDE DEF b
<1>5. /\ a \in Act /\ a.proc = "allocate" /\ a.block = Top(t).block /\ a.got = b
  BY <1>1, <1>2, <1>4 DEF Act, Frame, Sound
<1> HIDE DEF a
<1> DEFINE N == {b}
           D == {}
<1>6. /\ Fresh(N) /\ Allocated' = (Allocated \cup N) \ D
      /\ {a.got} \ {null} = ({Top(t).got} \ {null}) \cup N
      /\ D = (IF a.proc = "reallocate" THEN {} ELSE Given(a))
  BY <1>1, <1>3, <1>4, <1>5 DEF Allocated, Given
<1>7. heap' \subseteq heap /\ UpKept /\ a.proc = Top(t).proc
  BY <1>1, <1>5 DEF UpKept
<1> HIDE DEF N, D
<1>8. QED BY <1>1, <1>5, <1>6, <1>7, ReturnMoves

LEMMA FreeOutsideOwns ==
  ASSUME MemoryInv, OwnerInv, NEW t \in Threads, FreeOutside(t)
  PROVE  OwnerInv'
<1>1. /\ ~ up /\ ~ Idle(t) /\ Top(t).proc = "free" /\ Top(t).at = "enter" /\ Returns(t, Top(t))
      /\ foreign' = foreign \ {Top(t).block} /\ up' = up /\ owner' = owner /\ heap' = heap
  BY DEF FreeOutside, At
<1>2. Top(t) \in Act /\ Delivered(Top(t))
  BY <1>1, TopOwns
<1>3. Top(t).got = null /\ Top(t).block # null /\ heap = {}
  BY <1>1, <1>2 DEF Delivered, Pending, Act, Sound, OwnerInv, UpOK
<1> DEFINE D == Given(Top(t))
           N == {}
<1>4. D = {Top(t).block}
  BY <1>1, <1>3 DEF Given
<1>5. /\ Fresh(N) /\ Allocated' = (Allocated \cup N) \ D
      /\ {Top(t).got} \ {null} = ({Top(t).got} \ {null}) \cup N
      /\ D = (IF Top(t).proc = "reallocate" THEN {} ELSE Given(Top(t)))
  BY <1>1, <1>3, <1>4, NothingFresh DEF Allocated
<1>6. heap' \subseteq heap /\ UpKept
  BY <1>1 DEF UpKept
<1> HIDE DEF N, D
<1>7. QED BY <1>1, <1>2, <1>3, <1>5, <1>6, ReturnMoves

\* A call that ends without a block of its own to free or to hand on.
LEMMA PlainReturn ==
  ASSUME MemoryInv, OwnerInv, NEW t \in Threads, ~ Idle(t), Returns(t, Top(t)),
         Top(t).got = null, Top(t).proc = "reallocate" \/ Given(Top(t)) = {},
         heap' = heap, foreign' = foreign, up' = up, owner' = owner
  PROVE  OwnerInv'
<1> DEFINE D == IF Top(t).proc = "reallocate" THEN {} ELSE Given(Top(t))
           N == {}
<1>1. D = {}
  OBVIOUS
<1>2. /\ Fresh(N) /\ Allocated' = (Allocated \cup N) \ D
      /\ {Top(t).got} \ {null} = ({Top(t).got} \ {null}) \cup N
      /\ D = (IF Top(t).proc = "reallocate" THEN {} ELSE Given(Top(t)))
  BY <1>1, NothingFresh DEF Allocated
<1>3. heap' \subseteq heap /\ UpKept /\ Top(t) \in Act
  BY TopFacts DEF UpKept
<1> HIDE DEF N, D
<1>4. QED BY <1>2, <1>3, ReturnMoves

LEMMA CallReturnsOwns ==
  ASSUME MemoryInv, OwnerInv, NEW t \in Threads, CallReturns(t)
  PROVE  OwnerInv'
<1>1. /\ ~ Idle(t) /\ Top(t).proc \in {"allocate", "reallocate", "log"} /\ Top(t).at = "return"
      /\ Returns(t, Top(t))
      /\ heap' = heap /\ foreign' = foreign /\ up' = up /\ owner' = owner
  BY DEF CallReturns, At
<1>2. Delivered(Top(t)) /\ Proper(Top(t))
  BY <1>1, TopOwns
<1>3. Top(t).got = null /\ (Top(t).proc = "reallocate" \/ Given(Top(t)) = {})
  BY <1>1, <1>2 DEF Delivered, Pending, Proper, Given
<1>4. QED BY <1>1, <1>3, PlainReturn

LEMMA CalleeOwns ==
  /\ \A n \in Nat, tag \in AllTags :
       LET c == Allocating(n, tag) IN
       c \in Act /\ Proper(c) /\ c.proc = "allocate" /\ c.got = null /\ Given(c) = {} /\ ~ Parting(c)
  /\ \A n \in Nat :
       LET c == Logging(n) IN
       c \in Act /\ Proper(c) /\ c.proc = "log" /\ c.got = null /\ Given(c) = {} /\ ~ Parting(c)
  /\ \A b \in Block :
       LET c == Freeing(b) IN
       c \in Act /\ Proper(c) /\ c.proc = "free" /\ c.got = null /\ Given(c) = {b} /\ ~ Parting(c)
<1>1. ASSUME NEW n \in Nat, NEW tag \in AllTags, NEW c, c = Allocating(n, tag)
      PROVE  c \in Act /\ Proper(c) /\ c.proc = "allocate" /\ c.got = null /\ Given(c) = {} /\ ~ Parting(c)
  BY <1>1, CalleeFacts DEF Allocating, Activation, Proper, Given, Parting
<1>2. ASSUME NEW n \in Nat, NEW c, c = Logging(n)
      PROVE  c \in Act /\ Proper(c) /\ c.proc = "log" /\ c.got = null /\ Given(c) = {} /\ ~ Parting(c)
  BY <1>2, CalleeFacts DEF Logging, Activation, Proper, Given, Parting
<1>3. ASSUME NEW b \in Block, NEW c, c = Freeing(b)
      PROVE  c \in Act /\ Proper(c) /\ c.proc = "free" /\ c.got = null /\ Given(c) = {b} /\ ~ Parting(c)
  BY <1>3, CalleeFacts, NullAssumption DEF Freeing, Activation, Proper, Given, Parting
<1>4. QED BY <1>1, <1>2, <1>3

LEMMA AllocateRefusedOwns ==
  ASSUME MemoryInv, OwnerInv, NEW t \in Threads, AllocateRefused(t)
  PROVE  OwnerInv'
<1> DEFINE a == [Top(t) EXCEPT !.at = "unlock", !.seen = null]
           c == Logging(LogSize)
<1>1. /\ ~ Idle(t) /\ Top(t).proc = "allocate" /\ Top(t).at = "loaded" /\ BecomeAndCall(t, a, c)
      /\ heap' = heap /\ foreign' = foreign /\ up' = up /\ owner' = owner
  BY DEF AllocateRefused, At
<1>2. Top(t) \in Act /\ Proper(Top(t)) /\ Delivered(Top(t)) /\ ~ Departed(Top(t))
  BY <1>1, TopOwns DEF Departed
<1>3. c \in Act /\ Proper(c) /\ c.proc = "log" /\ c.got = null /\ Given(c) = {} /\ ~ Parting(c)
  BY CalleeOwns, Sized
<1>4. /\ a \in Act /\ a.proc = "allocate" /\ a.at = "unlock" /\ a.block = Top(t).block /\ Proper(a)
      /\ Top(t).got = null
  BY <1>1, <1>2 DEF Act, Frame, Places, Sound, Proper, Delivered, Pending, Locking
<1> HIDE DEF a, c
<1>5. /\ Calls(a, c) /\ Given(a) = Given(Top(t)) /\ (Parting(a) => a.block \notin heap)
  BY <1>1, <1>3, <1>4 DEF Calls, Pending, Given, Parting
<1>6. QED BY <1>1, <1>2, <1>3, <1>4, <1>5, CallMoves

LEMMA AllocateComplainsOwns ==
  ASSUME MemoryInv, OwnerInv, NEW t \in Threads, AllocateComplains(t)
  PROVE  OwnerInv'
<1> DEFINE a == [Top(t) EXCEPT !.at = "return"]
           c == Logging(LogSize)
<1>1. /\ ~ Idle(t) /\ Top(t).proc = "allocate" /\ Top(t).at = "complain" /\ BecomeAndCall(t, a, c)
      /\ heap' = heap /\ foreign' = foreign /\ up' = up /\ owner' = owner
  BY DEF AllocateComplains, At
<1>2. Top(t) \in Act /\ Proper(Top(t)) /\ Delivered(Top(t)) /\ ~ Departed(Top(t))
  BY <1>1, TopOwns DEF Departed
<1>3. c \in Act /\ Proper(c) /\ c.proc = "log" /\ c.got = null /\ Given(c) = {} /\ ~ Parting(c)
  BY CalleeOwns, Sized
<1>4. /\ a \in Act /\ a.proc = "allocate" /\ a.at = "return" /\ a.block = Top(t).block /\ Proper(a)
      /\ Top(t).got = null
  BY <1>1, <1>2 DEF Act, Frame, Places, Sound, Proper, Delivered, Pending, Locking
<1> HIDE DEF a, c
<1>5. /\ Calls(a, c) /\ Given(a) = Given(Top(t)) /\ (Parting(a) => a.block \notin heap)
  BY <1>1, <1>3, <1>4 DEF Calls, Pending, Given, Parting
<1>6. QED BY <1>1, <1>2, <1>3, <1>4, <1>5, CallMoves

LEMMA FreeForeignOwns ==
  ASSUME MemoryInv, OwnerInv, NEW t \in Threads, FreeForeign(t)
  PROVE  OwnerInv'
<1> DEFINE a == [Top(t) EXCEPT !.at = "logged"]
           c == Logging(LogSize)
<1>1. /\ ~ Idle(t) /\ Top(t).proc = "free" /\ Top(t).at = "locked" /\ BecomeAndCall(t, a, c)
      /\ heap' = heap /\ foreign' = foreign /\ up' = up /\ owner' = owner
      /\ Top(t).block \notin heap
  BY DEF FreeForeign, At
<1>2. Top(t) \in Act /\ Proper(Top(t)) /\ Delivered(Top(t)) /\ ~ Departed(Top(t))
  BY <1>1, TopOwns DEF Departed
<1>3. c \in Act /\ Proper(c) /\ c.proc = "log" /\ c.got = null /\ Given(c) = {} /\ ~ Parting(c)
  BY CalleeOwns, Sized
<1>4. /\ a \in Act /\ a.proc = "free" /\ a.at = "logged" /\ a.block = Top(t).block /\ Proper(a)
      /\ Top(t).got = null
  BY <1>1, <1>2 DEF Act, Frame, Places, Sound, Proper, Delivered, Pending, Locking
<1> HIDE DEF a, c
<1>5. /\ Calls(a, c) /\ Given(a) = Given(Top(t)) /\ (Parting(a) => a.block \notin heap)
  BY <1>1, <1>3, <1>4 DEF Calls, Pending, Given, Parting
<1>6. QED BY <1>1, <1>2, <1>3, <1>4, <1>5, CallMoves

LEMMA ReallocateAllocatesOwns ==
  ASSUME MemoryInv, OwnerInv, NEW t \in Threads, ReallocateAllocates(t)
  PROVE  OwnerInv'
<1> DEFINE a == [Top(t) EXCEPT !.at = "copy"]
           c == Allocating(Top(t).size, Top(t).tag)
<1>1. /\ ~ Idle(t) /\ Top(t).proc = "reallocate" /\ Top(t).at = "allocate" /\ BecomeAndCall(t, a, c)
      /\ heap' = heap /\ foreign' = foreign /\ up' = up /\ owner' = owner
  BY DEF ReallocateAllocates, At
<1>2. Top(t) \in Act /\ Proper(Top(t)) /\ Delivered(Top(t)) /\ ~ Departed(Top(t))
  BY <1>1, TopOwns DEF Departed
<1>3. c \in Act /\ Proper(c) /\ c.proc = "allocate" /\ c.got = null /\ Given(c) = {} /\ ~ Parting(c)
  <2>1. Top(t).size \in Nat /\ Top(t).tag \in AllTags
    BY <1>2, Sized DEF Act, Frame
  <2>2. QED BY <2>1, CalleeOwns
<1>4. /\ a \in Act /\ a.proc = "reallocate" /\ a.at = "copy" /\ a.block = Top(t).block /\ Proper(a)
      /\ Top(t).got = null
  BY <1>1, <1>2 DEF Act, Frame, Places, Sound, Proper, Delivered, Pending, Locking
<1> HIDE DEF a, c
<1>5. /\ Calls(a, c) /\ Given(a) = Given(Top(t)) /\ (Parting(a) => a.block \notin heap)
  BY <1>1, <1>3, <1>4 DEF Calls, Pending, Given, Parting
<1>6. QED BY <1>1, <1>2, <1>3, <1>4, <1>5, CallMoves

LEMMA LogFormatsOwns ==
  ASSUME MemoryInv, OwnerInv, NEW t \in Threads, LogFormats(t)
  PROVE  OwnerInv'
<1> DEFINE a == [Top(t) EXCEPT !.at = "prefix"]
           c == Allocating(Top(t).size, StringTag)
<1>1. /\ ~ Idle(t) /\ Top(t).proc = "log" /\ Top(t).at = "format" /\ BecomeAndCall(t, a, c)
      /\ heap' = heap /\ foreign' = foreign /\ up' = up /\ owner' = owner
  BY DEF LogFormats, At
<1>2. Top(t) \in Act /\ Proper(Top(t)) /\ Delivered(Top(t)) /\ ~ Departed(Top(t))
  BY <1>1, TopOwns DEF Departed
<1>3. c \in Act /\ Proper(c) /\ c.proc = "allocate" /\ c.got = null /\ Given(c) = {} /\ ~ Parting(c)
  <2>1. Top(t).size \in Nat /\ StringTag \in AllTags
    BY <1>2, Sized DEF Act, Frame
  <2>2. QED BY <2>1, CalleeOwns
<1>4. /\ a \in Act /\ a.proc = "log" /\ a.at = "prefix" /\ a.block = Top(t).block /\ Proper(a)
      /\ Top(t).got = null
  BY <1>1, <1>2 DEF Act, Frame, Places, Sound, Proper, Delivered, Pending, Locking
<1> HIDE DEF a, c
<1>5. /\ Calls(a, c) /\ Given(a) = Given(Top(t)) /\ (Parting(a) => a.block \notin heap)
  BY <1>1, <1>3, <1>4 DEF Calls, Pending, Given, Parting
<1>6. QED BY <1>1, <1>2, <1>3, <1>4, <1>5, CallMoves

LEMMA LogPrefixesOwns ==
  ASSUME MemoryInv, OwnerInv, NEW t \in Threads, LogPrefixes(t)
  PROVE  OwnerInv'
<1> DEFINE a == [Top(t) EXCEPT !.at = "write", !.block = Top(t).got]
           c == Allocating(IF Top(t).got = null THEN LogSize ELSE Top(t).size, StringTag)
<1>1. /\ ~ Idle(t) /\ Top(t).proc = "log" /\ Top(t).at = "prefix" /\ BecomeAndCall(t, a, c)
      /\ heap' = heap /\ foreign' = foreign /\ up' = up /\ owner' = owner
  BY DEF LogPrefixes, At
<1>2. Top(t) \in Act /\ Proper(Top(t)) /\ Delivered(Top(t)) /\ ~ Departed(Top(t))
  BY <1>1, TopOwns DEF Departed
<1>3. c \in Act /\ Proper(c) /\ c.proc = "allocate" /\ c.got = null /\ Given(c) = {} /\ ~ Parting(c)
  <2>1. (IF Top(t).got = null THEN LogSize ELSE Top(t).size) \in Nat /\ StringTag \in AllTags
    BY <1>2, Sized DEF Act, Frame
  <2>2. QED BY <2>1, CalleeOwns
<1>4. a \in Act /\ a.proc = "log" /\ a.at = "write" /\ a.block = Top(t).got /\ Proper(a)
  BY <1>1, <1>2 DEF Act, Frame, Places, Sound, Proper, Locking
<1> HIDE DEF a, c
<1>5. /\ Calls(a, c) /\ Given(a) = {Top(t).got} \ {null} /\ Given(c) = Given(Top(t))
      /\ ~ Parting(a)
  BY <1>1, <1>2, <1>3, <1>4 DEF Calls, Pending, Given, Parting, Proper, Delivered
<1>6. QED BY <1>1, <1>2, <1>3, <1>4, <1>5, CallMoves

LEMMA LogWritesOwns ==
  ASSUME MemoryInv, OwnerInv, NEW t \in Threads, LogWrites(t)
  PROVE  OwnerInv'
<1> DEFINE a == [Top(t) EXCEPT !.at = "release", !.block = Top(t).got]
           c == ReleasingString(Top(t).block)
<1>1. /\ ~ Idle(t) /\ Top(t).proc = "log" /\ Top(t).at = "write" /\ BecomeAndCall(t, a, c)
      /\ heap' = heap /\ foreign' = foreign /\ up' = up /\ owner' = owner
  BY DEF LogWrites, At
<1>2. Top(t) \in Act /\ Proper(Top(t)) /\ Delivered(Top(t)) /\ ~ Departed(Top(t))
  BY <1>1, TopOwns DEF Departed
<1>3. /\ c \in Act /\ Proper(c) /\ c.proc \in {"free", "log"} /\ c.got = null /\ ~ Parting(c)
      /\ Given(c) = {Top(t).block} \ {null}
  <2>1. CASE Top(t).block = null
    BY <2>1, CalleeOwns, Sized DEF ReleasingString
  <2>2. CASE Top(t).block # null
    <3>1. Top(t).block \in Block
      BY <1>2, <2>2 DEF Act, Frame
    <3>2. QED BY <2>2, <3>1, CalleeOwns DEF ReleasingString
  <2>3. QED BY <2>1, <2>2
<1>4. a \in Act /\ a.proc = "log" /\ a.at = "release" /\ a.block = Top(t).got /\ Proper(a)
  BY <1>1, <1>2 DEF Act, Frame, Places, Sound, Proper, Locking
<1> HIDE DEF a, c
<1>5. /\ Calls(a, c) /\ Given(a) = {Top(t).got} \ {null} /\ Given(c) = Given(Top(t))
      /\ ~ Parting(a)
  BY <1>1, <1>2, <1>3, <1>4 DEF Calls, Pending, Given, Parting, Proper, Delivered
<1>6. QED BY <1>1, <1>2, <1>3, <1>4, <1>5, CallMoves

LEMMA LogReleasesOwns ==
  ASSUME MemoryInv, OwnerInv, NEW t \in Threads, LogReleases(t)
  PROVE  OwnerInv'
<1> DEFINE a == [Top(t) EXCEPT !.at = "return", !.block = null]
           c == ReleasingString(Top(t).block)
<1>1. /\ ~ Idle(t) /\ Top(t).proc = "log" /\ Top(t).at = "release" /\ BecomeAndCall(t, a, c)
      /\ heap' = heap /\ foreign' = foreign /\ up' = up /\ owner' = owner
  BY DEF LogReleases, At
<1>2. Top(t) \in Act /\ Proper(Top(t)) /\ Delivered(Top(t)) /\ ~ Departed(Top(t))
  BY <1>1, TopOwns DEF Departed
<1>3. /\ c \in Act /\ Proper(c) /\ c.proc \in {"free", "log"} /\ c.got = null /\ ~ Parting(c)
      /\ Given(c) = {Top(t).block} \ {null}
  <2>1. CASE Top(t).block = null
    BY <2>1, CalleeOwns, Sized DEF ReleasingString
  <2>2. CASE Top(t).block # null
    <3>1. Top(t).block \in Block
      BY <1>2, <2>2 DEF Act, Frame
    <3>2. QED BY <2>2, <3>1, CalleeOwns DEF ReleasingString
  <2>3. QED BY <2>1, <2>2
<1>4. a \in Act /\ a.proc = "log" /\ a.at = "return" /\ a.block = null /\ Proper(a)
  BY <1>1, <1>2 DEF Act, Frame, Places, Sound, Proper, Locking
<1> HIDE DEF a, c
<1>5. /\ Calls(a, c) /\ Given(a) = {Top(t).got} \ {null} /\ Given(c) = Given(Top(t))
      /\ ~ Parting(a)
  BY <1>1, <1>2, <1>3, <1>4 DEF Calls, Pending, Given, Parting, Proper, Delivered
<1>6. QED BY <1>1, <1>2, <1>3, <1>4, <1>5, CallMoves

LEMMA ReallocateCopiesOwns ==
  ASSUME MemoryInv, OwnerInv, NEW t \in Threads, ReallocateCopies(t)
  PROVE  OwnerInv'
<1>1. /\ ~ Idle(t) /\ Top(t).proc = "reallocate" /\ Top(t).at = "copy"
      /\ heap' = heap /\ foreign' = foreign /\ up' = up /\ owner' = owner
  BY DEF ReallocateCopies, At
<1>2. Top(t) \in Act /\ ~ Departed(Top(t)) /\ Top(t).block \in Block
  BY <1>1, TopOwns DEF Departed, Act, Frame, Sound
<1>3. CASE Top(t).got # null
  <2> DEFINE a == [Top(t) EXCEPT !.at = "return", !.block = Top(t).got]
             c == Freeing(Top(t).block)
  <2>1. BecomeAndCall(t, a, c)
    BY <1>3 DEF ReallocateCopies
  <2>2. /\ c \in Act /\ Proper(c) /\ c.proc = "free" /\ c.got = null /\ ~ Parting(c)
        /\ Given(c) = {Top(t).block}
    BY <1>2, CalleeOwns
  <2>3. a \in Act /\ a.proc = "reallocate" /\ a.block = Top(t).got
    BY <1>1, <1>2, <1>3 DEF Act, Frame, Places, Sound, Locking
  <2> HIDE DEF a, c
  <2>4. /\ Calls(a, c) /\ Proper(a) /\ Given(a) = {Top(t).got} \ {null} /\ Given(c) = Given(Top(t))
        /\ ~ Parting(a)
    BY <1>1, <1>2, <2>2, <2>3, NullAssumption DEF Calls, Given, Parting, Proper
  <2>5. QED BY <1>1, <1>2, <2>1, <2>2, <2>3, <2>4, CallMoves
<1>4. CASE Top(t).got = null
  BY <1>1, <1>4, PlainReturn DEF ReallocateCopies
<1>5. QED BY <1>3, <1>4

LEMMA StepOwns ==
  ASSUME MemoryInv, OwnerInv, NEW t \in Threads, Step(t)
  PROVE  OwnerInv'
BY LockOwns, UnlockOwns, StoreCountersOwns, AllocateGrantedOwns, AllocateRefusedOwns,
   AllocateComplainsOwns, AllocateOutsideOwns, FreeOutsideOwns, FreeOwnOwns, FreeForeignOwns,
   FreeForeignLoadsOwns, ReallocateAllocatesOwns, ReallocateCopiesOwns, LogFormatsOwns,
   LogPrefixesOwns, LogWritesOwns, LogReleasesOwns, CallReturnsOwns
   DEF Step

LEMMA NewCallsOwn ==
  ASSUME MemoryInv, OwnerInv, NEW t \in Threads, NewCall(t)
  PROVE  OwnerInv'
<1>1. held \subseteq Block /\ reported \subseteq Block
  BY DEF MemoryInv, BlocksOK
<1>2. ASSUME NEW n \in Sizes, NEW tag \in Tags, memory_allocate(t, n, tag)
      PROVE  OwnerInv'
  <2> DEFINE a == Allocating(n, tag)
  <2>1. Call(t, a) /\ held' = held
    BY <1>2 DEF memory_allocate
  <2>2. a \in Act /\ Proper(a) /\ a.got = null /\ Given(a) = {} /\ ~ Parting(a)
    BY CalleeOwns, Sized
  <2> HIDE DEF a
  <2>3. QED BY <2>1, <2>2, NewCallMoves
<1>3. ASSUME NEW n \in Sizes, NEW tag \in Tags, memory_allocate_report(t, n, tag)
      PROVE  OwnerInv'
  <2> DEFINE b == NewBlock(n, tag)
             a == Activation("report", "enter", n, tag, b)
  <2>1. Call(t, a) /\ held' = held
    BY <1>3 DEF memory_allocate_report
  <2>2. b \in Block /\ b # null /\ n \in Nat /\ tag \in AllTags
    BY Sized, NewBlockFresh
  <2> HIDE DEF b
  <2>3. a \in Act /\ Proper(a) /\ a.got = null /\ Given(a) = {} /\ ~ Parting(a)
    BY <2>2 DEF Activation, Act, Frame, Places, Sound, Locking, Proper, Given, Parting
  <2> HIDE DEF a
  <2>4. QED BY <2>1, <2>3, NewCallMoves
<1>4. ASSUME NEW b \in held, memory_free(t, b)
      PROVE  OwnerInv'
  <2> DEFINE a == Freeing(b)
  <2>1. Call(t, a) /\ held' = held \ {b}
    BY <1>4 DEF memory_free
  <2>2. a \in Act /\ Proper(a) /\ a.got = null /\ Given(a) = {b} /\ ~ Parting(a)
    BY <1>1, CalleeOwns
  <2> HIDE DEF a
  <2>3. QED BY <2>1, <2>2, NewCallMoves
<1>5. ASSUME NEW b \in held, NEW n \in Sizes, memory_reallocate(t, b, n)
      PROVE  OwnerInv'
  <2> DEFINE a == Activation("reallocate", "allocate", n, b.tag, b)
  <2>1. Call(t, a) /\ held' = held \ {b}
    BY <1>5 DEF memory_reallocate
  <2>2. b \in Block /\ b # null /\ n \in Nat /\ b.tag \in AllTags
    BY <1>1, Sized, NullAssumption DEF Block
  <2>3. a \in Act /\ Proper(a) /\ a.got = null /\ Given(a) = {b} /\ ~ Parting(a)
    BY <2>2 DEF Activation, Act, Frame, Places, Sound, Locking, Proper, Given, Parting
  <2> HIDE DEF a
  <2>4. QED BY <2>1, <2>3, NewCallMoves
<1>6. ASSUME NEW b \in reported, memory_free_report(t, b)
      PROVE  OwnerInv'
  <2> DEFINE a == Activation("free_report", "enter", b.size, b.tag, b)
  <2>1. Call(t, a) /\ held' = held
    BY <1>6 DEF memory_free_report
  <2>2. b \in Block /\ b # null /\ b.size \in Nat /\ b.tag \in AllTags
    BY <1>1, NullAssumption DEF Block
  <2>3. a \in Act /\ Proper(a) /\ a.got = null /\ Given(a) = {} /\ ~ Parting(a)
    BY <2>2 DEF Activation, Act, Frame, Places, Sound, Locking, Proper, Given, Parting
  <2> HIDE DEF a
  <2>4. QED BY <2>1, <2>3, NewCallMoves
<1>7. ASSUME NEW n \in Sizes, log_output(t, n)
      PROVE  OwnerInv'
  <2> DEFINE a == Logging(n)
  <2>1. Call(t, a) /\ held' = held
    BY <1>7 DEF log_output
  <2>2. a \in Act /\ Proper(a) /\ a.got = null /\ Given(a) = {} /\ ~ Parting(a)
    BY CalleeOwns, Sized
  <2> HIDE DEF a
  <2>3. QED BY <2>1, <2>2, NewCallMoves
<1>8. QED BY <1>2, <1>3, <1>4, <1>5, <1>6, <1>7 DEF NewCall

\* The system starts and stops while all threads are idle.
LEMMA SystemOwns ==
  ASSUME MemoryInv, OwnerInv, memory_system_initialize \/ memory_system_shutdown
  PROVE  OwnerInv'
<1>1. /\ stack' = stack /\ foreign' = foreign /\ owner' = owner
      /\ \A t \in Threads : stack[t] = <<>>
      /\ \/ up' = TRUE /\ heap' = heap /\ held' = held
         \/ up' = FALSE /\ heap' = {} /\ held' = held \ heap
  BY DEF memory_system_initialize, memory_system_shutdown, Idle
<1>2. \A t \in Threads : /\ \A k \in Nat : Own(stack[t], k) = {}
                         /\ Len(stack[t]) = 0 /\ 1 .. Len(stack[t]) = {}
  <2>1. Len(<<>>) = 0
    OBVIOUS
  <2>2. QED BY <1>1, <2>1, OwnEmpty
<1>3. \A t \in Threads : Nested(stack'[t])
  BY <1>1 DEF OwnerInv
<1>4. Apart'
  BY <1>1, <1>2 DEF Apart
<1>5. held = Allocated /\ heap \cap foreign = {}
  BY <1>2 DEF OwnerInv, Alive, NoLeak, MemoryInv, BlocksOK
<1>6. held' = Allocated'
  BY <1>1, <1>5 DEF Allocated
<1>7. Alive'
  BY <1>1, <1>2, <1>6 DEF Alive, Parting, Departed
<1>8. NoLeak'
  BY <1>6 DEF NoLeak
<1>9. UpOK'
  <2>1. owner = null
    <3>1. SUFFICES ASSUME owner # null PROVE FALSE
      OBVIOUS
    <3>2. owner \in Threads /\ depth > 0 /\ Entries(stack[owner]) = depth
      BY <3>1 DEF MemoryInv, MutexSerialises
    <3>3. depth = 0 /\ depth > 0
      BY <1>1, <3>2, EntriesNone
    <3>4. QED BY <3>3
  <2>2. QED BY <1>1, <2>1 DEF UpOK
<1>10. QED BY <1>3, <1>4, <1>7, <1>8, <1>9 DEF OwnerInv, Nested, Proper, Calls, Delivered, Pending

LEMMA OwnNext == MemoryInv /\ OwnerInv /\ [Next]_vars => OwnerInv'
<1> SUFFICES ASSUME MemoryInv, OwnerInv, [Next]_vars PROVE OwnerInv'
  OBVIOUS
<1>1. CASE memory_system_initialize \/ memory_system_shutdown
  BY <1>1, SystemOwns
<1>2. CASE \E t \in Threads : NewCall(t) \/ Step(t)
  BY <1>2, NewCallsOwn, StepOwns
<1>3. CASE UNCHANGED vars
  <2>1. /\ stack' = stack /\ held' = held /\ heap' = heap /\ foreign' = foreign
        /\ up' = up /\ owner' = owner
    BY <1>3 DEF vars
  <2>2. QED BY <2>1, Unmoved
<1>4. QED BY <1>1, <1>2, <1>3 DEF Next

LEMMA OwnInit == Init => OwnerInv
<1> SUFFICES ASSUME Init PROVE OwnerInv
  OBVIOUS
<1>1. /\ heap = {} /\ foreign = {} /\ held = {} /\ owner = null
      /\ \A t \in Threads : stack[t] = <<>>
  BY DEF Init
<1>2. Len(<<>>) = 0 /\ 1 .. 0 = {} /\ 1 .. 0 - 1 = {}
  OBVIOUS
<1>3. \A t \in Threads : Nested(stack[t])
  BY <1>1, <1>2 DEF Nested
<1>4. Apart /\ Alive /\ NoLeak /\ UpOK
  BY <1>1, <1>2, OwnEmpty DEF Apart, Alive, NoLeak, UpOK, Allocated
<1>5. QED BY <1>3, <1>4 DEF OwnerInv

(***************************************************************************)
(* A caller's block is allocated, also after a reallocation that found no  *)
(* room (memory.c:180-187), and every allocated block is a caller's or in  *)
(* a running call's hands, through the frees of the strings that a log     *)
(* line made (logger.c:33-43): nothing is leaked or used once it is freed, *)
(* whatever the other threads do.                                          *)
(***************************************************************************)
THEOREM BlocksOwned == Spec => []Ownership
<1>1. MemoryInv /\ OwnerInv => Ownership
  <2> SUFFICES ASSUME MemoryInv, OwnerInv PROVE Ownership
    OBVIOUS
  <2>1. held \subseteq heap \cup foreign
    BY DEF OwnerInv, Alive, Allocated
  <2>2. ASSUME NEW t \in Threads, NEW k \in Nat, NEW b \in Own(stack[t], k)
        PROVE  b \in InCalls
    <3>1. /\ stack[t] \in Seq(Act) /\ DOMAIN stack[t] = 1 .. Len(stack[t])
      BY DEF MemoryInv, StacksOK
    <3>2. CASE k \in 1 .. Len(stack[t])
      <4>1. b = stack[t][k].block
        BY <2>2, <3>2 DEF Own, Given
      <4>2. QED BY <3>1, <3>2, <4>1 DEF InCalls
    <3>3. CASE k \notin 1 .. Len(stack[t])
      <4>1. stack[t] # <<>> /\ b = Last(stack[t]).got
        BY <2>2, <3>3 DEF Own
      <4>2. Len(stack[t]) \in Nat \ {0} /\ Last(stack[t]) = stack[t][Len(stack[t])]
        BY <3>1, <4>1, FrontFacts
      <4>3. Len(stack[t]) \in DOMAIN stack[t]
        BY <3>1, <4>2
      <4>4. QED BY <4>1, <4>2, <4>3 DEF InCalls
    <3>4. QED BY <3>2, <3>3
  <2>3. heap \cup foreign \subseteq held \cup InCalls
    BY <2>2 DEF OwnerInv, NoLeak, Allocated
  <2>4. QED BY <2>1, <2>3 DEF Ownership
<1>2. QED BY <1>1, MemoryConsistent, OwnInit, OwnNext, InitInv, NextInv, PTL DEF Spec

-----------------------------------------------------------------------------
(***************************************************************************)
(* What the counters count.  Besides the blocks of the heap and the        *)
(* reported ones, that is the block of a free that has not stored yet, of  *)
(* a report that has, and of the withdrawal of a report that has not.      *)
(***************************************************************************)
Reporting(a) == a.proc \in {"report", "free_report"}

Counted(a) ==
  \/ a.proc = "free" /\ a.at = "loaded"
  \/ a.proc = "report" /\ a.at = "unlock"
  \/ a.proc = "free_report" /\ a.at # "unlock"

Counts(s) == IF s # <<>> /\ Counted(Last(s)) THEN {Last(s).block} ELSE {}

Booked == (heap \cup reported) \cup UNION {Counts(stack[t]) : t \in Threads}

\* The block that a thread reports, or whose report it withdraws.
Reports(s) == IF s # <<>> /\ Reporting(Last(s)) THEN {Last(s).block} ELSE {}

\* The blocks that a thread frees.
Frees(s) == {s[i].block : i \in {j \in 1 .. Len(s) : s[j].proc = "free"}}

\* An activation counts its block by the size and the tag of the block.
Faithful(a) ==
  a.proc \in {"free", "report", "free_report"} =>
    a.size = a.block.size /\ a.tag = a.block.tag

\* A report calls nothing.
Alone(s) == \A i \in 1 .. Len(s) : Reporting(s[i]) => Len(s) = 1

\* What is reported is not the allocator's, and reported once.
ReportsApart ==
  /\ reported \cap Allocated = {}
  /\ \A t \in Threads : Reports(stack[t]) \cap (reported \cup Allocated) = {}
  /\ \A t, u \in Threads : t # u => Reports(stack[t]) \cap Reports(stack[u]) = {}
  /\ \A t, u \in Threads : Frees(stack[t]) \cap (reported \cup Reports(stack[u])) = {}

CountsRight ==
  up /\ refused = 0 /\ strays = 0 => counters = Tally(Booked)

\* A free that logs has found a stray block.
Fine(s) ==
  /\ Alone(s)
  /\ \A i \in 1 .. Len(s) :
       /\ Faithful(s[i])
       /\ s[i].proc = "free" /\ s[i].at = "logged" => strays > 0

CountInv ==
  /\ \A t \in Threads : Fine(stack[t]) /\ (Reports(stack[t]) # {} => up)
  /\ ~ up => reported = {}
  /\ ReportsApart
  /\ CountsRight

-----------------------------------------------------------------------------
(***************************************************************************)
(* How deep the calls nest.  A request is modest that needs no more than a *)
(* log line of the engine's own, and a thread is doomed that had one       *)
(* refused: it logs that, which makes the same request, and so on.         *)
(***************************************************************************)
Modest(a) == a.size <= LogSize

Doomed(s) == \E i \in 1 .. Len(s) - 1 : s[i].proc = "allocate" /\ Modest(s[i])

\* The innermost activation of a recursion that does not end.
Sinking(a) ==
  /\ a.size = LogSize
  /\ \/ a.proc = "log" /\ a.at = "format"
     \/ a.proc = "allocate" /\ a.at \in {"enter", "loaded"}

\* The blocks that the allocator takes back, if it is there.
Usable == IF up THEN heap ELSE Block

\* How deep in a stack an activation can be, while the blocks in h are usable.
Placed(a, i, h) ==
  /\ a.proc \in {"reallocate", "report", "free_report"} => i = 1
  /\ a.proc = "allocate" => i <= IF Modest(a) THEN 4 ELSE 2
  /\ a.proc = "log" => i <= IF Modest(a) THEN 3 ELSE 1
  /\ a.proc = "free" =>
       i <= IF a.at = "logged" \/ (a.at \in {"enter", "locked"} /\ a.block \notin h) THEN 2 ELSE 4
  /\ a.proc = "log" /\ Modest(a) /\ a.at \in {"write", "release"} => a.block # null
  /\ a.proc = "log" /\ a.block # null => a.block \in h

\* A modest request is granted.
Answering(a, h) ==
  /\ a.proc = "allocate" /\ Modest(a) =>
       a.at \in {"enter", "loaded"} \/ (a.at = "unlock" /\ a.got # null)
  /\ a.proc = "log" /\ Modest(a) /\ a.at \in {"prefix", "write"} => a.got # null
  /\ a.got # null => a.got \in h

Follows(a, c) ==
  a.proc = "log" /\ a.at \in {"prefix", "write"} =>
    c.proc = "allocate" /\ (Modest(a) => Modest(c))

CalmStack(s, h) ==
  /\ \A i \in 1 .. Len(s) : Placed(s[i], i, h)
  /\ \A i \in 1 .. Len(s) - 1 : Follows(s[i], s[i + 1])
  /\ s # <<>> => Answering(Last(s), h)

Deep(t) ==
  IF Doomed(stack[t]) THEN owner = t /\ ~ Fits(LogSize) /\ Sinking(Top(t))
  ELSE CalmStack(stack[t], Usable)

DepthInv ==
  /\ \A t \in Threads : Deep(t)
  /\ dead => ~ Fits(LogSize) /\ \E t \in Threads : ~ Idle(t)

-----------------------------------------------------------------------------
(***************************************************************************)
(* The size of a set of blocks is what its definition adds up, in whatever *)
(* order: a block more is its size more.                                   *)
(***************************************************************************)
LEMMA SumFacts ==
  ASSUME NEW S \in SUBSET Block, IsFiniteSet(S)
  PROVE  \E f : /\ f \in [SUBSET S -> Nat]
                /\ f[{}] = 0
                /\ \A s \in SUBSET S : s # {} =>
                     LET x == CHOOSE x \in s : TRUE IN f[s] = x.size + f[s \ {x}]
                /\ TotalSize(S) = f[S]
<1> DEFINE pick == [s \in SUBSET S |-> CHOOSE x \in s : TRUE]
           step == [s \in SUBSET S |-> [v \in Nat |-> pick[s].size + v]]
           iter == CHOOSE f : f = [s \in SUBSET S |->
                     IF s = {} THEN 0
                     ELSE (CHOOSE x \in s : TRUE).size + f[s \ {CHOOSE x \in s : TRUE}]]
<1>1. ASSUME NEW s \in SUBSET S, s # {} PROVE pick[s] \in s /\ pick[s] = CHOOSE x \in s : TRUE
  BY <1>1
<1>2. ASSUME NEW b \in S PROVE b.size \in Nat
  BY DEF Block
<1>3. \A s \in SUBSET S, v \in Nat : s # {} => step[s][v] = pick[s].size + v /\ step[s][v] \in Nat
  <2>1. ASSUME NEW s \in SUBSET S, NEW v \in Nat, s # {}
        PROVE step[s][v] = pick[s].size + v /\ step[s][v] \in Nat
    <3>1. pick[s] \in S
      BY <1>1, <2>1
    <3>2. pick[s].size + v \in Nat
      BY <1>2, <3>1
    <3> HIDE DEF pick
    <3>3. step[s][v] = pick[s].size + v
      OBVIOUS
    <3> QED BY <3>2, <3>3
  <2> QED BY <2>1
<1>4. \E f : f \in [SUBSET S -> Nat] /\ Folds(f, S, 0, pick, step)
  <2>1. \A s \in SUBSET S : s # {} => pick[s] \in s
    BY <1>1
  <2>2. \A s \in SUBSET S, v \in Nat : s # {} => step[s][v] \in Nat
    BY <1>3
  <2>3. 0 \in Nat
    OBVIOUS
  <2> HIDE DEF step, pick, iter
  <2> QED BY <2>1, <2>2, <2>3, SubsetRecursion
<1>5. PICK f : /\ f \in [SUBSET S -> Nat]
               /\ \A s \in SUBSET S : f[s] = IF s = {} THEN 0 ELSE step[s][f[s \ {pick[s]}]]
  BY <1>4 DEF Folds
<1>6. ASSUME NEW s \in SUBSET S, s # {}
      PROVE  f[s] = (CHOOSE x \in s : TRUE).size + f[s \ {CHOOSE x \in s : TRUE}]
  <2>1. f[s \ {pick[s]}] \in Nat
    BY <1>5
  <2>2. f[s] = pick[s].size + f[s \ {pick[s]}]
    <3> HIDE DEF step, pick
    <3> QED BY <1>3, <1>5, <1>6, <2>1
  <2> QED BY <1>1, <1>6, <2>2
<1>7. f[{}] = 0
  BY <1>5
<1>8. f = [s \in SUBSET S |-> IF s = {} THEN 0
             ELSE (CHOOSE x \in s : TRUE).size + f[s \ {CHOOSE x \in s : TRUE}]]
  <2> HIDE DEF step, pick
  <2> QED BY <1>5, <1>6, <1>7
<1>9. iter = [s \in SUBSET S |-> IF s = {} THEN 0
                ELSE (CHOOSE x \in s : TRUE).size + iter[s \ {CHOOSE x \in s : TRUE}]]
  BY <1>8
<1>10. TotalSize(S) = iter[S]
  BY DEF TotalSize, MapThenSumSet, MapThenFoldSet
<1>11. /\ iter \in [SUBSET S -> Nat] /\ iter[{}] = 0
       /\ \A s \in SUBSET S : s # {} =>
            iter[s] = (CHOOSE x \in s : TRUE).size + iter[s \ {CHOOSE x \in s : TRUE}]
  <2> HIDE DEF iter
  <2>1. iter[{}] = 0
    BY <1>9
  <2>2. \A s \in SUBSET S : s # {} =>
            iter[s] = (CHOOSE x \in s : TRUE).size + iter[s \ {CHOOSE x \in s : TRUE}]
    BY <1>9
  <2> DEFINE T == {s \in SUBSET S : iter[s] \in Nat}
  <2>3. \A s \in SUBSET S : (\A x \in s : s \ {x} \in T) => s \in T
    <3>1. ASSUME NEW s \in SUBSET S, \A x \in s : s \ {x} \in T PROVE iter[s] \in Nat
      <4>1. CASE s = {}
        BY <2>1, <4>1
      <4>2. CASE s # {}
        <5> DEFINE x == CHOOSE x \in s : TRUE
        <5>1. x \in s
          BY <4>2
        <5>2. x.size \in Nat /\ iter[s \ {x}] \in Nat /\ iter[s] = x.size + iter[s \ {x}]
          BY <1>2, <2>2, <3>1, <4>2, <5>1
        <5> HIDE DEF x
        <5> QED BY <5>2
      <4> QED BY <4>1, <4>2
    <3> QED BY <3>1
  <2>4. SUBSET S \subseteq T
    <3> HIDE DEF T
    <3> QED BY <2>3, AllSubsets
  <2>5. iter \in [SUBSET S -> Nat]
    <3>1. \A s \in SUBSET S : iter[s] \in Nat
      BY <2>4
    <3> QED BY <1>9, <3>1
  <2> QED BY <2>1, <2>2, <2>5
<1> HIDE DEF iter
<1> QED BY <1>10, <1>11

LEMMA SumSteps ==
  ASSUME NEW S \in SUBSET Block, IsFiniteSet(S)
  PROVE  /\ TotalSize(S) \in Nat
         /\ S = {} => TotalSize(S) = 0
         /\ S # {} => LET x == CHOOSE x \in S : TRUE IN
                      TotalSize(S) = x.size + TotalSize(S \ {x})
<1>1. PICK f : /\ f \in [SUBSET S -> Nat]
               /\ f[{}] = 0
               /\ \A s \in SUBSET S : s # {} =>
                    LET x == CHOOSE x \in s : TRUE IN f[s] = x.size + f[s \ {x}]
               /\ TotalSize(S) = f[S]
  BY SumFacts
<1>2. TotalSize(S) \in Nat
  BY <1>1
<1>3. S = {} => TotalSize(S) = 0
  BY <1>1
<1> DEFINE x == CHOOSE x \in S : TRUE
           R == S \ {x}
<1>4. ASSUME S # {} PROVE TotalSize(S) = x.size + TotalSize(R)
  <2>1. f[S] = x.size + f[R]
    BY <1>1, <1>4
  <2>2. R \in SUBSET Block /\ IsFiniteSet(R) /\ R \in SUBSET S
    BY FS_Subset
  <2> HIDE DEF R, x
  <2>3. PICK g : /\ g \in [SUBSET R -> Nat]
                 /\ g[{}] = 0
                 /\ \A s \in SUBSET R : s # {} =>
                      LET y == CHOOSE y \in s : TRUE IN g[s] = y.size + g[s \ {y}]
                 /\ TotalSize(R) = g[R]
    BY <2>2, SumFacts
  <2> DEFINE T == {s \in SUBSET R : f[s] = g[s]}
  <2>4. \A s \in SUBSET R : (\A y \in s : s \ {y} \in T) => s \in T
    <3>1. ASSUME NEW s \in SUBSET R, \A y \in s : s \ {y} \in T PROVE f[s] = g[s]
      <4>1. CASE s = {}
        BY <1>1, <2>3, <4>1
      <4>2. CASE s # {}
        <5> DEFINE y == CHOOSE y \in s : TRUE
        <5>1. y \in s /\ s \in SUBSET S
          BY <2>2, <4>2
        <5>2. f[s] = y.size + f[s \ {y}] /\ g[s] = y.size + g[s \ {y}]
          BY <1>1, <2>3, <4>2, <5>1
        <5> HIDE DEF y
        <5> QED BY <3>1, <5>1, <5>2
      <4> QED BY <4>1, <4>2
    <3> QED BY <3>1
  <2>5. SUBSET R \subseteq T
    <3> HIDE DEF T
    <3> QED BY <2>2, <2>4, AllSubsets
  <2>6. f[R] = g[R]
    BY <2>5
  <2> QED BY <1>1, <2>1, <2>3, <2>6
<1> QED BY <1>2, <1>3, <1>4

LEMMA SizeFacts ==
  ASSUME NEW S \in SUBSET Block, IsFiniteSet(S)
  PROVE  /\ TotalSize(S) \in Nat
         /\ S = {} => TotalSize(S) = 0
         /\ \A b \in S : TotalSize(S) = b.size + TotalSize(S \ {b})
<1> DEFINE T == {s \in SUBSET S : \A b \in s : TotalSize(s) = b.size + TotalSize(s \ {b})}
<1>1. ASSUME NEW s \in SUBSET S
      PROVE  /\ s \in SUBSET Block /\ IsFiniteSet(s) /\ TotalSize(s) \in Nat
             /\ s # {} => LET x == CHOOSE x \in s : TRUE IN
                          TotalSize(s) = x.size + TotalSize(s \ {x})
  <2>1. s \in SUBSET Block /\ IsFiniteSet(s)
    BY FS_Subset
  <2> QED BY <2>1, SumSteps
<1>2. ASSUME NEW s \in SUBSET S, \A x \in s : s \ {x} \in T, NEW b \in s
      PROVE  TotalSize(s) = b.size + TotalSize(s \ {b})
  <2> DEFINE c == CHOOSE x \in s : TRUE
  <2>1. c \in s /\ TotalSize(s) = c.size + TotalSize(s \ {c})
    BY <1>1
  <2> HIDE DEF c
  <2>2. CASE c = b
    BY <2>1, <2>2
  <2>3. CASE c # b
    <3>1. b \in s \ {c} /\ c \in s \ {b} /\ (s \ {c}) \ {b} = (s \ {b}) \ {c}
      BY <2>1, <2>3
    <3>2. TotalSize(s \ {c}) = b.size + TotalSize((s \ {c}) \ {b})
      BY <1>2, <2>1, <3>1
    <3>3. TotalSize(s \ {b}) = c.size + TotalSize((s \ {b}) \ {c})
      BY <1>2, <3>1
    <3>4. /\ b.size \in Nat /\ c.size \in Nat
          /\ TotalSize((s \ {b}) \ {c}) \in Nat
      <4>1. b \in Block /\ c \in Block /\ (s \ {b}) \ {c} \in SUBSET S
        BY <2>1
      <4> QED BY <1>1, <4>1 DEF Block
    <3>5. TotalSize(s \ {c}) = b.size + TotalSize((s \ {b}) \ {c})
      BY <3>1, <3>2
    <3> DEFINE rest == TotalSize((s \ {b}) \ {c})
    <3>6. c.size + (b.size + rest) = b.size + (c.size + rest)
      <4> HIDE DEF rest
      <4>1. rest \in Nat
        BY <3>4 DEF rest
      <4> QED BY <3>4, <4>1
    <3> HIDE DEF T
    <3> QED BY <2>1, <3>3, <3>5, <3>6, Zenon
  <2> QED BY <2>2, <2>3
<1>3. SUBSET S \subseteq T
  <2>1. \A s \in SUBSET S : (\A x \in s : s \ {x} \in T) => s \in T
    BY <1>2
  <2> HIDE DEF T
  <2> QED BY <2>1, AllSubsets
<1>4. S \in T
  BY <1>3
<1> QED BY <1>4, SumSteps

\* What the counters should say of a set changes with it as Tracked and
\* Untracked do.
LEMMA TallyFacts ==
  ASSUME NEW S \in SUBSET Block, IsFiniteSet(S)
  PROVE  /\ Tally({}) = NothingCounted
         /\ \A b \in Block \ S : Tally(S \cup {b}) = Tracked(Tally(S), b.size, b.tag)
         /\ \A b \in S : Tally(S \ {b}) = Untracked(Tally(S), b.size, b.tag)
<1> DEFINE Of(R, g) == {b \in R : b.tag = g}
<1>0. ASSUME NEW R \in SUBSET Block, IsFiniteSet(R)
      PROVE  /\ Cardinality(R) \in Nat /\ TotalSize(R) \in Nat
             /\ \A g : Of(R, g) \in SUBSET Block /\ IsFiniteSet(Of(R, g)) /\ TotalSize(Of(R, g)) \in Nat
  <2>1. \A g : Of(R, g) \in SUBSET Block /\ IsFiniteSet(Of(R, g))
    BY <1>0, FS_Subset
  <2> HIDE DEF Of
  <2> QED BY <1>0, <2>1, SizeFacts, FS_CardinalityType
<1>1. ASSUME NEW R \in SUBSET Block, IsFiniteSet(R), NEW b \in Block, b \notin R
      PROVE  /\ Cardinality(R \cup {b}) = Cardinality(R) + 1
             /\ TotalSize(R \cup {b}) = TotalSize(R) + b.size
             /\ b.size \in Nat /\ b.tag \in AllTags
             /\ IsFiniteSet(R \cup {b}) /\ R \cup {b} \in SUBSET Block
  <2>1. IsFiniteSet(R \cup {b}) /\ Cardinality(R \cup {b}) = Cardinality(R) + 1
    BY <1>1, FS_AddElement
  <2>2. b.size \in Nat /\ b.tag \in AllTags
    BY DEF Block
  <2>3. (R \cup {b}) \ {b} = R /\ R \cup {b} \in SUBSET Block /\ b \in R \cup {b}
    BY <1>1
  <2>4. TotalSize(R \cup {b}) = b.size + TotalSize((R \cup {b}) \ {b})
    BY <2>1, <2>3, SizeFacts
  <2>5. TotalSize(R) \in Nat
    BY <1>0, <1>1
  <2>6. TotalSize(R \cup {b}) = b.size + TotalSize(R)
    BY <2>3, <2>4
  <2> QED BY <2>1, <2>2, <2>3, <2>5, <2>6
<1>2. ASSUME NEW R \in SUBSET Block, IsFiniteSet(R), NEW b \in Block, b \notin R
      PROVE  \A g \in AllTags : TotalSize(Of(R \cup {b}, g)) =
               IF g = b.tag THEN TotalSize(Of(R, g)) + b.size ELSE TotalSize(Of(R, g))
  <2>1. ASSUME NEW g \in AllTags, g = b.tag
        PROVE  TotalSize(Of(R \cup {b}, g)) = TotalSize(Of(R, g)) + b.size
    <3>1. Of(R \cup {b}, g) = Of(R, g) \cup {b} /\ b \notin Of(R, g)
      BY <1>2, <2>1
    <3>2. Of(R, g) \in SUBSET Block /\ IsFiniteSet(Of(R, g))
      BY <1>0, <1>2
    <3> HIDE DEF Of
    <3> QED BY <1>1, <3>1, <3>2
  <2>2. ASSUME NEW g \in AllTags, g # b.tag
        PROVE  Of(R \cup {b}, g) = Of(R, g)
    BY <2>2
  <2> HIDE DEF Of
  <2> QED BY <2>1, <2>2
<1>3. ASSUME NEW R \in SUBSET Block, IsFiniteSet(R), NEW b \in Block, b \notin R
      PROVE  /\ Tally(R \cup {b}) = Tracked(Tally(R), b.size, b.tag)
             /\ Tally(R) = Untracked(Tally(R \cup {b}), b.size, b.tag)
  <2> DEFINE old == [g \in AllTags |-> TotalSize(Of(R, g))]
             new == [g \in AllTags |-> TotalSize(Of(R \cup {b}, g))]
             k == Cardinality(R)
             n == TotalSize(R)
  <2>1. /\ Tally(R) = [count |-> k, total |-> n, tagged |-> old]
        /\ Tally(R \cup {b}) = [count |-> k + 1, total |-> n + b.size, tagged |-> new]
    BY <1>1, <1>3 DEF Tally
  <2>2. k \in Nat /\ n \in Nat /\ b.size \in Nat /\ b.tag \in AllTags
        /\ \A g \in AllTags : TotalSize(Of(R, g)) \in Nat
    BY <1>0, <1>1, <1>3
  <2>3. \A g \in AllTags : new[g] = IF g = b.tag THEN old[g] + b.size ELSE old[g]
    <3>1. \A g \in AllTags : new[g] = TotalSize(Of(R \cup {b}, g)) /\ old[g] = TotalSize(Of(R, g))
      OBVIOUS
    <3> HIDE DEF new, old, Of
    <3> QED BY <1>2, <1>3, <3>1
  <2>4. new = [new EXCEPT ![b.tag] = new[b.tag]] /\ old = [old EXCEPT ![b.tag] = old[b.tag]]
    OBVIOUS
  <2>5. \A g \in AllTags : old[g] \in Nat
    BY <2>2
  <2>6. new = [old EXCEPT ![b.tag] = @ + b.size]
    <3>1. DOMAIN new = AllTags /\ DOMAIN old = AllTags /\ new = [g \in AllTags |-> new[g]]
      OBVIOUS
    <3> HIDE DEF new, old, Of
    <3> QED BY <2>2, <2>3, <3>1
  <2>7. old = [new EXCEPT ![b.tag] = @ - b.size]
    <3>1. DOMAIN new = AllTags /\ DOMAIN old = AllTags /\ old = [g \in AllTags |-> old[g]]
      OBVIOUS
    <3> HIDE DEF new, old, Of
    <3>2. \A g \in AllTags : old[g] = IF g = b.tag THEN new[g] - b.size ELSE new[g]
      BY <2>2, <2>3, <2>5
    <3> QED BY <2>2, <3>1, <3>2
  <2> HIDE DEF old, new, k, n
  <2>8. Tally(R \cup {b}) = Tracked(Tally(R), b.size, b.tag)
    BY <2>1, <2>6 DEF Tracked
  <2>9. (k + 1) - 1 = k /\ (n + b.size) - b.size = n
    BY <2>2
  <2>10. Tally(R) = Untracked(Tally(R \cup {b}), b.size, b.tag)
    <3> DEFINE r == Tally(R \cup {b})
    <3>1. r.count = k + 1 /\ r.total = n + b.size /\ r.tagged = new
      BY <2>1
    <3> HIDE DEF r
    <3>2. Untracked(r, b.size, b.tag) = [count |-> k, total |-> n, tagged |-> old]
      BY <2>7, <2>9, <3>1 DEF Untracked
    <3> QED BY <2>1, <3>2 DEF r
  <2> QED BY <2>8, <2>10
<1>4. Tally({}) = NothingCounted
  <2>1. \A g : Of({}, g) = {}
    OBVIOUS
  <2>2. TotalSize({}) = 0 /\ Cardinality({}) = 0
    BY FS_EmptySet, SizeFacts
  <2> QED BY <2>1, <2>2 DEF Tally, NothingCounted
<1>5. \A b \in Block \ S : Tally(S \cup {b}) = Tracked(Tally(S), b.size, b.tag)
  BY <1>3
<1>6. ASSUME NEW b \in S PROVE Tally(S \ {b}) = Untracked(Tally(S), b.size, b.tag)
  <2> DEFINE R == S \ {b}
  <2>1. R \in SUBSET Block /\ IsFiniteSet(R) /\ b \in Block /\ b \notin R /\ R \cup {b} = S
    BY FS_Subset
  <2> HIDE DEF R
  <2>2. Tally(R) = Untracked(Tally(R \cup {b}), b.size, b.tag)
    BY <1>3, <2>1
  <2> QED BY <2>1, <2>2 DEF R
<1> QED BY <1>4, <1>5, <1>6

-----------------------------------------------------------------------------
(***************************************************************************)
(* What a step does to the blocks that are counted.                        *)
(***************************************************************************)
LEMMA TopOfStack ==
  ASSUME MemoryInv, NEW t \in Threads, ~ Idle(t)
  PROVE  /\ stack[t] \in Seq(Act) /\ stack[t] # <<>> /\ Len(stack[t]) \in Nat \ {0}
         /\ Len(stack[t]) \in 1 .. Len(stack[t])
         /\ Top(t) = stack[t][Len(stack[t])] /\ Top(t) = Last(stack[t]) /\ Top(t) \in Act
         /\ \A i \in 1 .. Len(stack[t]) : stack[t][i] \in Act
<1>1. stack[t] \in Seq(Act) /\ stack[t] # <<>>
  BY DEF MemoryInv, StacksOK, Idle
<1>2. /\ Len(stack[t]) \in Nat \ {0} /\ Top(t) = stack[t][Len(stack[t])]
      /\ Top(t) = Last(stack[t]) /\ Top(t) \in Act
  BY <1>1, FrontFacts DEF Top
<1> QED BY <1>1, <1>2

LEMMA BecomeShape ==
  ASSUME MemoryInv, NEW t \in Threads, ~ Idle(t), NEW a \in Act, Become(t, a)
  PROVE  /\ \A u \in Threads \ {t} : stack'[u] = stack[u]
         /\ stack'[t] \in Seq(Act) /\ stack'[t] # <<>> /\ Len(stack'[t]) = Len(stack[t])
         /\ Last(stack'[t]) = a /\ stack'[t][Len(stack[t])] = a
         /\ \A i \in 1 .. Len(stack[t]) - 1 : stack'[t][i] = stack[t][i]
         /\ held' = held /\ reported' = reported /\ dead' = dead
<1> DEFINE s == stack[t]
           r == Append(Front(s), a)
<1>1. s \in Seq(Act) /\ s # <<>> /\ Len(s) \in Nat \ {0}
  BY TopOfStack
<1>2. Front(s) \in Seq(Act) /\ Len(Front(s)) = Len(s) - 1 /\ \A i \in 1 .. Len(s) - 1 : Front(s)[i] = s[i]
  BY <1>1, FrontFacts
<1>3. /\ r \in Seq(Act) /\ r # <<>> /\ Len(r) = Len(s) /\ Last(r) = a /\ r[Len(s)] = a
      /\ \A i \in 1 .. Len(s) - 1 : r[i] = s[i]
  <2>1. /\ r \in Seq(Act) /\ r # <<>> /\ Len(r) = (Len(s) - 1) + 1 /\ Last(r) = a
        /\ r[(Len(s) - 1) + 1] = a
        /\ \A i \in 1 .. Len(s) - 1 : r[i] = Front(s)[i]
    BY <1>2, AppendFacts
  <2>2. (Len(s) - 1) + 1 = Len(s)
    BY <1>1
  <2> HIDE DEF r, s
  <2> QED BY <1>2, <2>1, <2>2
<1>4. stack' = [stack EXCEPT ![t] = r] /\ held' = held /\ reported' = reported /\ dead' = dead
  BY DEF Become
<1> HIDE DEF r
<1>5. stack'[t] = r /\ \A u \in Threads \ {t} : stack'[u] = stack[u]
  BY <1>4 DEF MemoryInv, StacksOK
<1> QED BY <1>3, <1>4, <1>5

LEMMA CallShape ==
  ASSUME MemoryInv, NEW t \in Threads, ~ Idle(t), NEW a \in Act, NEW c \in Act,
         BecomeAndCall(t, a, c)
  PROVE  /\ held' = held /\ reported' = reported
         /\ \/ stack' = stack /\ dead' = TRUE /\ Len(stack[t]) >= MaxStack
            \/ /\ dead' = dead
               /\ \A u \in Threads \ {t} : stack'[u] = stack[u]
               /\ stack'[t] \in Seq(Act) /\ stack'[t] # <<>>
               /\ Len(stack'[t]) = Len(stack[t]) + 1
               /\ Last(stack'[t]) = c /\ stack'[t][Len(stack[t]) + 1] = c
               /\ stack'[t][Len(stack[t])] = a
               /\ \A i \in 1 .. Len(stack[t]) - 1 : stack'[t][i] = stack[t][i]
<1>1. held' = held /\ reported' = reported
  BY DEF BecomeAndCall
<1>2. stack[t] \in Seq(Act) /\ stack[t] # <<>> /\ Len(stack[t]) \in Nat \ {0} /\ MaxStack \in Nat
  BY TopOfStack, MemoryAssumption
<1>3. CASE ~ (Len(stack[t]) < MaxStack)
  <2>1. stack' = stack /\ dead' = TRUE /\ Len(stack[t]) >= MaxStack
    BY <1>2, <1>3 DEF BecomeAndCall
  <2> QED BY <1>1, <2>1
<1>4. CASE Len(stack[t]) < MaxStack
  <2> DEFINE s == stack[t]
             q == Append(Front(s), a)
             r == Append(q, c)
  <2>1. Front(s) \in Seq(Act) /\ Len(Front(s)) = Len(s) - 1 /\ \A i \in 1 .. Len(s) - 1 : Front(s)[i] = s[i]
    BY <1>2, FrontFacts
  <2>2. (Len(s) - 1) + 1 = Len(s) /\ Len(s) \in 1 .. Len(s)
        /\ \A i \in 1 .. Len(s) - 1 : i \in 1 .. Len(s)
    BY <1>2
  <2> HIDE DEF s
  <2>3. /\ q \in Seq(Act) /\ Len(q) = Len(s) /\ q[Len(s)] = a
        /\ \A i \in 1 .. Len(s) - 1 : q[i] = s[i]
    <3>1. /\ q \in Seq(Act) /\ Len(q) = (Len(s) - 1) + 1
          /\ q[(Len(s) - 1) + 1] = a
          /\ \A i \in 1 .. Len(s) - 1 : q[i] = Front(s)[i]
      BY <2>1, AppendFacts
    <3> HIDE DEF q
    <3> QED BY <2>1, <2>2, <3>1
  <2> HIDE DEF q
  <2>4. /\ r \in Seq(Act) /\ r # <<>> /\ Len(r) = Len(s) + 1 /\ Last(r) = c /\ r[Len(s) + 1] = c
        /\ r[Len(s)] = a /\ \A i \in 1 .. Len(s) - 1 : r[i] = s[i]
    <3>1. /\ r \in Seq(Act) /\ r # <<>> /\ Len(r) = Len(q) + 1 /\ Last(r) = c
          /\ r[Len(q) + 1] = c
          /\ \A i \in 1 .. Len(q) : r[i] = q[i]
      BY <2>3, AppendFacts
    <3> HIDE DEF r
    <3> QED BY <2>2, <2>3, <3>1
  <2>5. stack' = [stack EXCEPT ![t] = r] /\ dead' = dead
    BY <1>4 DEF BecomeAndCall, r, q, s
  <2> HIDE DEF r
  <2>6. stack'[t] = r /\ \A u \in Threads \ {t} : stack'[u] = stack[u]
    BY <2>5 DEF MemoryInv, StacksOK
  <2> QED BY <1>1, <2>4, <2>5, <2>6 DEF s
<1> QED BY <1>3, <1>4

LEMMA ReturnShape ==
  ASSUME MemoryInv, NEW t \in Threads, ~ Idle(t), NEW a \in Act, Returns(t, a)
  PROVE  /\ \A u \in Threads \ {t} : stack'[u] = stack[u]
         /\ stack'[t] \in Seq(Act) /\ Len(stack'[t]) = Len(stack[t]) - 1
         /\ Len(stack[t]) = 1 => stack'[t] = <<>>
         /\ Len(stack[t]) # 1 =>
              /\ stack'[t] # <<>> /\ Last(stack'[t]) = stack'[t][Len(stack[t]) - 1]
              /\ Last(stack'[t]) = [stack[t][Len(stack[t]) - 1] EXCEPT !.got = a.got]
              /\ Len(stack[t]) - 1 \in 1 .. Len(stack[t]) - 1
              /\ \A i \in 1 .. Len(stack[t]) - 2 : stack'[t][i] = stack[t][i]
         /\ reported' = (IF a.proc = "report" THEN reported \cup {a.block} ELSE reported)
         /\ dead' = dead
<1> DEFINE s == stack[t]
           n == Len(s) - 1
           r == Left(t, a.got)
<1>1. s \in Seq(Act) /\ s # <<>> /\ Len(s) \in Nat \ {0}
  BY TopOfStack
<1>2. Front(s) \in Seq(Act) /\ Len(Front(s)) = n /\ \A i \in 1 .. n : Front(s)[i] = s[i]
  BY <1>1, FrontFacts
<1>3. /\ stack'[t] = r /\ \A u \in Threads \ {t} : stack'[u] = stack[u]
      /\ dead' = dead /\ r \in Seq(Act)
  BY ReturnsInv
<1>4. reported' = (IF a.proc = "report" THEN reported \cup {a.block} ELSE reported)
  BY DEF Returns
<1>5. CASE Len(s) = 1
  <2>1. r = <<>> /\ Len(<<>>) = 0
    BY <1>5 DEF Left
  <2> HIDE DEF r
  <2> QED BY <1>3, <1>4, <1>5, <2>1
<1>6. CASE Len(s) # 1
  <2>1. r = [Front(s) EXCEPT ![n].got = a.got]
    BY <1>6 DEF Left, Answered
  <2>2. n \in 1 .. n /\ n \in Nat /\ \A i \in 1 .. Len(s) - 2 : i \in 1 .. n /\ i # n
    <3> DEFINE m == Len(s)
    <3>1. m \in Nat \ {0} /\ m # 1
      BY <1>1, <1>6
    <3> HIDE DEF m
    <3>2. m - 1 \in Nat /\ m - 1 \in 1 .. m - 1 /\ \A i \in 1 .. m - 2 : i \in 1 .. m - 1 /\ i # m - 1
      BY <3>1
    <3> QED BY <3>2 DEF m
  <2> HIDE DEF n, r
  <2>3. /\ DOMAIN Front(s) = 1 .. n
    BY <1>2
  <2>4. /\ r[n] = [Front(s)[n] EXCEPT !.got = a.got] /\ DOMAIN r = 1 .. n
        /\ \A i \in 1 .. n : i # n => r[i] = Front(s)[i]
    BY <2>1, <2>2, <2>3
  <2>5. Len(r) = n /\ r # <<>> /\ Last(r) = r[n]
    BY <1>3, <2>2, <2>4 DEF Last
  <2> QED BY <1>2, <1>3, <1>4, <1>6, <2>2, <2>4, <2>5 DEF n
<1> QED BY <1>5, <1>6

\* The step leaves the reports alone, and t frees what is allocated.
Keeps(t) ==
  /\ \A u \in Threads \ {t} : stack'[u] = stack[u]
  /\ Alone(stack'[t])
  /\ \A i \in 1 .. Len(stack'[t]) :
       /\ Faithful(stack'[t][i])
       /\ stack'[t][i].proc = "free" /\ stack'[t][i].at = "logged" => strays' > 0
  /\ Reports(stack'[t]) = Reports(stack[t])
  /\ Frees(stack'[t]) \subseteq Frees(stack[t]) \cup Allocated
  /\ reported' = reported

\* Only the innermost activation can be a report.
LEMMA NoReportBelow ==
  ASSUME MemoryInv, CountInv, NEW t \in Threads, ~ Idle(t), ~ Reporting(Top(t))
  PROVE  \A i \in 1 .. Len(stack[t]) : ~ Reporting(stack[t][i])
<1>1. ASSUME NEW i \in 1 .. Len(stack[t]), Reporting(stack[t][i]) PROVE FALSE
  <2>1. Len(stack[t]) = 1
    BY <1>1 DEF CountInv, Fine, Alone
  <2>2. Top(t) = stack[t][1] /\ i = 1
    BY <2>1, TopOfStack
  <2> QED BY <1>1, <2>2
<1> QED BY <1>1

LEMMA TopCounts ==
  ASSUME MemoryInv, NEW t \in Threads, ~ Idle(t)
  PROVE  /\ Counts(stack[t]) = IF Counted(Top(t)) THEN {Top(t).block} ELSE {}
         /\ Reports(stack[t]) = IF Reporting(Top(t)) THEN {Top(t).block} ELSE {}
BY TopOfStack DEF Counts, Reports

LEMMA BecomeKeeps ==
  ASSUME MemoryInv, CountInv, NEW t \in Threads, ~ Idle(t), NEW a \in Act, Become(t, a),
         a.proc = Top(t).proc, a.size = Top(t).size, a.tag = Top(t).tag, a.block = Top(t).block,
         strays' \in {strays, strays + 1}, a.proc = "free" /\ a.at = "logged" => strays' > 0
  PROVE  /\ Keeps(t)
         /\ Counts(stack'[t]) = IF Counted(a) THEN {a.block} ELSE {}
<1> DEFINE s == stack[t]
           r == stack'[t]
           n == Len(stack[t])
<1>1. /\ \A u \in Threads \ {t} : stack'[u] = stack[u]
      /\ r # <<>> /\ Len(r) = n /\ Last(r) = a /\ r[n] = a
      /\ \A i \in 1 .. n - 1 : r[i] = s[i]
      /\ reported' = reported
  BY BecomeShape
<1>2. n \in Nat \ {0} /\ s # <<>> /\ s[n] = Top(t) /\ Last(s) = Top(t) /\ n \in 1 .. n
  BY TopOfStack
<1>3. /\ Alone(s) /\ strays \in Nat
      /\ \A i \in 1 .. n : Faithful(s[i]) /\ (s[i].proc = "free" /\ s[i].at = "logged" => strays > 0)
  BY DEF CountInv, Fine, MemoryInv, ScalarsOK
<1> HIDE DEF s, r, n
<1>4. \A i \in 1 .. n : i = n \/ i \in 1 .. n - 1
  BY <1>2
<1>5. /\ \A i \in 1 .. n : r[i].proc = s[i].proc /\ r[i].block = s[i].block
      /\ \A i \in 1 .. n : Reporting(r[i]) <=> Reporting(s[i])
  BY <1>1, <1>2, <1>4 DEF Reporting
<1>6. Alone(r)
  BY <1>1, <1>3, <1>5 DEF Alone, n, s
<1>7. \A i \in 1 .. n : Faithful(r[i])
  <2>1. Faithful(a)
    BY <1>2, <1>3 DEF Faithful
  <2> QED BY <1>1, <1>3, <1>4, <2>1
<1>8. \A i \in 1 .. n : r[i].proc = "free" /\ r[i].at = "logged" => strays' > 0
  BY <1>1, <1>3, <1>4
<1>9. Reports(r) = Reports(s) /\ Counts(r) = IF Counted(a) THEN {a.block} ELSE {}
  BY <1>1, <1>2 DEF Reports, Reporting, Counts
<1>10. Frees(r) = Frees(s)
  <2>1. n = Len(s) /\ Len(r) = n
    BY <1>1 DEF n, s
  <2> QED BY <1>5, <2>1 DEF Frees
<1> QED BY <1>1, <1>6, <1>7, <1>8, <1>9, <1>10 DEF Keeps, s, r

LEMMA CallKeeps ==
  ASSUME MemoryInv, CountInv, NEW t \in Threads, ~ Idle(t), NEW a \in Act, NEW c \in Act,
         BecomeAndCall(t, a, c), a.proc = Top(t).proc, ~ Reporting(Top(t)),
         a.proc = "free" => a.size = Top(t).size /\ a.tag = Top(t).tag /\ a.block = Top(t).block,
         strays' \in {strays, strays + 1}, a.proc = "free" /\ a.at = "logged" => strays' > 0,
         ~ Reporting(c), ~ Counted(c),
         c.proc = "free" => Faithful(c) /\ c.block \in Allocated /\ c.at # "logged",
         ~ Counted(Top(t))
  PROVE  Keeps(t) /\ Counts(stack'[t]) = {} /\ Counts(stack[t]) = {}
<1> DEFINE s == stack[t]
           r == stack'[t]
           n == Len(stack[t])
<1>1. n \in Nat \ {0} /\ s # <<>> /\ s[n] = Top(t) /\ Last(s) = Top(t) /\ n \in 1 .. n
  BY TopOfStack
<1>2. /\ Alone(s) /\ strays \in Nat
      /\ \A i \in 1 .. n : Faithful(s[i]) /\ (s[i].proc = "free" /\ s[i].at = "logged" => strays > 0)
      /\ \A i \in 1 .. n : ~ Reporting(s[i])
  BY NoReportBelow DEF CountInv, Fine, MemoryInv, ScalarsOK
<1>3. Counts(s) = {} /\ Reports(s) = {}
  BY <1>1 DEF Counts, Reports
<1>4. CASE stack' = stack
  <2>1. Keeps(t)
    <3>1. reported' = reported
      BY CallShape
    <3>2. strays > 0 => strays' > 0
      BY <1>2
    <3> QED BY <1>2, <1>4, <3>1, <3>2 DEF Keeps
  <2> QED BY <1>3, <1>4, <2>1
<1>5. CASE stack' # stack
  <2>1. /\ \A u \in Threads \ {t} : stack'[u] = stack[u]
        /\ r # <<>> /\ Len(r) = n + 1 /\ Last(r) = c /\ r[n + 1] = c /\ r[n] = a
        /\ \A i \in 1 .. n - 1 : r[i] = s[i]
        /\ reported' = reported
    <3>1. /\ held' = held /\ reported' = reported
          /\ \/ stack' = stack /\ dead' = TRUE /\ Len(stack[t]) >= MaxStack
             \/ /\ dead' = dead
                /\ \A u \in Threads \ {t} : stack'[u] = stack[u]
                /\ stack'[t] \in Seq(Act) /\ stack'[t] # <<>>
                /\ Len(stack'[t]) = Len(stack[t]) + 1
                /\ Last(stack'[t]) = c /\ stack'[t][Len(stack[t]) + 1] = c
                /\ stack'[t][Len(stack[t])] = a
                /\ \A i \in 1 .. Len(stack[t]) - 1 : stack'[t][i] = stack[t][i]
      BY CallShape
    <3>2. stack' # stack
      BY <1>5
    <3> QED BY <3>1, <3>2
  <2> HIDE DEF s, r, n
  <2>2. \A i \in 1 .. n + 1 : i = n + 1 \/ i = n \/ i \in 1 .. n - 1
    BY <1>1
  <2>2a. \A i \in 1 .. n - 1 : i \in 1 .. n
    BY <1>1
  <2>3. \A i \in 1 .. n + 1 : ~ Reporting(r[i])
    BY <1>1, <1>2, <2>1, <2>2, <2>2a DEF Reporting
  <2>4. Alone(r)
    BY <2>1, <2>3 DEF Alone
  <2>5. \A i \in 1 .. n + 1 : Faithful(r[i])
    <3>1. Faithful(a) /\ Faithful(c)
      <4>1. c.proc # "report" /\ c.proc # "free_report" /\ a.proc # "report" /\ a.proc # "free_report"
        BY DEF Reporting
      <4>2. Faithful(Top(t))
        BY <1>1, <1>2
      <4> QED BY <4>1, <4>2 DEF Faithful
    <3> QED BY <1>2, <2>1, <2>2, <2>2a, <3>1
  <2>6. \A i \in 1 .. n + 1 : r[i].proc = "free" /\ r[i].at = "logged" => strays' > 0
    BY <1>2, <2>1, <2>2, <2>2a
  <2>7. Reports(r) = {} /\ Counts(r) = {}
    BY <2>1 DEF Reports, Counts
  <2>8. Frees(r) \subseteq Frees(s) \cup Allocated
    <3>1. ASSUME NEW i \in 1 .. n + 1, r[i].proc = "free"
          PROVE  r[i].block \in Frees(s) \cup Allocated
      <4>1. CASE i = n + 1
        BY <2>1, <3>1, <4>1
      <4>2. CASE i = n
        <5>1. s[n].proc = "free" /\ r[i].block = s[n].block /\ n \in 1 .. n
          BY <1>1, <2>1, <3>1, <4>2
        <5> QED BY <5>1 DEF Frees, n, s
      <4>3. CASE i \in 1 .. n - 1
        <5>1. i \in 1 .. n /\ s[i] = r[i]
          BY <2>1, <2>2a, <4>3
        <5> QED BY <3>1, <5>1 DEF Frees, n, s
      <4> QED BY <2>2, <4>1, <4>2, <4>3
    <3> QED BY <2>1, <3>1 DEF Frees
  <2> QED BY <1>3, <2>1, <2>4, <2>5, <2>6, <2>7, <2>8 DEF Keeps, s, r
<1> QED BY <1>4, <1>5

LEMMA ReturnKeeps ==
  ASSUME MemoryInv, CountInv, NEW t \in Threads, ~ Idle(t), NEW a \in Act, Returns(t, a),
         a.proc = Top(t).proc, ~ Reporting(Top(t)), strays' = strays
  PROVE  Keeps(t) /\ Counts(stack'[t]) = {}
<1> DEFINE s == stack[t]
           r == stack'[t]
           n == Len(stack[t])
           m == Len(stack[t]) - 1
<1>1. n \in Nat \ {0} /\ s # <<>> /\ s[n] = Top(t) /\ Last(s) = Top(t) /\ n \in 1 .. n
      /\ \A i \in 1 .. n : s[i] \in Act
  BY TopOfStack
<1>2. /\ Alone(s)
      /\ \A i \in 1 .. n : Faithful(s[i]) /\ (s[i].proc = "free" /\ s[i].at = "logged" => strays > 0)
      /\ \A i \in 1 .. n : ~ Reporting(s[i])
      /\ \A i \in 1 .. n - 1 : s[i].at # "loaded"
  BY NoReportBelow DEF CountInv, Fine, MemoryInv, StacksOK, LoadedOnTop
<1>3. Reports(s) = {}
  BY <1>1 DEF Reports
<1>4. /\ \A u \in Threads \ {t} : stack'[u] = stack[u]
      /\ Len(r) = m /\ n = 1 => r = <<>>
      /\ reported' = reported
  BY ReturnShape DEF Reporting
<1>4a. Len(r) = m
  BY ReturnShape
<1>5. CASE n = 1
  <2>1. r = <<>>
    BY <1>5, ReturnShape
  <2>2. Reports(r) = {} /\ Counts(r) = {} /\ Len(r) = 0
    BY <2>1 DEF Reports, Counts
  <2>3. Alone(r) /\ Frees(r) = {}
    BY <2>2 DEF Alone, Frees
  <2>4. reported' = reported
    BY ReturnShape DEF Reporting
  <2> QED BY <1>3, <1>4, <2>2, <2>3, <2>4 DEF Keeps
<1>6. CASE n # 1
  <2>1. /\ r # <<>> /\ Last(r) = r[m] /\ Last(r) = [s[m] EXCEPT !.got = a.got] /\ m \in 1 .. m
        /\ \A i \in 1 .. n - 2 : r[i] = s[i]
    BY <1>6, ReturnShape
  <2>1a. reported' = reported
    BY ReturnShape DEF Reporting
  <2> HIDE DEF s, r, n, m
  <2>2. m = n - 1 /\ m \in Nat
    BY <1>1 DEF m, n
  <2>3. \A i \in 1 .. m : i \in 1 .. n /\ i \in 1 .. n - 1 /\ (i = m \/ i \in 1 .. n - 2)
    BY <1>1, <2>2
  <2>4. /\ Last(r).proc = s[m].proc /\ Last(r).at = s[m].at /\ Last(r).block = s[m].block
        /\ Last(r).size = s[m].size /\ Last(r).tag = s[m].tag
    <3>1. s[m] \in Act
      BY <1>1, <2>1, <2>3
    <3> QED BY <2>1, <3>1 DEF Act, Frame
  <2>5. \A i \in 1 .. m : /\ r[i].proc = s[i].proc /\ r[i].at = s[i].at /\ r[i].block = s[i].block
                          /\ r[i].size = s[i].size /\ r[i].tag = s[i].tag
    BY <2>1, <2>3, <2>4
  <2>6. \A i \in 1 .. m : ~ Reporting(r[i])
    BY <1>2, <2>3, <2>5 DEF Reporting
  <2>7. \A i \in 1 .. m : Faithful(r[i]) /\ (r[i].proc = "free" /\ r[i].at = "logged" => strays' > 0)
    BY <1>2, <2>3, <2>5 DEF Faithful
  <2>8. Alone(r)
    BY <1>4a, <2>6 DEF Alone
  <2>9. Reports(r) = {} /\ Counts(r) = {}
    <3>1. ~ Reporting(Last(r)) /\ Last(r).at # "loaded"
      <4>1. m \in 1 .. n - 1 /\ Last(r) = r[m]
        BY <2>1, <2>3
      <4>2. r[m].at = s[m].at /\ s[m].at # "loaded" /\ ~ Reporting(r[m])
        BY <1>2, <2>1, <2>5, <2>6, <4>1
      <4> QED BY <4>1, <4>2
    <3>2. ~ Counted(Last(r))
      BY <3>1 DEF Reporting, Counted
    <3> QED BY <3>1, <3>2 DEF Reports, Counts
  <2>10. Frees(r) \subseteq Frees(s)
    <3>1. \A i \in 1 .. m : i \in 1 .. Len(s)
      BY <2>3 DEF n, s
    <3> QED BY <1>4a, <2>5, <3>1 DEF Frees
  <2> QED BY <1>3, <1>4, <1>4a, <2>1a, <2>7, <2>8, <2>9, <2>10 DEF Keeps, s, r
<1> QED BY <1>5, <1>6

\* Everything that counts has a name.
LEMMA NamedBlocks ==
  ASSUME MemoryInv
  PROVE  /\ Allocated \subseteq Named /\ reported \subseteq Named
         /\ \A u \in Threads : /\ Reports(stack[u]) \subseteq Named
                               /\ Frees(stack[u]) \subseteq Named
                               /\ Counts(stack[u]) \subseteq Named \cap Block
<1>1. Allocated \subseteq Named /\ reported \subseteq Named
  BY DEF Named, Allocated
<1>2. ASSUME NEW u \in Threads, NEW i \in 1 .. Len(stack[u])
      PROVE  stack[u][i].block \in Named
  <2>1. i \in DOMAIN stack[u]
    BY DEF MemoryInv, StacksOK
  <2> QED BY <2>1 DEF Named
<1>3. ASSUME NEW u \in Threads
      PROVE  /\ Reports(stack[u]) \subseteq Named
             /\ Counts(stack[u]) \subseteq Named \cap Block
  <2>1. CASE Idle(u)
    BY <2>1 DEF Idle, Reports, Counts
  <2>2. CASE ~ Idle(u)
    <3>1. /\ Len(stack[u]) \in 1 .. Len(stack[u]) /\ Top(u) = stack[u][Len(stack[u])]
          /\ Top(u) \in Act
      BY <2>2, TopOfStack
    <3>2. Top(u).block \in Named
      BY <1>2, <3>1
    <3>3. Counted(Top(u)) => Top(u).block \in Block
      BY <3>1 DEF Counted, Act, Sound, Frame
    <3> QED BY <2>2, <3>2, <3>3, TopCounts
  <2> QED BY <2>1, <2>2
<1>4. \A u \in Threads : Frees(stack[u]) \subseteq Named
  BY <1>2 DEF Frees
<1> QED BY <1>1, <1>3, <1>4

LEMMA BookedFacts ==
  ASSUME MemoryInv
  PROVE  Booked \in SUBSET Block /\ IsFiniteSet(Booked) /\ Booked \subseteq Named
<1>1. Booked \subseteq Named /\ Booked \subseteq Block
  BY NamedBlocks DEF Booked, Allocated, MemoryInv, BlocksOK
<1>2. IsFiniteSet(Booked)
  BY <1>1, NamedFinite, FS_Subset
<1> QED BY <1>1, <1>2

\* What the other threads add to the count.
Rest(t) == UNION {Counts(stack[u]) : u \in Threads \ {t}}

LEMMA BookedSplit ==
  ASSUME NEW t \in Threads
  PROVE  Booked = ((heap \cup reported) \cup Counts(stack[t])) \cup Rest(t)
BY DEF Booked, Rest

LEMMA BookedNext ==
  ASSUME NEW t \in Threads, \A u \in Threads \ {t} : stack'[u] = stack[u]
  PROVE  Booked' = ((heap' \cup reported') \cup Counts(stack'[t])) \cup Rest(t)
<1>1. Booked' = (heap' \cup reported') \cup UNION {Counts(stack'[u]) : u \in Threads}
  BY DEF Booked, Counts, Counted
<1>2. UNION {Counts(stack'[u]) : u \in Threads} = Counts(stack'[t]) \cup Rest(t)
  BY DEF Rest
<1> QED BY <1>1, <1>2

LEMMA CountsSteady ==
  ASSUME MemoryInv, CountInv, NEW t \in Threads, \A u \in Threads \ {t} : stack'[u] = stack[u],
         up' = up, refused' \in {refused, refused + 1}, strays' \in {strays, strays + 1},
         counters' = counters \/ refused' > 0 \/ strays' > 0,
         (heap' \cup reported') \cup Counts(stack'[t]) = (heap \cup reported) \cup Counts(stack[t])
  PROVE  CountsRight'
<1>1. Booked' = Booked
  BY BookedSplit, BookedNext
<1>2. refused \in Nat /\ strays \in Nat
  BY DEF MemoryInv, ScalarsOK
<1>3. ASSUME up', refused' = 0, strays' = 0 PROVE counters' = Tally(Booked')
  <2>1. up /\ refused = 0 /\ strays = 0 /\ counters' = counters
    BY <1>2, <1>3
  <2> QED BY <1>1, <2>1 DEF CountInv, CountsRight
<1> QED BY <1>3 DEF CountsRight

\* What is left to show of a step that leaves the reports alone.
LEMMA Steady ==
  ASSUME MemoryInv, CountInv, NEW t \in Threads, Keeps(t), up' = up,
         strays' \in {strays, strays + 1},
         NEW N, N \cap Named = {}, Allocated' \subseteq Allocated \cup N, CountsRight'
  PROVE  CountInv'
<1>1. /\ \A u \in Threads \ {t} : stack'[u] = stack[u]
      /\ Reports(stack'[t]) = Reports(stack[t])
      /\ Frees(stack'[t]) \subseteq Frees(stack[t]) \cup Allocated
      /\ reported' = reported
      /\ Alone(stack'[t])
      /\ \A i \in 1 .. Len(stack'[t]) :
           /\ Faithful(stack'[t][i])
           /\ stack'[t][i].proc = "free" /\ stack'[t][i].at = "logged" => strays' > 0
  BY DEF Keeps
<1>2. strays > 0 => strays' > 0
  BY DEF MemoryInv, ScalarsOK
<1>3. ASSUME NEW u \in Threads
      PROVE  /\ Alone(stack'[u])
             /\ \A i \in 1 .. Len(stack'[u]) :
                  /\ Faithful(stack'[u][i])
                  /\ stack'[u][i].proc = "free" /\ stack'[u][i].at = "logged" => strays' > 0
             /\ Reports(stack'[u]) # {} => up'
  <2>1. CASE u = t
    BY <1>1, <2>1 DEF CountInv
  <2>2. CASE u # t
    BY <1>1, <1>2, <2>2 DEF CountInv, Fine
  <2> QED BY <2>1, <2>2
<1>4. \A u \in Threads : /\ Reports(stack'[u]) = Reports(stack[u])
                         /\ Frees(stack'[u]) \subseteq Frees(stack[u]) \cup Allocated
  BY <1>1
<1>5. /\ reported \cap Allocated = {}
      /\ \A u \in Threads : Reports(stack[u]) \cap (reported \cup Allocated) = {}
      /\ \A u, v \in Threads : u # v => Reports(stack[u]) \cap Reports(stack[v]) = {}
      /\ \A u, v \in Threads : Frees(stack[u]) \cap (reported \cup Reports(stack[v])) = {}
  BY DEF CountInv, ReportsApart
<1>6. reported \cap N = {} /\ \A u \in Threads : Reports(stack[u]) \cap N = {}
  BY NamedBlocks
<1>7. /\ reported' \cap Allocated' = {}
      /\ \A u \in Threads : Reports(stack'[u]) \cap (reported' \cup Allocated') = {}
  BY <1>1, <1>4, <1>5, <1>6
<1>8. \A u, v \in Threads : u # v => Reports(stack'[u]) \cap Reports(stack'[v]) = {}
  BY <1>4, <1>5
<1>9. \A u, v \in Threads : Frees(stack'[u]) \cap (reported' \cup Reports(stack'[v])) = {}
  BY <1>1, <1>4, <1>5
<1>10. ReportsApart'
  BY <1>7, <1>8, <1>9 DEF ReportsApart, Allocated, Reports, Reporting, Frees
<1>11. ~ up' => reported' = {}
  BY <1>1 DEF CountInv
<1> QED BY <1>3, <1>10, <1>11 DEF CountInv, Fine, Alone, Faithful, Reports, Reporting

(***************************************************************************)
(* Steps that count nothing, by what becomes of the innermost activation.  *)
(***************************************************************************)
LEMMA QuietBecome ==
  ASSUME MemoryInv, CountInv, NEW t \in Threads, ~ Idle(t), NEW a \in Act, Become(t, a),
         a.proc = Top(t).proc, a.size = Top(t).size, a.tag = Top(t).tag, a.block = Top(t).block,
         Counted(a) <=> Counted(Top(t)), a.proc = "free" => a.at # "logged",
         up' = up, heap' = heap, foreign' \subseteq foreign, counters' = counters,
         refused' = refused, strays' = strays
  PROVE  CountInv'
<1>1. strays' \in {strays, strays + 1} /\ refused' \in {refused, refused + 1}
  OBVIOUS
<1>2. Keeps(t) /\ Counts(stack'[t]) = IF Counted(a) THEN {a.block} ELSE {}
  BY <1>1, BecomeKeeps
<1>3. /\ \A u \in Threads \ {t} : stack'[u] = stack[u]
      /\ reported' = reported
  BY <1>2 DEF Keeps
<1>4. Counts(stack'[t]) = Counts(stack[t])
  BY <1>2, TopCounts
<1>5. (heap' \cup reported') \cup Counts(stack'[t]) = (heap \cup reported) \cup Counts(stack[t])
  BY <1>3, <1>4
<1>6. CountsRight'
  BY <1>1, <1>3, <1>5, CountsSteady
<1>7. Allocated' \subseteq Allocated \cup {} /\ {} \cap Named = {}
  BY DEF Allocated
<1> QED BY <1>1, <1>2, <1>6, <1>7, Steady

LEMMA QuietCall ==
  ASSUME MemoryInv, CountInv, NEW t \in Threads, ~ Idle(t), NEW a \in Act, NEW c \in Act,
         BecomeAndCall(t, a, c), a.proc = Top(t).proc, ~ Reporting(Top(t)), ~ Counted(Top(t)),
         a.proc = "free" => a.size = Top(t).size /\ a.tag = Top(t).tag /\ a.block = Top(t).block,
         strays' \in {strays, strays + 1}, a.proc = "free" /\ a.at = "logged" => strays' > 0,
         ~ Reporting(c), ~ Counted(c),
         c.proc = "free" => Faithful(c) /\ c.block \in Allocated /\ c.at # "logged",
         up' = up, heap' = heap, foreign' = foreign, refused' \in {refused, refused + 1},
         counters' = counters \/ refused' > 0 \/ strays' > 0
  PROVE  CountInv'
<1>2. Keeps(t) /\ Counts(stack'[t]) = {} /\ Counts(stack[t]) = {}
  BY CallKeeps
<1>3. /\ \A u \in Threads \ {t} : stack'[u] = stack[u]
      /\ reported' = reported
  BY <1>2 DEF Keeps
<1>5. (heap' \cup reported') \cup Counts(stack'[t]) = (heap \cup reported) \cup Counts(stack[t])
  BY <1>2, <1>3
<1>6. CountsRight'
  BY <1>3, <1>5, CountsSteady
<1>7. Allocated' \subseteq Allocated \cup {} /\ {} \cap Named = {}
  BY DEF Allocated
<1> QED BY <1>2, <1>6, <1>7, Steady

LEMMA QuietReturn ==
  ASSUME MemoryInv, CountInv, NEW t \in Threads, ~ Idle(t), NEW a \in Act, Returns(t, a),
         a.proc = Top(t).proc, ~ Reporting(Top(t)), ~ Counted(Top(t)),
         NEW N, N \cap Named = {}, foreign' \subseteq foreign \cup N,
         up' = up, heap' = heap, counters' = counters, refused' = refused, strays' = strays
  PROVE  CountInv'
<1>1. strays' \in {strays, strays + 1} /\ refused' \in {refused, refused + 1}
  OBVIOUS
<1>2. Keeps(t) /\ Counts(stack'[t]) = {}
  BY ReturnKeeps
<1>3. /\ \A u \in Threads \ {t} : stack'[u] = stack[u]
      /\ reported' = reported
  BY <1>2 DEF Keeps
<1>4. Counts(stack[t]) = {}
  BY TopCounts
<1>5. (heap' \cup reported') \cup Counts(stack'[t]) = (heap \cup reported) \cup Counts(stack[t])
  BY <1>2, <1>3, <1>4
<1>6. CountsRight'
  BY <1>1, <1>3, <1>5, CountsSteady
<1>7. Allocated' \subseteq Allocated \cup N
  BY DEF Allocated
<1> QED BY <1>1, <1>2, <1>6, <1>7, Steady

-----------------------------------------------------------------------------
LEMMA LockCounts ==
  ASSUME MemoryInv, CountInv, NEW t \in Threads, mutex_lock(t)
  PROVE  CountInv'
<1> DEFINE a == IF Top(t).proc = "free" THEN [Top(t) EXCEPT !.at = "locked"]
                ELSE [Top(t) EXCEPT !.at = "loaded", !.seen = counters]
<1>1. /\ ~ Idle(t) /\ Top(t).proc \in Locking /\ Top(t).at = "enter" /\ Become(t, a)
      /\ up' = up /\ heap' = heap /\ foreign' = foreign /\ counters' = counters
      /\ refused' = refused /\ strays' = strays
  BY DEF mutex_lock, Enter, At
<1>2. Top(t) \in Act /\ counters \in Count
  BY <1>1, TopFacts DEF MemoryInv, ScalarsOK
<1>3. /\ a \in Act /\ a.proc = Top(t).proc /\ a.size = Top(t).size /\ a.tag = Top(t).tag
      /\ a.block = Top(t).block /\ a.at = IF Top(t).proc = "free" THEN "locked" ELSE "loaded"
  BY <1>1, <1>2 DEF Act, Frame, Places, Sound, Locking
<1> HIDE DEF a
<1>4. (Counted(a) <=> Counted(Top(t))) /\ a.at # "logged"
  BY <1>1, <1>3 DEF Counted
<1> QED BY <1>1, <1>3, <1>4, QuietBecome

LEMMA AllocateRefusedCounts ==
  ASSUME MemoryInv, CountInv, NEW t \in Threads, AllocateRefused(t)
  PROVE  CountInv'
<1> DEFINE a == [Top(t) EXCEPT !.at = "unlock", !.seen = null]
           c == Logging(LogSize)
<1>1. /\ ~ Idle(t) /\ Top(t).proc = "allocate" /\ Top(t).at = "loaded" /\ BecomeAndCall(t, a, c)
      /\ heap' = heap /\ foreign' = foreign /\ up' = up /\ refused' = refused + 1 /\ strays' = strays
  BY DEF AllocateRefused, At
<1>2. Top(t) \in Act /\ refused' > 0
  BY <1>1, TopFacts DEF MemoryInv, ScalarsOK
<1>3. c \in Act /\ c.proc = "log"
  BY CalleeFacts, Sized DEF Logging, Activation
<1>4. a \in Act /\ a.proc = "allocate"
  BY <1>1, <1>2 DEF Act, Frame, Places, Sound, Locking
<1> HIDE DEF a, c
<1>5. ~ Reporting(Top(t)) /\ ~ Counted(Top(t)) /\ ~ Reporting(c) /\ ~ Counted(c)
  BY <1>1, <1>3 DEF Reporting, Counted
<1> QED BY <1>1, <1>2, <1>3, <1>4, <1>5, QuietCall

LEMMA AllocateComplainsCounts ==
  ASSUME MemoryInv, CountInv, NEW t \in Threads, AllocateComplains(t)
  PROVE  CountInv'
<1> DEFINE a == [Top(t) EXCEPT !.at = "return"]
           c == Logging(LogSize)
<1>1. /\ ~ Idle(t) /\ Top(t).proc = "allocate" /\ Top(t).at = "complain" /\ BecomeAndCall(t, a, c)
      /\ heap' = heap /\ foreign' = foreign /\ up' = up /\ counters' = counters
      /\ refused' = refused /\ strays' = strays
  BY DEF AllocateComplains, At
<1>2. Top(t) \in Act
  BY <1>1, TopFacts
<1>3. c \in Act /\ c.proc = "log"
  BY CalleeFacts, Sized DEF Logging, Activation
<1>4. a \in Act /\ a.proc = "allocate"
  BY <1>1, <1>2 DEF Act, Frame, Places, Sound, Locking
<1> HIDE DEF a, c
<1>5. ~ Reporting(Top(t)) /\ ~ Counted(Top(t)) /\ ~ Reporting(c) /\ ~ Counted(c)
  BY <1>1, <1>3 DEF Reporting, Counted
<1> QED BY <1>1, <1>3, <1>4, <1>5, QuietCall

LEMMA AllocateOutsideCounts ==
  ASSUME MemoryInv, CountInv, NEW t \in Threads, AllocateOutside(t)
  PROVE  CountInv'
<1> DEFINE b == NewBlock(Top(t).size, Top(t).tag)
           a == [Top(t) EXCEPT !.got = b]
           N == {b}
<1>1. /\ ~ Idle(t) /\ Top(t).proc = "allocate" /\ Top(t).at = "enter" /\ Returns(t, a)
      /\ foreign' = foreign \cup N /\ up' = up /\ counters' = counters /\ heap' = heap
      /\ refused' = refused /\ strays' = strays
  BY DEF AllocateOutside, At
<1>2. Top(t) \in Act
  BY <1>1, TopFacts
<1>3. b \in Block /\ b \notin Named
  BY <1>2, NewBlockFacts DEF Act, Frame
<1> HIDE DEF b
<1>4. a \in Act /\ a.proc = "allocate"
  BY <1>1, <1>2, <1>3 DEF Act, Frame, Sound
<1>5. ~ Reporting(Top(t)) /\ ~ Counted(Top(t)) /\ N \cap Named = {}
  BY <1>1, <1>3 DEF Reporting, Counted
<1> HIDE DEF a, N
<1>6. foreign' \subseteq foreign \cup N
  BY <1>1
<1> QED BY <1>1, <1>4, <1>5, <1>6, QuietReturn

LEMMA PlainReturnCounts ==
  ASSUME MemoryInv, CountInv, NEW t \in Threads, ~ Idle(t), Returns(t, Top(t)),
         ~ Reporting(Top(t)), ~ Counted(Top(t)), foreign' \subseteq foreign, up' = up,
         heap' = heap, counters' = counters, refused' = refused, strays' = strays
  PROVE  CountInv'
<1>1. Top(t) \in Act
  BY TopFacts
<1>2. {} \cap Named = {} /\ foreign' \subseteq foreign \cup {}
  OBVIOUS
<1> QED BY <1>1, <1>2, QuietReturn

LEMMA FreeOutsideCounts ==
  ASSUME MemoryInv, CountInv, NEW t \in Threads, FreeOutside(t)
  PROVE  CountInv'
<1>1. /\ ~ Idle(t) /\ Top(t).proc = "free" /\ Top(t).at = "enter" /\ Returns(t, Top(t))
      /\ foreign' \subseteq foreign /\ up' = up /\ counters' = counters /\ heap' = heap
      /\ refused' = refused /\ strays' = strays
  BY DEF FreeOutside, At
<1>2. ~ Reporting(Top(t)) /\ ~ Counted(Top(t))
  BY <1>1 DEF Reporting, Counted
<1> QED BY <1>1, <1>2, PlainReturnCounts

LEMMA CallReturnsCounts ==
  ASSUME MemoryInv, CountInv, NEW t \in Threads, CallReturns(t)
  PROVE  CountInv'
<1>1. /\ ~ Idle(t) /\ Top(t).proc \in {"allocate", "reallocate", "log"} /\ Returns(t, Top(t))
      /\ foreign' = foreign /\ up' = up /\ counters' = counters /\ heap' = heap
      /\ refused' = refused /\ strays' = strays
  BY DEF CallReturns, At
<1>2. ~ Reporting(Top(t)) /\ ~ Counted(Top(t))
  BY <1>1 DEF Reporting, Counted
<1> QED BY <1>1, <1>2, PlainReturnCounts

LEMMA FreeForeignCounts ==
  ASSUME MemoryInv, CountInv, NEW t \in Threads, FreeForeign(t)
  PROVE  CountInv'
<1> DEFINE a == [Top(t) EXCEPT !.at = "logged"]
           c == Logging(LogSize)
<1>1. /\ ~ Idle(t) /\ Top(t).proc = "free" /\ Top(t).at = "locked" /\ BecomeAndCall(t, a, c)
      /\ heap' = heap /\ foreign' = foreign /\ up' = up /\ counters' = counters
      /\ refused' = refused /\ strays' = strays + 1
  BY DEF FreeForeign, At
<1>2. Top(t) \in Act /\ strays' > 0
  BY <1>1, TopFacts DEF MemoryInv, ScalarsOK
<1>3. c \in Act /\ c.proc = "log"
  BY CalleeFacts, Sized DEF Logging, Activation
<1>4. /\ a \in Act /\ a.proc = "free" /\ a.size = Top(t).size /\ a.tag = Top(t).tag
      /\ a.block = Top(t).block
  BY <1>1, <1>2 DEF Act, Frame, Places, Sound, Locking
<1> HIDE DEF a, c
<1>5. ~ Reporting(Top(t)) /\ ~ Counted(Top(t)) /\ ~ Reporting(c) /\ ~ Counted(c)
  BY <1>1, <1>3 DEF Reporting, Counted
<1>6. a.proc = Top(t).proc /\ strays' \in {strays, strays + 1} /\ c.proc # "free"
      /\ refused' \in {refused, refused + 1}
  BY <1>1, <1>3, <1>4
<1> QED BY <1>1, <1>2, <1>3, <1>4, <1>5, <1>6, QuietCall

LEMMA FreeForeignLoadsCounts ==
  ASSUME MemoryInv, CountInv, NEW t \in Threads, FreeForeignLoads(t)
  PROVE  CountInv'
<1> DEFINE a == [Top(t) EXCEPT !.at = "loaded", !.seen = counters]
<1>1. /\ ~ Idle(t) /\ Top(t).proc = "free" /\ Top(t).at = "logged" /\ Become(t, a)
      /\ heap' = heap /\ foreign' = foreign /\ up' = up
      /\ refused' = refused /\ strays' = strays
  BY DEF FreeForeignLoads, At
<1>2. Top(t) \in Act /\ counters \in Count
  BY <1>1, TopFacts DEF MemoryInv, ScalarsOK
<1>3. strays > 0
  <2>1. Len(stack[t]) \in 1 .. Len(stack[t]) /\ Top(t) = stack[t][Len(stack[t])]
    BY <1>1, TopOfStack
  <2> QED BY <1>1, <2>1 DEF CountInv, Fine
<1>4. /\ a \in Act /\ a.proc = Top(t).proc /\ a.size = Top(t).size /\ a.tag = Top(t).tag
      /\ a.block = Top(t).block /\ a.at = "loaded"
  BY <1>1, <1>2 DEF Act, Frame, Places, Sound, Locking
<1> HIDE DEF a
<1>5. Keeps(t)
  BY <1>1, <1>4, BecomeKeeps
<1>6. CountsRight'
  <2>1. strays' # 0
    BY <1>1, <1>3 DEF MemoryInv, ScalarsOK
  <2> QED BY <2>1 DEF CountsRight
<1>7. Allocated' \subseteq Allocated \cup {} /\ {} \cap Named = {}
  BY <1>1 DEF Allocated
<1> QED BY <1>1, <1>5, <1>6, <1>7, Steady

LEMMA GivenAllocated ==
  ASSUME MemoryInv, OwnerInv, NEW t \in Threads, ~ Idle(t), ~ Departed(Top(t))
  PROVE  Given(Top(t)) \subseteq Allocated
<1>1. /\ Len(stack[t]) \in 1 .. Len(stack[t]) /\ Len(stack[t]) \in Nat
      /\ Top(t) = stack[t][Len(stack[t])]
  BY TopOfStack
<1>2. Own(stack[t], Len(stack[t])) = Given(Top(t))
  BY <1>1 DEF Own
<1>3. \/ Own(stack[t], Len(stack[t])) \subseteq Allocated
      \/ Len(stack[t]) \in 1 .. Len(stack[t]) /\ Departed(stack[t][Len(stack[t])])
  BY <1>1 DEF OwnerInv, Alive
<1> QED BY <1>1, <1>2, <1>3

LEMMA CalleeCounts ==
  /\ \A n \in Nat, tag \in AllTags :
       LET c == Allocating(n, tag) IN
       c \in Act /\ c.proc = "allocate" /\ ~ Reporting(c) /\ ~ Counted(c)
  /\ \A n \in Nat :
       LET c == Logging(n) IN
       c \in Act /\ c.proc = "log" /\ ~ Reporting(c) /\ ~ Counted(c)
  /\ \A b \in Block :
       LET c == Freeing(b) IN
       /\ c \in Act /\ c.proc = "free" /\ ~ Reporting(c) /\ ~ Counted(c)
       /\ Faithful(c) /\ c.block = b /\ c.at # "logged"
<1>1. ASSUME NEW n \in Nat, NEW tag \in AllTags, NEW c, c = Allocating(n, tag)
      PROVE  c \in Act /\ c.proc = "allocate" /\ ~ Reporting(c) /\ ~ Counted(c)
  BY <1>1, CalleeFacts DEF Allocating, Activation, Reporting, Counted
<1>2. ASSUME NEW n \in Nat, NEW c, c = Logging(n)
      PROVE  c \in Act /\ c.proc = "log" /\ ~ Reporting(c) /\ ~ Counted(c)
  BY <1>2, CalleeFacts DEF Logging, Activation, Reporting, Counted
<1>3. ASSUME NEW b \in Block, NEW c, c = Freeing(b)
      PROVE  /\ c \in Act /\ c.proc = "free" /\ ~ Reporting(c) /\ ~ Counted(c)
             /\ Faithful(c) /\ c.block = b /\ c.at # "logged"
  BY <1>3, CalleeFacts DEF Freeing, Activation, Reporting, Counted, Faithful
<1>4. QED BY <1>1, <1>2, <1>3

LEMMA ReallocateAllocatesCounts ==
  ASSUME MemoryInv, CountInv, NEW t \in Threads, ReallocateAllocates(t)
  PROVE  CountInv'
<1> DEFINE a == [Top(t) EXCEPT !.at = "copy"]
           c == Allocating(Top(t).size, Top(t).tag)
<1>1. /\ ~ Idle(t) /\ Top(t).proc = "reallocate" /\ BecomeAndCall(t, a, c)
      /\ heap' = heap /\ foreign' = foreign /\ up' = up /\ counters' = counters
      /\ refused' = refused /\ strays' = strays
  BY DEF ReallocateAllocates, At
<1>2. Top(t) \in Act
  BY <1>1, TopFacts
<1>3. c \in Act /\ c.proc = "allocate" /\ ~ Reporting(c) /\ ~ Counted(c)
  <2>1. Top(t).size \in Nat /\ Top(t).tag \in AllTags
    BY <1>2 DEF Act, Frame
  <2> QED BY <2>1, CalleeCounts
<1>4. a \in Act /\ a.proc = "reallocate"
  BY <1>1, <1>2 DEF Act, Frame, Places, Sound, Locking
<1> HIDE DEF a, c
<1>5. ~ Reporting(Top(t)) /\ ~ Counted(Top(t))
  BY <1>1 DEF Reporting, Counted
<1> QED BY <1>1, <1>3, <1>4, <1>5, QuietCall

LEMMA ReallocateCopiesCounts ==
  ASSUME MemoryInv, OwnerInv, CountInv, NEW t \in Threads, ReallocateCopies(t)
  PROVE  CountInv'
<1>1. /\ ~ Idle(t) /\ Top(t).proc = "reallocate" /\ Top(t).at = "copy"
      /\ heap' = heap /\ foreign' = foreign /\ up' = up /\ counters' = counters
      /\ refused' = refused /\ strays' = strays
  BY DEF ReallocateCopies, At
<1>2. Top(t) \in Act /\ Top(t).block \in Block
  BY <1>1, TopFacts DEF Act, Frame, Sound
<1>3. ~ Reporting(Top(t)) /\ ~ Counted(Top(t)) /\ ~ Departed(Top(t))
  BY <1>1 DEF Reporting, Counted, Departed
<1>4. CASE Top(t).got # null
  <2> DEFINE a == [Top(t) EXCEPT !.at = "return", !.block = Top(t).got]
             c == Freeing(Top(t).block)
  <2>1. BecomeAndCall(t, a, c)
    BY <1>4 DEF ReallocateCopies
  <2>2. /\ c \in Act /\ c.proc = "free" /\ ~ Reporting(c) /\ ~ Counted(c)
        /\ Faithful(c) /\ c.block = Top(t).block /\ c.at # "logged"
    BY <1>2, CalleeCounts
  <2>3. a \in Act /\ a.proc = "reallocate"
    BY <1>1, <1>2, <1>4 DEF Act, Frame, Places, Sound, Locking
  <2> HIDE DEF a, c
  <2>4. c.block \in Allocated
    <3>1. Given(Top(t)) = {Top(t).block}
      BY <1>1, <1>2, NullAssumption DEF Given
    <3> QED BY <1>1, <1>3, <2>2, <3>1, GivenAllocated
  <2> QED BY <1>1, <1>3, <2>1, <2>2, <2>3, <2>4, QuietCall
<1>5. CASE Top(t).got = null
  BY <1>1, <1>3, <1>5, PlainReturnCounts DEF ReallocateCopies
<1> QED BY <1>4, <1>5

LEMMA LogFormatsCounts ==
  ASSUME MemoryInv, CountInv, NEW t \in Threads, LogFormats(t)
  PROVE  CountInv'
<1> DEFINE a == [Top(t) EXCEPT !.at = "prefix"]
           c == Allocating(Top(t).size, StringTag)
<1>1. /\ ~ Idle(t) /\ Top(t).proc = "log" /\ BecomeAndCall(t, a, c)
      /\ heap' = heap /\ foreign' = foreign /\ up' = up /\ counters' = counters
      /\ refused' = refused /\ strays' = strays
  BY DEF LogFormats, At
<1>2. Top(t) \in Act
  BY <1>1, TopFacts
<1>3. c \in Act /\ c.proc = "allocate" /\ ~ Reporting(c) /\ ~ Counted(c)
  <2>1. Top(t).size \in Nat /\ Top(t).tag \in AllTags
    BY <1>2 DEF Act, Frame
  <2> QED BY <2>1, Sized, CalleeCounts
<1>4. a \in Act /\ a.proc = "log"
  BY <1>1, <1>2 DEF Act, Frame, Places, Sound, Locking
<1> HIDE DEF a, c
<1>5. ~ Reporting(Top(t)) /\ ~ Counted(Top(t))
  BY <1>1 DEF Reporting, Counted
<1> QED BY <1>1, <1>3, <1>4, <1>5, QuietCall

LEMMA LogPrefixesCounts ==
  ASSUME MemoryInv, CountInv, NEW t \in Threads, LogPrefixes(t)
  PROVE  CountInv'
<1> DEFINE a == [Top(t) EXCEPT !.at = "write", !.block = Top(t).got]
           c == Allocating(IF Top(t).got = null THEN LogSize ELSE Top(t).size, StringTag)
<1>1. /\ ~ Idle(t) /\ Top(t).proc = "log" /\ BecomeAndCall(t, a, c)
      /\ heap' = heap /\ foreign' = foreign /\ up' = up /\ counters' = counters
      /\ refused' = refused /\ strays' = strays
  BY DEF LogPrefixes, At
<1>2. Top(t) \in Act
  BY <1>1, TopFacts
<1>3. c \in Act /\ c.proc = "allocate" /\ ~ Reporting(c) /\ ~ Counted(c)
  <2>1. (IF Top(t).got = null THEN LogSize ELSE Top(t).size) \in Nat
    BY <1>2, Sized DEF Act, Frame
  <2> QED BY <2>1, Sized, CalleeCounts
<1>4. a \in Act /\ a.proc = "log"
  BY <1>1, <1>2 DEF Act, Frame, Places, Sound, Locking
<1> HIDE DEF a, c
<1>5. ~ Reporting(Top(t)) /\ ~ Counted(Top(t))
  BY <1>1 DEF Reporting, Counted
<1> QED BY <1>1, <1>3, <1>4, <1>5, QuietCall

\* cstr_free of a line's string.
LEMMA ReleasingCounts ==
  ASSUME MemoryInv, OwnerInv, NEW t \in Threads, ~ Idle(t), Top(t).proc = "log"
  PROVE  LET c == ReleasingString(Top(t).block) IN
         /\ c \in Act /\ ~ Reporting(c) /\ ~ Counted(c)
         /\ c.proc = "free" => Faithful(c) /\ c.block \in Allocated /\ c.at # "logged"
<1>1. Top(t).block = null \/ Top(t).block \in Block
  BY TopFacts DEF Act, Frame
<1>2. CASE Top(t).block = null
  <2>1. ReleasingString(Top(t).block) = Logging(LogSize)
    BY <1>2 DEF ReleasingString
  <2> QED BY <2>1, Sized, CalleeCounts
<1>3. CASE Top(t).block # null
  <2>1. ReleasingString(Top(t).block) = Freeing(Top(t).block) /\ Top(t).block \in Block
    BY <1>1, <1>3 DEF ReleasingString
  <2>2. Top(t).block \in Allocated
    <3>1. Given(Top(t)) = {Top(t).block} /\ ~ Departed(Top(t))
      BY <1>3 DEF Given, Departed
    <3> QED BY <3>1, GivenAllocated
  <2> QED BY <2>1, <2>2, CalleeCounts
<1> QED BY <1>2, <1>3

LEMMA LogWritesCounts ==
  ASSUME MemoryInv, OwnerInv, CountInv, NEW t \in Threads, LogWrites(t)
  PROVE  CountInv'
<1> DEFINE a == [Top(t) EXCEPT !.at = "release", !.block = Top(t).got]
           c == ReleasingString(Top(t).block)
<1>1. /\ ~ Idle(t) /\ Top(t).proc = "log" /\ BecomeAndCall(t, a, c)
      /\ heap' = heap /\ foreign' = foreign /\ up' = up /\ counters' = counters
      /\ refused' = refused /\ strays' = strays
  BY DEF LogWrites, At
<1>2. Top(t) \in Act
  BY <1>1, TopFacts
<1>3. /\ c \in Act /\ ~ Reporting(c) /\ ~ Counted(c)
      /\ c.proc = "free" => Faithful(c) /\ c.block \in Allocated /\ c.at # "logged"
  BY <1>1, ReleasingCounts
<1>4. a \in Act /\ a.proc = "log"
  BY <1>1, <1>2 DEF Act, Frame, Places, Sound, Locking
<1> HIDE DEF a, c
<1>5. ~ Reporting(Top(t)) /\ ~ Counted(Top(t))
  BY <1>1 DEF Reporting, Counted
<1> QED BY <1>1, <1>3, <1>4, <1>5, QuietCall

LEMMA LogReleasesCounts ==
  ASSUME MemoryInv, OwnerInv, CountInv, NEW t \in Threads, LogReleases(t)
  PROVE  CountInv'
<1> DEFINE a == [Top(t) EXCEPT !.at = "return", !.block = null]
           c == ReleasingString(Top(t).block)
<1>1. /\ ~ Idle(t) /\ Top(t).proc = "log" /\ BecomeAndCall(t, a, c)
      /\ heap' = heap /\ foreign' = foreign /\ up' = up /\ counters' = counters
      /\ refused' = refused /\ strays' = strays
  BY DEF LogReleases, At
<1>2. Top(t) \in Act
  BY <1>1, TopFacts
<1>3. /\ c \in Act /\ ~ Reporting(c) /\ ~ Counted(c)
      /\ c.proc = "free" => Faithful(c) /\ c.block \in Allocated /\ c.at # "logged"
  BY <1>1, ReleasingCounts
<1>4. a \in Act /\ a.proc = "log"
  BY <1>1, <1>2 DEF Act, Frame, Places, Sound, Locking
<1> HIDE DEF a, c
<1>5. ~ Reporting(Top(t)) /\ ~ Counted(Top(t))
  BY <1>1 DEF Reporting, Counted
<1> QED BY <1>1, <1>3, <1>4, <1>5, QuietCall

-----------------------------------------------------------------------------
(***************************************************************************)
(* Steps that count.                                                       *)
(***************************************************************************)
\* While t has the mutex, the others count reports they are about to withdraw.
LEMMA OthersCount ==
  ASSUME MemoryInv, NEW t \in Threads, owner = t, NEW u \in Threads \ {t}
  PROVE  Counts(stack[u]) \subseteq Reports(stack[u])
<1>1. CASE Idle(u)
  BY <1>1 DEF Idle, Counts, Reports
<1>2. CASE ~ Idle(u)
  <2>1. ~ Inside(Top(u))
    BY <1>2, InsideOwns
  <2>2. Counted(Top(u)) => Reporting(Top(u))
    BY <2>1 DEF Counted, Inside, Reporting, Locking
  <2> QED BY <1>2, <2>2, TopCounts
<1> QED BY <1>1, <1>2

LEMMA FreeBlock ==
  ASSUME MemoryInv, NEW t \in Threads, ~ Idle(t), Top(t).proc = "free"
  PROVE  Top(t).block \in Frees(stack[t])
<1>1. Len(stack[t]) \in 1 .. Len(stack[t]) /\ Top(t) = stack[t][Len(stack[t])]
  BY TopOfStack
<1> QED BY <1>1 DEF Frees

\* What t counts, or takes from the count, nothing else counts.
LEMMA Uncounted ==
  ASSUME MemoryInv, OwnerInv, CountInv, NEW t \in Threads, ~ Idle(t), owner = t,
         Top(t).proc \in {"free", "report", "free_report"},
         Top(t).proc = "free" => Top(t).at = "loaded"
  PROVE  /\ Top(t).block \in Block
         /\ Top(t).block \notin heap \cup reported
         /\ Top(t).block \notin Rest(t)
<1> DEFINE b == Top(t).block
<1>1. b \in Block
  BY TopFacts DEF Act, Frame, Sound
<1>2. /\ Top(t).proc = "free" => b \in Frees(stack[t])
      /\ Top(t).proc # "free" => b \in Reports(stack[t])
  BY FreeBlock, TopCounts DEF Reporting
<1>3. /\ \A u, v \in Threads : Frees(stack[u]) \cap (reported \cup Reports(stack[v])) = {}
      /\ \A u \in Threads : Reports(stack[u]) \cap (reported \cup Allocated) = {}
      /\ \A u, v \in Threads : u # v => Reports(stack[u]) \cap Reports(stack[v]) = {}
  BY DEF CountInv, ReportsApart
<1>4. b \notin heap
  <2>1. CASE Top(t).proc = "free"
    <3>1. Parting(Top(t))
      BY <2>1 DEF Parting
    <3> QED BY <3>1, TopOwns
  <2>2. CASE Top(t).proc # "free"
    BY <1>2, <1>3, <2>2 DEF Allocated
  <2> QED BY <2>1, <2>2
<1>5. b \notin reported
  BY <1>2, <1>3
<1>6. ASSUME NEW u \in Threads \ {t} PROVE b \notin Counts(stack[u])
  BY <1>2, <1>3, <1>6, OthersCount
<1> QED BY <1>1, <1>4, <1>5, <1>6 DEF Rest

LEMMA StoreCountersCounts ==
  ASSUME MemoryInv, OwnerInv, CountInv, NEW t \in Threads, StoreCounters(t)
  PROVE  CountInv'
<1> DEFINE a == [Top(t) EXCEPT !.at = "unlock", !.seen = null]
           b == Top(t).block
<1>1. /\ ~ dead /\ ~ Idle(t) /\ Top(t).proc \in Locking \ {"allocate"} /\ Top(t).at = "loaded"
      /\ Become(t, a) /\ Store(t)
      /\ heap' = heap /\ foreign' = foreign /\ up' = up
      /\ refused' = refused /\ strays' = strays
  BY DEF StoreCounters, At
<1>2. Top(t) \in Act
  BY <1>1, TopFacts
<1>3. /\ a \in Act /\ a.proc = Top(t).proc /\ a.size = Top(t).size /\ a.tag = Top(t).tag
      /\ a.block = b /\ a.at = "unlock"
  BY <1>1, <1>2 DEF Act, Frame, Places, Sound, Locking
<1> HIDE DEF a
<1>4. Keeps(t) /\ Counts(stack'[t]) = IF Counted(a) THEN {b} ELSE {}
  BY <1>1, <1>3, BecomeKeeps
<1>5. owner = t /\ Top(t).seen = counters
  BY <1>1, OthersLoaded
<1>6. Top(t).proc \in {"free", "report", "free_report"}
  BY <1>1 DEF Locking
<1>7. b \in Block /\ b \notin heap \cup reported /\ b \notin Rest(t)
  BY <1>1, <1>5, <1>6, Uncounted
<1>8. Top(t).size = b.size /\ Top(t).tag = b.tag
  <2>1. Len(stack[t]) \in 1 .. Len(stack[t]) /\ Top(t) = stack[t][Len(stack[t])]
    BY <1>1, TopOfStack
  <2>2. Faithful(Top(t))
    BY <2>1 DEF CountInv, Fine
  <2> QED BY <1>6, <2>2 DEF Faithful
<1>9. Counts(stack[t]) = IF Counted(Top(t)) THEN {b} ELSE {}
  BY <1>1, TopCounts
<1>10. /\ Booked = ((heap \cup reported) \cup Counts(stack[t])) \cup Rest(t)
       /\ Booked' = ((heap \cup reported) \cup Counts(stack'[t])) \cup Rest(t)
  <2>1. (\A u \in Threads \ {t} : stack'[u] = stack[u]) /\ reported' = reported
    BY <1>4 DEF Keeps
  <2> QED BY <1>1, <2>1, BookedSplit, BookedNext
<1>11. Booked \in SUBSET Block /\ IsFiniteSet(Booked)
  BY BookedFacts
<1> HIDE DEF b
<1>12. CountsRight'
  <2> SUFFICES ASSUME up', refused' = 0, strays' = 0 PROVE counters' = Tally(Booked')
    BY DEF CountsRight
  <2>1. counters = Tally(Booked)
    BY <1>1 DEF CountInv, CountsRight
  <2>2. CASE Top(t).proc = "report"
    <3>1. ~ Counted(Top(t)) /\ Counted(a)
      BY <1>1, <1>3, <2>2 DEF Counted
    <3>2. b \notin Booked /\ Booked' = Booked \cup {b}
      BY <1>4, <1>7, <1>9, <1>10, <3>1
    <3>3. counters' = Tracked(counters, b.size, b.tag)
      BY <1>1, <1>5, <1>8, <2>2 DEF Store
    <3>4. Tally(Booked \cup {b}) = Tracked(Tally(Booked), b.size, b.tag)
      BY <1>7, <1>11, <3>2, TallyFacts
    <3> QED BY <2>1, <3>2, <3>3, <3>4
  <2>3. CASE Top(t).proc # "report"
    <3>1. Counted(Top(t)) /\ ~ Counted(a)
      BY <1>1, <1>3, <1>6, <2>3 DEF Counted
    <3>2. b \in Booked /\ Booked' = Booked \ {b}
      BY <1>4, <1>7, <1>9, <1>10, <3>1
    <3>3. counters' = Untracked(counters, b.size, b.tag)
      BY <1>1, <1>5, <1>6, <1>8, <2>3 DEF Store
    <3>4. Tally(Booked \ {b}) = Untracked(Tally(Booked), b.size, b.tag)
      BY <1>11, <3>2, TallyFacts
    <3> QED BY <2>1, <3>2, <3>3, <3>4
  <2> QED BY <2>2, <2>3
<1>13. Allocated' \subseteq Allocated \cup {} /\ {} \cap Named = {}
  BY <1>1 DEF Allocated
<1>14. strays' \in {strays, strays + 1}
  BY <1>1
<1> QED BY <1>1, <1>4, <1>12, <1>13, <1>14, Steady

LEMMA AllocateGrantedCounts ==
  ASSUME MemoryInv, CountInv, NEW t \in Threads, AllocateGranted(t)
  PROVE  CountInv'
<1> DEFINE b == NewBlock(Top(t).size, Top(t).tag)
           a == [Top(t) EXCEPT !.at = "unlock", !.seen = null, !.got = b]
           N == {b}
<1>1. /\ ~ dead /\ ~ Idle(t) /\ Top(t).proc = "allocate" /\ Top(t).at = "loaded"
      /\ Become(t, a) /\ Store(t)
      /\ heap' = heap \cup {b} /\ foreign' = foreign /\ up' = up
      /\ refused' = refused /\ strays' = strays
  BY DEF AllocateGranted, At
<1>2. Top(t) \in Act
  BY <1>1, TopFacts
<1>3. b \in Block /\ b \notin Named /\ b.size = Top(t).size /\ b.tag = Top(t).tag
  <2>1. Top(t).size \in Nat /\ Top(t).tag \in AllTags
    BY <1>2 DEF Act, Frame
  <2>2. b \in Block /\ b \notin Named
    BY <2>1, NewBlockFacts
  <2> QED BY <2>2 DEF NewBlock
<1> HIDE DEF b
<1>4. /\ a \in Act /\ a.proc = Top(t).proc /\ a.size = Top(t).size /\ a.tag = Top(t).tag
      /\ a.block = Top(t).block /\ a.at = "unlock"
  BY <1>1, <1>2, <1>3 DEF Act, Frame, Places, Sound, Locking
<1> HIDE DEF a
<1>5. Keeps(t) /\ Counts(stack'[t]) = {}
  <2>1. strays' \in {strays, strays + 1} /\ ~ (a.proc = "free" /\ a.at = "logged") /\ ~ Counted(a)
    BY <1>1, <1>4 DEF Counted
  <2> QED BY <1>1, <1>4, <2>1, BecomeKeeps
<1>6. Top(t).seen = counters
  BY <1>1, OthersLoaded
<1>7. Counts(stack[t]) = {}
  BY <1>1, TopCounts DEF Counted
<1>8. Booked' = Booked \cup {b}
  <2>1. (\A u \in Threads \ {t} : stack'[u] = stack[u]) /\ reported' = reported
    BY <1>5 DEF Keeps
  <2>2. /\ Booked = ((heap \cup reported) \cup Counts(stack[t])) \cup Rest(t)
        /\ Booked' = ((heap' \cup reported') \cup Counts(stack'[t])) \cup Rest(t)
    BY <2>1, BookedSplit, BookedNext
  <2> QED BY <1>1, <1>5, <1>7, <2>1, <2>2
<1>9. Booked \in SUBSET Block /\ IsFiniteSet(Booked) /\ b \in Block \ Booked
  BY <1>3, BookedFacts
<1>10. CountsRight'
  <2> SUFFICES ASSUME up', refused' = 0, strays' = 0 PROVE counters' = Tally(Booked')
    BY DEF CountsRight
  <2>1. counters = Tally(Booked)
    BY <1>1 DEF CountInv, CountsRight
  <2>2. counters' = Tracked(counters, b.size, b.tag)
    BY <1>1, <1>3, <1>6 DEF Store
  <2>3. Tally(Booked \cup {b}) = Tracked(Tally(Booked), b.size, b.tag)
    BY <1>9, TallyFacts
  <2> QED BY <1>8, <2>1, <2>2, <2>3
<1>11. Allocated' \subseteq Allocated \cup N /\ N \cap Named = {} /\ strays' \in {strays, strays + 1}
  BY <1>1, <1>3 DEF Allocated
<1> HIDE DEF N
<1> QED BY <1>1, <1>5, <1>10, <1>11, Steady

LEMMA FreeOwnCounts ==
  ASSUME MemoryInv, CountInv, NEW t \in Threads, FreeOwn(t)
  PROVE  CountInv'
<1> DEFINE a == [Top(t) EXCEPT !.at = "loaded", !.seen = counters]
           b == Top(t).block
<1>1. /\ ~ Idle(t) /\ Top(t).proc = "free" /\ Top(t).at = "locked" /\ Become(t, a)
      /\ b \in heap /\ heap' = heap \ {b} /\ foreign' = foreign /\ up' = up
      /\ counters' = counters /\ refused' = refused /\ strays' = strays
  BY DEF FreeOwn, At
<1>2. Top(t) \in Act /\ counters \in Count
  BY <1>1, TopFacts DEF MemoryInv, ScalarsOK
<1>3. /\ a \in Act /\ a.proc = Top(t).proc /\ a.size = Top(t).size /\ a.tag = Top(t).tag
      /\ a.block = b /\ a.at = "loaded"
  BY <1>1, <1>2 DEF Act, Frame, Places, Sound, Locking
<1> HIDE DEF a
<1>4. Keeps(t) /\ Counts(stack'[t]) = {b}
  <2>1. Counted(a) /\ strays' \in {strays, strays + 1} /\ a.at # "logged"
    BY <1>1, <1>3 DEF Counted
  <2> QED BY <1>1, <1>3, <2>1, BecomeKeeps
<1>5. (\A u \in Threads \ {t} : stack'[u] = stack[u]) /\ reported' = reported
  BY <1>4 DEF Keeps
<1>6. Counts(stack[t]) = {}
  BY <1>1, TopCounts DEF Counted
<1>7. (heap' \cup reported') \cup Counts(stack'[t]) = (heap \cup reported) \cup Counts(stack[t])
  BY <1>1, <1>4, <1>5, <1>6
<1>8. strays' \in {strays, strays + 1} /\ refused' \in {refused, refused + 1}
  BY <1>1
<1>9. CountsRight'
  BY <1>1, <1>5, <1>7, <1>8, CountsSteady
<1>10. Allocated' \subseteq Allocated \cup {} /\ {} \cap Named = {}
  BY <1>1 DEF Allocated
<1> QED BY <1>1, <1>4, <1>8, <1>9, <1>10, Steady

\* What is left to show of a step that moves a report of t.
LEMMA ReportMoves ==
  ASSUME MemoryInv, CountInv, NEW t \in Threads, \A u \in Threads \ {t} : stack'[u] = stack[u],
         Alone(stack'[t]),
         \A i \in 1 .. Len(stack'[t]) :
           /\ Faithful(stack'[t][i])
           /\ ~ (stack'[t][i].proc = "free" /\ stack'[t][i].at = "logged"),
         NEW N, N \cap Named = {},
         Reports(stack'[t]) \subseteq (Reports(stack[t]) \cup reported) \cup N,
         Reports(stack'[t]) \cap reported' = {},
         reported' \subseteq reported \cup Reports(stack[t]),
         Frees(stack'[t]) \subseteq Frees(stack[t]) \cup Allocated,
         Reports(stack'[t]) # {} => up,
         Allocated' = Allocated, up' = up, strays' = strays, CountsRight'
  PROVE  CountInv'
<1>1. ASSUME NEW u \in Threads
      PROVE  /\ Alone(stack'[u])
             /\ \A i \in 1 .. Len(stack'[u]) :
                  /\ Faithful(stack'[u][i])
                  /\ stack'[u][i].proc = "free" /\ stack'[u][i].at = "logged" => strays' > 0
             /\ Reports(stack'[u]) # {} => up'
  <2>1. CASE u = t
    BY <2>1
  <2>2. CASE u # t
    BY <2>2 DEF CountInv, Fine
  <2> QED BY <2>1, <2>2
<1>2. ~ up' => reported' = {}
  <2>1. (~ up => reported = {}) /\ (Reports(stack[t]) # {} => up)
    BY DEF CountInv
  <2> QED BY <2>1
<1>3. /\ reported \cap Allocated = {}
      /\ \A u \in Threads : Reports(stack[u]) \cap (reported \cup Allocated) = {}
      /\ \A u, v \in Threads : u # v => Reports(stack[u]) \cap Reports(stack[v]) = {}
      /\ \A u, v \in Threads : Frees(stack[u]) \cap (reported \cup Reports(stack[v])) = {}
  BY DEF CountInv, ReportsApart
<1>4. /\ reported \subseteq Named /\ Allocated \subseteq Named
      /\ \A u \in Threads : Reports(stack[u]) \subseteq Named /\ Frees(stack[u]) \subseteq Named
  BY NamedBlocks
<1>5. reported' \cap Allocated' = {}
  BY <1>3
<1>6. \A u \in Threads : Reports(stack'[u]) \cap (reported' \cup Allocated') = {}
  <2>1. Reports(stack'[t]) \cap Allocated = {}
    BY <1>3, <1>4
  <2>2. \A u \in Threads \ {t} : Reports(stack[u]) \cap (reported' \cup Allocated) = {}
    BY <1>3
  <2> QED BY <2>1, <2>2
<1>7. \A u, v \in Threads : u # v => Reports(stack'[u]) \cap Reports(stack'[v]) = {}
  <2>1. \A v \in Threads \ {t} : Reports(stack'[t]) \cap Reports(stack[v]) = {}
    BY <1>3, <1>4
  <2> QED BY <1>3, <2>1
<1>8. \A u, v \in Threads : Frees(stack'[u]) \cap (reported' \cup Reports(stack'[v])) = {}
  <2>1. ASSUME NEW u \in Threads, NEW v \in Threads
        PROVE  /\ Frees(stack'[u]) \subseteq Frees(stack[u]) \cup Allocated
               /\ reported' \cup Reports(stack'[v])
                    \subseteq ((reported \cup Reports(stack[t])) \cup Reports(stack[v])) \cup N
    <3>1. CASE v = t
      BY <3>1
    <3>2. CASE v # t
      BY <3>2
    <3>3. Frees(stack'[u]) \subseteq Frees(stack[u]) \cup Allocated
      OBVIOUS
    <3> QED BY <3>1, <3>2, <3>3
  <2>2. ASSUME NEW u \in Threads, NEW v \in Threads
        PROVE  (Frees(stack[u]) \cup Allocated)
                 \cap (((reported \cup Reports(stack[t])) \cup Reports(stack[v])) \cup N) = {}
    BY <1>3, <1>4
  <2> QED BY <2>1, <2>2
<1>9. ReportsApart'
  BY <1>5, <1>6, <1>7, <1>8 DEF ReportsApart, Allocated, Reports, Reporting, Frees
<1> QED BY <1>1, <1>2, <1>9 DEF CountInv, Fine, Alone, Faithful, Reports, Reporting

\* The end of a report: it is made, or withdrawn.
LEMMA ReportReturns ==
  ASSUME MemoryInv, CountInv, NEW t \in Threads, ~ Idle(t), Returns(t, Top(t)),
         Reporting(Top(t)), Top(t).at = "unlock",
         heap' = heap, foreign' = foreign, up' = up, counters' = counters,
         refused' = refused, strays' = strays
  PROVE  CountInv'
<1>1. /\ Len(stack[t]) \in 1 .. Len(stack[t]) /\ Top(t) = stack[t][Len(stack[t])]
      /\ Top(t) \in Act
  BY TopOfStack
<1>2. Len(stack[t]) = 1
  BY <1>1 DEF CountInv, Fine, Alone
<1>3. /\ \A u \in Threads \ {t} : stack'[u] = stack[u]
      /\ stack'[t] = <<>>
      /\ reported' = (IF Top(t).proc = "report" THEN reported \cup {Top(t).block} ELSE reported)
  BY <1>1, <1>2, ReturnShape
<1>4. Len(stack'[t]) = 0 /\ Reports(stack'[t]) = {} /\ Counts(stack'[t]) = {} /\ Frees(stack'[t]) = {}
  BY <1>3 DEF Reports, Counts, Frees
<1>5. Alone(stack'[t]) /\ 1 .. Len(stack'[t]) = {}
  BY <1>4 DEF Alone
<1>6. /\ Reports(stack[t]) = {Top(t).block}
      /\ Counts(stack[t]) = IF Top(t).proc = "report" THEN {Top(t).block} ELSE {}
  BY TopCounts DEF Counted, Reporting
<1>7. reported' \subseteq reported \cup Reports(stack[t])
  BY <1>3, <1>6
<1>8. (heap' \cup reported') \cup Counts(stack'[t]) = (heap \cup reported) \cup Counts(stack[t])
  BY <1>3, <1>4, <1>6
<1>9. strays' \in {strays, strays + 1} /\ refused' \in {refused, refused + 1}
  OBVIOUS
<1>10. CountsRight'
  BY <1>3, <1>8, <1>9, CountsSteady
<1>11. Allocated' = Allocated /\ {} \cap Named = {}
  BY DEF Allocated
<1> QED BY <1>3, <1>4, <1>5, <1>7, <1>10, <1>11, ReportMoves

LEMMA UnlockCounts ==
  ASSUME MemoryInv, CountInv, NEW t \in Threads, mutex_unlock(t)
  PROVE  CountInv'
<1>1. /\ ~ Idle(t) /\ Top(t).proc \in Locking /\ Top(t).at = "unlock"
      /\ up' = up /\ heap' = heap /\ counters' = counters /\ refused' = refused /\ strays' = strays
      /\ foreign' = (IF Top(t).proc = "free" THEN foreign \ {Top(t).block} ELSE foreign)
  BY DEF mutex_unlock, At
<1>2. Top(t) \in Act
  BY <1>1, TopFacts
<1>3. CASE Top(t).proc = "allocate" /\ Top(t).got = null
  <2> DEFINE a == [Top(t) EXCEPT !.at = "complain"]
  <2>1. Become(t, a)
    BY <1>3 DEF mutex_unlock
  <2>2. /\ a \in Act /\ a.proc = Top(t).proc /\ a.size = Top(t).size /\ a.tag = Top(t).tag
        /\ a.block = Top(t).block
    BY <1>2, <1>3 DEF Act, Frame, Places, Sound
  <2> HIDE DEF a
  <2>3. (Counted(a) <=> Counted(Top(t))) /\ a.proc # "free" /\ foreign' \subseteq foreign
    BY <1>1, <1>3, <2>2 DEF Counted
  <2> QED BY <1>1, <2>1, <2>2, <2>3, QuietBecome
<1>4. CASE ~ (Top(t).proc = "allocate" /\ Top(t).got = null)
  <2>1. Returns(t, Top(t))
    BY <1>4 DEF mutex_unlock
  <2>2. CASE Reporting(Top(t))
    <3>1. foreign' = foreign
      BY <1>1, <2>2 DEF Reporting
    <3> QED BY <1>1, <2>1, <2>2, <3>1, ReportReturns
  <2>3. CASE ~ Reporting(Top(t))
    <3>1. ~ Counted(Top(t)) /\ foreign' \subseteq foreign
      BY <1>1, <2>3 DEF Reporting, Counted
    <3> QED BY <1>1, <2>1, <2>3, <3>1, PlainReturnCounts
  <2> QED BY <2>2, <2>3
<1> QED BY <1>3, <1>4

-----------------------------------------------------------------------------
LEMMA NewCallCounts ==
  ASSUME MemoryInv, CountInv, NEW t \in Threads, NEW a \in Act, Call(t, a),
         Faithful(a), a.at # "logged", Counted(a) <=> a.proc = "free_report",
         NEW N, N \cap Named = {},
         a.proc = "report" => a.block \in N, a.proc = "free_report" => a.block \in reported,
         a.proc = "free" => a.block \in Allocated, Reporting(a) => up,
         reported' = IF a.proc = "free_report" THEN reported \ {a.block} ELSE reported
  PROVE  CountInv'
<1>1. /\ stack[t] = <<>> /\ stack' = [stack EXCEPT ![t] = <<a>>]
      /\ up' = up /\ heap' = heap /\ foreign' = foreign /\ counters' = counters
      /\ refused' = refused /\ strays' = strays
  BY DEF Call, Idle
<1>2. stack'[t] = <<a>> /\ \A u \in Threads \ {t} : stack'[u] = stack[u]
  BY <1>1 DEF MemoryInv, StacksOK
<1> DEFINE r == stack'[t]
<1>3. r # <<>> /\ Len(r) = 1 /\ r[1] = a /\ Last(r) = a
  BY <1>2 DEF Last
<1>4. Reports(stack[t]) = {} /\ Counts(stack[t]) = {}
  BY <1>1 DEF Reports, Counts
<1> HIDE DEF r
<1>5. 1 .. Len(r) = {1}
  BY <1>3
<1>6. Alone(r) /\ \A i \in 1 .. Len(r) : Faithful(r[i]) /\ ~ (r[i].proc = "free" /\ r[i].at = "logged")
  BY <1>3, <1>5 DEF Alone
<1>7. /\ Reports(r) = IF Reporting(a) THEN {a.block} ELSE {}
      /\ Counts(r) = IF a.proc = "free_report" THEN {a.block} ELSE {}
  BY <1>3 DEF Reports, Counts
<1>8. Frees(r) \subseteq Allocated
  BY <1>3, <1>5 DEF Frees
<1>9. (heap' \cup reported') \cup Counts(r) = (heap \cup reported) \cup Counts(stack[t])
  BY <1>1, <1>4, <1>7
<1>10. strays' \in {strays, strays + 1} /\ refused' \in {refused, refused + 1}
  BY <1>1
<1>11. CountsRight'
  BY <1>1, <1>2, <1>9, <1>10, CountsSteady DEF r
<1>12. Allocated' = Allocated
  BY <1>1 DEF Allocated
<1>13. /\ Reports(r) \subseteq (Reports(stack[t]) \cup reported) \cup N
       /\ Reports(r) \cap reported' = {}
       /\ reported' \subseteq reported \cup Reports(stack[t])
       /\ Frees(r) \subseteq Frees(stack[t]) \cup Allocated
       /\ Reports(r) # {} => up
  <2>1. Reports(r) \cap reported' = {}
    <3>1. CASE a.proc = "report"
      <4>1. a.block \notin reported
        BY <3>1, NamedBlocks
      <4> QED BY <1>7, <3>1, <4>1
    <3>2. CASE a.proc # "report"
      BY <1>7, <3>2 DEF Reporting
    <3> QED BY <3>1, <3>2
  <2> QED BY <1>7, <1>8, <2>1 DEF Reporting
<1> QED BY <1>1, <1>2, <1>6, <1>11, <1>12, <1>13, ReportMoves DEF r

LEMMA NewCallsCount ==
  ASSUME MemoryInv, OwnerInv, CountInv, NEW t \in Threads, NewCall(t)
  PROVE  CountInv'
<1>1. held \subseteq Block /\ reported \subseteq Block /\ held \subseteq Allocated
  BY DEF MemoryInv, BlocksOK, OwnerInv, Alive
<1>0. {} \cap Named = {}
  OBVIOUS
<1>2. ASSUME NEW n \in Sizes, NEW tag \in Tags, memory_allocate(t, n, tag)
      PROVE  CountInv'
  <2> DEFINE a == Allocating(n, tag)
  <2>1. Call(t, a) /\ reported' = reported
    BY <1>2 DEF memory_allocate
  <2>2. a \in Act /\ a.proc = "allocate" /\ ~ Counted(a) /\ ~ Reporting(a) /\ Faithful(a) /\ a.at # "logged"
    <3>1. a \in Act /\ a.proc = "allocate" /\ ~ Counted(a) /\ ~ Reporting(a)
      BY CalleeCounts, Sized
    <3> QED BY <3>1 DEF Faithful, Allocating, Activation
  <2> HIDE DEF a
  <2>3. QED BY <1>0, <2>1, <2>2, NewCallCounts
<1>3. ASSUME NEW n \in Sizes, NEW tag \in Tags, memory_allocate_report(t, n, tag)
      PROVE  CountInv'
  <2> DEFINE b == NewBlock(n, tag)
             a == Activation("report", "enter", n, tag, b)
             N == {b}
  <2>1. Call(t, a) /\ reported' = reported /\ up
    BY <1>3 DEF memory_allocate_report
  <2>2. b \in Block /\ b \notin Named /\ n \in Nat /\ tag \in AllTags /\ b.size = n /\ b.tag = tag
    <3>1. n \in Nat /\ tag \in AllTags
      BY Sized
    <3>2. b \in Block /\ b \notin Named
      BY <3>1, NewBlockFacts
    <3> QED BY <3>1, <3>2 DEF NewBlock
  <2> HIDE DEF b
  <2>3. /\ a \in Act /\ a.proc = "report" /\ ~ Counted(a) /\ Faithful(a) /\ a.at # "logged"
        /\ a.block = b
    BY <2>2, NullAssumption
       DEF Activation, Act, Frame, Places, Sound, Locking, Counted, Faithful
  <2>4. N \cap Named = {} /\ a.block \in N
    BY <2>2, <2>3
  <2> HIDE DEF a, N
  <2>5. QED BY <2>1, <2>3, <2>4, NewCallCounts
<1>4. ASSUME NEW b \in held, memory_free(t, b)
      PROVE  CountInv'
  <2> DEFINE a == Freeing(b)
  <2>1. Call(t, a) /\ reported' = reported
    BY <1>4 DEF memory_free
  <2>2. /\ a \in Act /\ a.proc = "free" /\ ~ Counted(a) /\ ~ Reporting(a) /\ Faithful(a)
        /\ a.at # "logged" /\ a.block = b
    BY <1>1, CalleeCounts
  <2> HIDE DEF a
  <2>3. QED BY <1>0, <1>1, <2>1, <2>2, NewCallCounts
<1>5. ASSUME NEW b \in held, NEW n \in Sizes, memory_reallocate(t, b, n)
      PROVE  CountInv'
  <2> DEFINE a == Activation("reallocate", "allocate", n, b.tag, b)
  <2>1. Call(t, a) /\ reported' = reported
    BY <1>5 DEF memory_reallocate
  <2>2. b \in Block /\ b # null /\ n \in Nat /\ b.tag \in AllTags
    BY <1>1, Sized, NullAssumption DEF Block
  <2>3. /\ a \in Act /\ a.proc = "reallocate" /\ ~ Counted(a) /\ ~ Reporting(a) /\ Faithful(a)
        /\ a.at # "logged"
    BY <2>2 DEF Activation, Act, Frame, Places, Sound, Locking, Counted, Reporting, Faithful
  <2> HIDE DEF a
  <2>4. QED BY <1>0, <2>1, <2>3, NewCallCounts
<1>6. ASSUME NEW b \in reported, memory_free_report(t, b)
      PROVE  CountInv'
  <2> DEFINE a == Activation("free_report", "enter", b.size, b.tag, b)
  <2>1. Call(t, a) /\ reported' = reported \ {b} /\ up
    BY <1>6 DEF memory_free_report
  <2>2. b \in Block /\ b # null /\ b.size \in Nat /\ b.tag \in AllTags
    BY <1>1, NullAssumption DEF Block
  <2>3. /\ a \in Act /\ a.proc = "free_report" /\ Counted(a) /\ Faithful(a)
        /\ a.at # "logged" /\ a.block = b
    BY <2>2 DEF Activation, Act, Frame, Places, Sound, Locking, Counted, Faithful
  <2> HIDE DEF a
  <2>4. QED BY <1>0, <2>1, <2>3, NewCallCounts
<1>7. ASSUME NEW n \in Sizes, log_output(t, n)
      PROVE  CountInv'
  <2> DEFINE a == Logging(n)
  <2>1. Call(t, a) /\ reported' = reported
    BY <1>7 DEF log_output
  <2>2. a \in Act /\ a.proc = "log" /\ ~ Counted(a) /\ ~ Reporting(a) /\ Faithful(a) /\ a.at # "logged"
    <3>1. a \in Act /\ a.proc = "log" /\ ~ Counted(a) /\ ~ Reporting(a)
      BY CalleeCounts, Sized
    <3> QED BY <3>1 DEF Faithful, Logging, Activation
  <2> HIDE DEF a
  <2>3. QED BY <1>0, <2>1, <2>2, NewCallCounts
<1>8. QED BY <1>2, <1>3, <1>4, <1>5, <1>6, <1>7 DEF NewCall

-----------------------------------------------------------------------------
LEMMA IdleCounts ==
  /\ Counts(<<>>) = {} /\ Reports(<<>>) = {} /\ Frees(<<>>) = {}
  /\ Len(<<>>) = 0 /\ Alone(<<>>)
BY DEF Counts, Reports, Frees, Alone

LEMMA SystemCounts ==
  ASSUME MemoryInv, OwnerInv, CountInv, memory_system_initialize \/ memory_system_shutdown
  PROVE  CountInv'
<1>1. /\ stack' = stack /\ foreign' = foreign /\ counters' = NothingCounted
      /\ strays' = 0 /\ \A t \in Threads : stack[t] = <<>>
      /\ heap' \subseteq heap /\ reported' \subseteq reported
      /\ \/ ~ up /\ heap' = heap /\ reported' = reported /\ up' = TRUE
         \/ up' = FALSE /\ reported' = {}
  BY DEF memory_system_initialize, memory_system_shutdown, Idle
<1>2. \A t \in Threads : /\ Counts(stack'[t]) = {} /\ Reports(stack'[t]) = {} /\ Frees(stack'[t]) = {}
                         /\ Len(stack'[t]) = 0 /\ Alone(stack'[t])
  BY <1>1, IdleCounts
<1>3. \A t \in Threads : 1 .. Len(stack'[t]) = {}
  BY <1>2
<1>4. reported' \cap Allocated' = {}
  BY <1>1 DEF CountInv, ReportsApart, Allocated
<1>5. ReportsApart'
  BY <1>2, <1>4 DEF ReportsApart, Allocated, Reports, Reporting, Frees
<1>6. CountsRight'
  <2> SUFFICES ASSUME up' PROVE counters' = Tally(Booked')
    BY DEF CountsRight
  <2>1. heap' = {} /\ reported' = {}
    BY <1>1 DEF OwnerInv, UpOK, CountInv
  <2>2. Booked' = {}
    <3>1. Booked' = (heap' \cup reported') \cup UNION {Counts(stack'[t]) : t \in Threads}
      BY DEF Booked, Counts, Counted
    <3> QED BY <1>2, <2>1, <3>1
  <2>3. Tally({}) = NothingCounted
    BY TallyFacts, FS_EmptySet
  <2> QED BY <1>1, <2>2, <2>3
<1>7. ~ up' => reported' = {}
  BY <1>1
<1> QED BY <1>2, <1>3, <1>5, <1>6, <1>7 DEF CountInv, Fine, Alone, Faithful, Reports, Reporting

LEMMA StepCounts ==
  ASSUME MemoryInv, OwnerInv, CountInv, NEW t \in Threads, Step(t)
  PROVE  CountInv'
BY LockCounts, UnlockCounts, StoreCountersCounts, AllocateGrantedCounts, AllocateRefusedCounts,
   AllocateComplainsCounts, AllocateOutsideCounts, FreeOutsideCounts, FreeOwnCounts,
   FreeForeignCounts, FreeForeignLoadsCounts, ReallocateAllocatesCounts, ReallocateCopiesCounts,
   LogFormatsCounts, LogPrefixesCounts, LogWritesCounts, LogReleasesCounts, CallReturnsCounts
   DEF Step

LEMMA CountNext == MemoryInv /\ OwnerInv /\ CountInv /\ [Next]_vars => CountInv'
<1> SUFFICES ASSUME MemoryInv, OwnerInv, CountInv, [Next]_vars PROVE CountInv'
  OBVIOUS
<1>1. CASE memory_system_initialize \/ memory_system_shutdown
  BY <1>1, SystemCounts
<1>2. CASE \E t \in Threads : NewCall(t) \/ Step(t)
  BY <1>2, NewCallsCount, StepCounts
<1>3. CASE UNCHANGED vars
  <2>1. /\ stack' = stack /\ heap' = heap /\ foreign' = foreign /\ reported' = reported
        /\ up' = up /\ counters' = counters /\ refused' = refused /\ strays' = strays
    BY <1>3 DEF vars
  <2>2. Booked' = Booked /\ ReportsApart'
    BY <2>1 DEF CountInv, Booked, Counts, Counted, ReportsApart, Allocated, Reports, Reporting, Frees
  <2>3. CountsRight'
    BY <2>1, <2>2 DEF CountInv, CountsRight
  <2> QED BY <2>1, <2>2, <2>3 DEF CountInv, Fine, Alone, Faithful, Reports, Reporting
<1>4. QED BY <1>1, <1>2, <1>3 DEF Next

LEMMA CountInit == Init => CountInv
<1> SUFFICES ASSUME Init PROVE CountInv
  OBVIOUS
<1>1. /\ heap = {} /\ foreign = {} /\ reported = {} /\ up = FALSE
      /\ \A t \in Threads : stack[t] = <<>>
  BY DEF Init
<1>2. \A t \in Threads : Fine(stack[t])
  BY <1>1, IdleCounts DEF Fine
<1>3. ReportsApart /\ CountsRight /\ \A t \in Threads : Reports(stack[t]) = {}
  BY <1>1, IdleCounts DEF ReportsApart, CountsRight, Allocated
<1> QED BY <1>1, <1>2, <1>3 DEF CountInv

(***************************************************************************)
(* Whenever the mutex is free, the counters are what the blocks of the     *)
(* allocator and the reported ones add up to, in all and for each tag      *)
(* (memory.c:140-142, 169-171, 225-227, 247-249): each load and store is   *)
(* inside the mutex, and what a call counts, no other call counts or takes *)
(* from the count.  Refused requests and blocks of malloc are excepted, as *)
(* in the code.                                                            *)
(***************************************************************************)
THEOREM CountersRight == Spec => []CountersMatch
<1>1. MemoryInv /\ CountInv => CountersMatch
  <2> SUFFICES ASSUME MemoryInv, CountInv, up, owner = null, refused = 0, strays = 0
               PROVE  counters = Tally(Tracking)
    BY DEF CountersMatch
  <2>1. ASSUME NEW t \in Threads
        PROVE  Counts(stack[t]) = IF ~ Idle(t) /\ Top(t).proc = "free_report" THEN {Top(t).block} ELSE {}
    <3>1. CASE Idle(t)
      BY <3>1, IdleCounts DEF Idle
    <3>2. CASE ~ Idle(t)
      <4>1. ~ Inside(Top(t))
        BY <3>2, InsideOwns, MemoryAssumption
      <4>2. Counted(Top(t)) <=> Top(t).proc = "free_report"
        BY <4>1 DEF Counted, Inside, Locking
      <4> QED BY <3>2, <4>2, TopCounts
    <3> QED BY <3>1, <3>2
  <2>2. UNION {Counts(stack[t]) : t \in Threads} = Withdrawing
    BY <2>1 DEF Withdrawing
  <2>3. Booked = Tracking
    BY <2>2 DEF Booked, Tracking
  <2> QED BY <2>3 DEF CountInv, CountsRight
<1>2. QED BY <1>1, MemoryConsistent, OwnInit, OwnNext, InitInv, NextInv, CountInit, CountNext, PTL DEF Spec

-----------------------------------------------------------------------------
(***************************************************************************)
(* Stacks that are not doomed, when the innermost activation changes,      *)
(* calls or returns.                                                       *)
(***************************************************************************)
LEMMA CalmReplace ==
  ASSUME NEW s, NEW r, NEW n \in Nat \ {0}, NEW h, NEW g, NEW a,
         Len(s) = n, r # <<>>, Len(r) = n, r[n] = a, Last(r) = a,
         \A i \in 1 .. n - 1 : r[i] = s[i],
         CalmStack(s, h), ~ Doomed(s),
         \A i \in 1 .. n - 1 :
           s[i].proc \in {"log", "free"} /\ s[i].block \in h => s[i].block \in g,
         a.proc = s[n].proc, a.size = s[n].size, Placed(a, n, g), Answering(a, g)
  PROVE  CalmStack(r, g) /\ ~ Doomed(r)
<1>1. \A i \in 1 .. n : i = n \/ i \in 1 .. n - 1
  OBVIOUS
<1>2. \A i \in 1 .. n - 1 : i \in 1 .. n /\ i # n /\ (i + 1 = n \/ i + 1 \in 1 .. n - 1)
  OBVIOUS
<1>3. ASSUME NEW i \in 1 .. n PROVE Placed(r[i], i, g)
  <2>1. CASE i = n
    BY <2>1
  <2>2. CASE i \in 1 .. n - 1
    <3>1. Placed(s[i], i, h) /\ r[i] = s[i]
      BY <1>2, <2>2 DEF CalmStack
    <3>2. s[i].proc \in {"log", "free"} /\ s[i].block \in h => s[i].block \in g
      BY <2>2
    <3>3. Placed(s[i], i, g)
      <4>1. s[i].proc = "log" /\ s[i].block # null => s[i].block \in g
        BY <3>1, <3>2 DEF Placed
      <4>2. s[i].proc = "free" =>
              i <= IF s[i].at = "logged" \/ (s[i].at \in {"enter", "locked"} /\ s[i].block \notin g)
                   THEN 2 ELSE 4
        <5>1. s[i].proc = "free" =>
                i <= IF s[i].at = "logged" \/ (s[i].at \in {"enter", "locked"} /\ s[i].block \notin h)
                     THEN 2 ELSE 4
          BY <3>1 DEF Placed
        <5> QED BY <3>2, <5>1
      <4> QED BY <3>1, <4>1, <4>2 DEF Placed
    <3> QED BY <3>1, <3>3
  <2> QED BY <1>1, <2>1, <2>2
<1>4. ASSUME NEW i \in 1 .. n - 1 PROVE Follows(r[i], r[i + 1])
  <2>1. Follows(s[i], s[i + 1]) /\ r[i] = s[i]
    BY DEF CalmStack
  <2>2. r[i + 1].proc = s[i + 1].proc /\ r[i + 1].size = s[i + 1].size
    BY <1>2
  <2> QED BY <2>1, <2>2 DEF Follows, Modest
<1>5. ~ Doomed(r)
  BY DEF Doomed
<1> QED BY <1>3, <1>4, <1>5 DEF CalmStack

LEMMA CalmCall ==
  ASSUME NEW s, NEW r, NEW n \in Nat \ {0}, NEW h, NEW a, NEW c,
         Len(s) = n, r # <<>>, Len(r) = n + 1, r[n + 1] = c, Last(r) = c, r[n] = a,
         \A i \in 1 .. n - 1 : r[i] = s[i],
         CalmStack(s, h), ~ Doomed(s),
         a.proc = s[n].proc, a.size = s[n].size, ~ (a.proc = "allocate" /\ Modest(a)),
         Placed(a, n, h), Placed(c, n + 1, h), Follows(a, c), Answering(c, h)
  PROVE  CalmStack(r, h) /\ ~ Doomed(r)
<1>1. /\ \A i \in 1 .. n + 1 : i = n + 1 \/ i = n \/ i \in 1 .. n - 1
      /\ (n + 1) - 1 = n /\ n # n + 1
  OBVIOUS
<1>2. \A i \in 1 .. n : i = n \/ (i \in 1 .. n - 1 /\ (i + 1 = n \/ i + 1 \in 1 .. n - 1))
  OBVIOUS
<1>2a. \A i \in 1 .. n - 1 : i \in 1 .. n
  OBVIOUS
<1>3. \A i \in 1 .. n + 1 : Placed(r[i], i, h)
  BY <1>1, <1>2a DEF CalmStack
<1>4. ASSUME NEW i \in 1 .. n PROVE Follows(r[i], r[i + 1])
  <2>1. CASE i = n
    BY <2>1
  <2>2. CASE i # n
    <3>1. Follows(s[i], s[i + 1]) /\ r[i] = s[i]
      BY <1>2, <2>2 DEF CalmStack
    <3>2. r[i + 1].proc = s[i + 1].proc /\ r[i + 1].size = s[i + 1].size
      BY <1>2, <2>2
    <3> QED BY <3>1, <3>2 DEF Follows, Modest
  <2> QED BY <2>1, <2>2
<1>5. ~ Doomed(r)
  <2>1. \A i \in 1 .. n : ~ (r[i].proc = "allocate" /\ Modest(r[i]))
    BY <1>2 DEF Doomed
  <2> QED BY <1>1, <2>1 DEF Doomed
<1> QED BY <1>1, <1>3, <1>4, <1>5 DEF CalmStack

LEMMA CalmReturn ==
  ASSUME NEW s \in Seq(Act), NEW r, NEW n \in Nat \ {0}, NEW h, NEW b,
         Len(s) = n, Len(r) = n - 1, n = 1 => r = <<>>,
         n # 1 => /\ r # <<>> /\ Last(r) = r[n - 1]
                  /\ Last(r) = [s[n - 1] EXCEPT !.got = b]
                  /\ \A i \in 1 .. n - 2 : r[i] = s[i],
         CalmStack(s, h), ~ Doomed(s),
         s[n].proc = "allocate" /\ Modest(s[n]) => b # null, b # null => b \in h
  PROVE  CalmStack(r, h) /\ ~ Doomed(r)
<1>1. CASE n = 1
  <2>1. r = <<>> /\ Len(r) = 0
    BY <1>1
  <2> QED BY <2>1 DEF CalmStack, Doomed
<1>2. CASE n # 1
  <2> DEFINE m == n - 1
  <2>1. /\ m \in Nat \ {0} /\ m \in 1 .. m /\ m + 1 = n /\ m \in 1 .. n
        /\ \A i \in 1 .. m : i \in 1 .. n /\ i \in 1 .. n - 1 /\ (i = m \/ i \in 1 .. n - 2)
        /\ \A i \in 1 .. m - 1 : i \in 1 .. n - 2 /\ i \in 1 .. n - 1 /\ i \in 1 .. m
                                 /\ i + 1 \in 1 .. m
    BY <1>2
  <2>2. /\ Last(r) = r[m] /\ r[m] = [s[m] EXCEPT !.got = b]
        /\ \A i \in 1 .. n - 2 : r[i] = s[i]
    BY <1>2
  <2>2a. m = n - 1
    OBVIOUS
  <2> HIDE DEF m
  <2>3. s[m] \in Act
    BY <2>1
  <2>4. /\ r[m].proc = s[m].proc /\ r[m].at = s[m].at /\ r[m].size = s[m].size
        /\ r[m].block = s[m].block /\ r[m].got = b
    BY <2>2, <2>3 DEF Act, Frame
  <2>5. \A i \in 1 .. m : /\ r[i].proc = s[i].proc /\ r[i].at = s[i].at /\ r[i].size = s[i].size
                          /\ r[i].block = s[i].block
    BY <2>1, <2>2, <2>4
  <2>6. ASSUME NEW i \in 1 .. m PROVE Placed(r[i], i, h)
    <3>1. Placed(s[i], i, h)
      BY <2>1 DEF CalmStack
    <3>2. /\ r[i].proc = s[i].proc /\ r[i].at = s[i].at /\ r[i].size = s[i].size
          /\ r[i].block = s[i].block
      BY <2>5
    <3> QED BY <3>1, <3>2 DEF Placed, Modest
  <2>7. ASSUME NEW i \in 1 .. m - 1 PROVE Follows(r[i], r[i + 1])
    <3>1. Follows(s[i], s[i + 1])
      BY <2>1 DEF CalmStack
    <3>2. /\ r[i].proc = s[i].proc /\ r[i].at = s[i].at /\ r[i].size = s[i].size
          /\ r[i + 1].proc = s[i + 1].proc /\ r[i + 1].size = s[i + 1].size
      BY <2>1, <2>5
    <3> QED BY <3>1, <3>2 DEF Follows, Modest
  <2>8. \A i \in 1 .. m : ~ (s[i].proc = "allocate" /\ Modest(s[i]))
    BY <2>1 DEF Doomed
  <2>9. ~ Doomed(r)
    <3>1. \A i \in 1 .. m - 1 : ~ (r[i].proc = "allocate" /\ Modest(r[i]))
      BY <2>1, <2>5, <2>8 DEF Modest
    <3> QED BY <2>2a, <3>1 DEF Doomed
  <2>10. Answering(Last(r), h)
    <3>1. Follows(s[m], s[n])
      BY <2>1 DEF CalmStack
    <3>2. r[m].proc = "log" /\ Modest(r[m]) /\ r[m].at \in {"prefix", "write"} => b # null
      BY <2>4, <3>1 DEF Follows, Modest
    <3>3. ~ (r[m].proc = "allocate" /\ Modest(r[m]))
      BY <2>1, <2>4, <2>8 DEF Modest
    <3> QED BY <2>2, <2>4, <3>2, <3>3 DEF Answering
  <2> QED BY <2>2a, <2>6, <2>7, <2>9, <2>10 DEF CalmStack
<1> QED BY <1>1, <1>2

LEMMA CalmSteady ==
  ASSUME NEW s \in Seq(Act), NEW h, NEW g, null \notin h, CalmStack(s, h),
         \A k \in Nat : Own(s, k) \cap h \subseteq g
  PROVE  CalmStack(s, g)
<1> DEFINE n == Len(s)
<1>1. n \in Nat /\ (s # <<>> => n \in Nat \ {0})
  OBVIOUS
<1>2. \A i \in 1 .. n : i \in Nat /\ Own(s, i) = Given(s[i])
  BY <1>1 DEF Own
<1>3. s # <<>> => n + 1 \in Nat /\ n + 1 \notin 1 .. n /\ Own(s, n + 1) = {Last(s).got} \ {null}
  BY <1>1 DEF Own
<1> HIDE DEF n
<1>4. ASSUME NEW i \in 1 .. n PROVE Placed(s[i], i, g)
  <2>1. Placed(s[i], i, h)
    BY DEF CalmStack, n
  <2>2. Given(s[i]) \cap h \subseteq g
    BY <1>2
  <2>3. s[i].proc \in {"log", "free"} /\ s[i].block \in h => s[i].block \in g
    BY <2>2 DEF Given
  <2>4. s[i].proc = "log" /\ s[i].block # null => s[i].block \in g
    BY <2>1, <2>3 DEF Placed
  <2>5. s[i].proc = "free" =>
          i <= IF s[i].at = "logged" \/ (s[i].at \in {"enter", "locked"} /\ s[i].block \notin g)
               THEN 2 ELSE 4
    <3>1. s[i].proc = "free" =>
            i <= IF s[i].at = "logged" \/ (s[i].at \in {"enter", "locked"} /\ s[i].block \notin h)
                 THEN 2 ELSE 4
      BY <2>1 DEF Placed
    <3> QED BY <2>3, <3>1
  <2> QED BY <2>1, <2>4, <2>5 DEF Placed
<1>5. s # <<>> => Answering(Last(s), g)
  <2> SUFFICES ASSUME s # <<>> PROVE Answering(Last(s), g)
    OBVIOUS
  <2>1. Answering(Last(s), h) /\ ({Last(s).got} \ {null}) \cap h \subseteq g
    BY <1>3 DEF CalmStack
  <2> QED BY <2>1 DEF Answering
<1> QED BY <1>4, <1>5 DEF CalmStack, n

\* A step of t takes no block from the allocator but its innermost activation's,
\* and no thread's mutex or memory.
TakesItsOwn(t) ==
  /\ \A u \in Threads, k \in Nat :
       u # t \/ k # Len(stack[t]) => Own(stack[u], k) \cap Usable \subseteq Usable'
  /\ owner \in Threads \ {t} => owner' = owner /\ heap' = heap

LEMMA UsableFacts ==
  ASSUME MemoryInv
  PROVE  null \notin Usable /\ Usable \subseteq Block
BY NullAssumption DEF MemoryInv, BlocksOK, Usable

LEMMA UsableSame ==
  ASSUME up' = up, heap' = heap
  PROVE  Usable' = Usable
BY DEF Usable, Block, AllTags

LEMMA TakesNothing ==
  ASSUME NEW t \in Threads, up' = up, heap' = heap,
         owner \in Threads \ {t} => owner' = owner
  PROVE  TakesItsOwn(t) /\ Usable' = Usable
BY UsableSame DEF TakesItsOwn

\* Threads that do not run, and a process that does not die.
LEMMA DepthMoves ==
  ASSUME MemoryInv, DepthInv, NEW t \in Threads,
         \A u \in Threads \ {t} : stack'[u] = stack[u],
         ~ dead', TakesItsOwn(t), Deep(t)'
  PROVE  DepthInv'
<1>1. ASSUME NEW u \in Threads \ {t} PROVE Deep(u)'
  <2>1. Deep(u) /\ stack'[u] = stack[u] /\ stack[u] \in Seq(Act)
    BY DEF DepthInv, MemoryInv, StacksOK
  <2>2. CASE Doomed(stack[u])
    <3>1. owner = u /\ ~ Fits(LogSize) /\ Sinking(Top(u))
      BY <2>1, <2>2 DEF Deep
    <3>2. owner' = u /\ heap' = heap
      BY <3>1 DEF TakesItsOwn
    <3>3. Top(u)' = Top(u) /\ ~ Fits(LogSize)'
      BY <2>1, <3>1, <3>2 DEF Top, Fits
    <3>4. Doomed(stack'[u])
      BY <2>1, <2>2
    <3> QED BY <3>1, <3>2, <3>3, <3>4 DEF Deep
  <2>3. CASE ~ Doomed(stack[u])
    <3>1. CalmStack(stack[u], Usable)
      BY <2>1, <2>3 DEF Deep
    <3>2. \A k \in Nat : Own(stack[u], k) \cap Usable \subseteq Usable'
      BY DEF TakesItsOwn
    <3>3. CalmStack(stack[u], Usable')
      BY <2>1, <3>1, <3>2, CalmSteady, UsableFacts
    <3> QED BY <2>1, <2>3, <3>3 DEF Deep
  <2> QED BY <2>2, <2>3
<1> QED BY <1>1 DEF DepthInv

\* The stack of a thread that is not doomed.
LEMMA CalmTop ==
  ASSUME MemoryInv, DepthInv, NEW t \in Threads, ~ Idle(t), ~ Doomed(stack[t])
  PROVE  /\ CalmStack(stack[t], Usable)
         /\ Placed(Top(t), Len(stack[t]), Usable) /\ Answering(Top(t), Usable)
<1>1. CalmStack(stack[t], Usable)
  BY DEF DepthInv, Deep
<1>2. /\ stack[t] # <<>> /\ Len(stack[t]) \in 1 .. Len(stack[t])
      /\ Top(t) = stack[t][Len(stack[t])] /\ Top(t) = Last(stack[t])
  BY TopOfStack
<1> QED BY <1>1, <1>2 DEF CalmStack

LEMMA DepthBecome ==
  ASSUME MemoryInv, DepthInv, NEW t \in Threads, ~ dead, ~ Idle(t), ~ Doomed(stack[t]),
         NEW a \in Act, Become(t, a), a.proc = Top(t).proc, a.size = Top(t).size,
         TakesItsOwn(t), Placed(a, Len(stack[t]), Usable'), Answering(a, Usable')
  PROVE  DepthInv'
<1> DEFINE s == stack[t]
           r == stack'[t]
           n == Len(stack[t])
<1>1. /\ \A u \in Threads \ {t} : stack'[u] = stack[u]
      /\ r # <<>> /\ Len(r) = n /\ Last(r) = a /\ r[n] = a
      /\ \A i \in 1 .. n - 1 : r[i] = s[i]
      /\ dead' = dead
  BY BecomeShape
<1>2. /\ n \in Nat \ {0} /\ s \in Seq(Act) /\ s[n] = Top(t) /\ Len(s) = n
  BY TopOfStack
<1>3. CalmStack(s, Usable) /\ ~ Doomed(s)
  BY CalmTop
<1>4. ASSUME NEW i \in 1 .. n - 1, s[i].proc \in {"log", "free"}, s[i].block \in Usable
      PROVE  s[i].block \in Usable'
  <2>1. i \in Nat /\ i # n /\ i \in 1 .. n
    BY <1>2
  <2>2. Own(s, i) \cap Usable \subseteq Usable'
    BY <2>1 DEF TakesItsOwn
  <2>3. Own(s, i) = Given(s[i])
    BY <1>2, <2>1 DEF Own
  <2> QED BY <1>4, <2>2, <2>3, UsableFacts DEF Given
<1>5. Placed(a, n, Usable') /\ Answering(a, Usable')
  OBVIOUS
<1> DEFINE h == Usable
           g == Usable'
<1> HIDE DEF s, r, n, h, g
<1>6. \A i \in 1 .. n - 1 : s[i].proc \in {"log", "free"} /\ s[i].block \in h => s[i].block \in g
  BY <1>4 DEF h, g
<1>7. CalmStack(s, h) /\ Placed(a, n, g) /\ Answering(a, g)
  BY <1>3, <1>5 DEF h, g
<1>8. CalmStack(r, g) /\ ~ Doomed(r)
  <2>1. a.proc = s[n].proc /\ a.size = s[n].size
    BY <1>2
  <2> QED BY <1>1, <1>2, <1>3, <1>6, <1>7, <2>1, CalmReplace
<1>9. Deep(t)'
  BY <1>8 DEF Deep, r, g
<1> QED BY <1>1, <1>9, DepthMoves

LEMMA DepthCall ==
  ASSUME MemoryInv, DepthInv, NEW t \in Threads, ~ dead, ~ Idle(t), ~ Doomed(stack[t]),
         NEW a \in Act, NEW c \in Act, BecomeAndCall(t, a, c),
         a.proc = Top(t).proc, a.size = Top(t).size, ~ (a.proc = "allocate" /\ Modest(a)),
         up' = up, heap' = heap, owner' = owner, Len(stack[t]) <= 3,
         Placed(a, Len(stack[t]), Usable), Placed(c, Len(stack[t]) + 1, Usable),
         Follows(a, c), Answering(c, Usable)
  PROVE  DepthInv'
<1> DEFINE s == stack[t]
           r == stack'[t]
           n == Len(stack[t])
<1>1. /\ n \in Nat \ {0} /\ s \in Seq(Act) /\ s[n] = Top(t) /\ Len(s) = n
  BY TopOfStack
<1>2. /\ dead' = dead
      /\ \A u \in Threads \ {t} : stack'[u] = stack[u]
      /\ r # <<>> /\ Len(r) = n + 1
      /\ Last(r) = c /\ r[n + 1] = c /\ r[n] = a
      /\ \A i \in 1 .. n - 1 : r[i] = s[i]
  <2>1. /\ held' = held /\ reported' = reported
        /\ \/ stack' = stack /\ dead' = TRUE /\ Len(stack[t]) >= MaxStack
           \/ /\ dead' = dead
              /\ \A u \in Threads \ {t} : stack'[u] = stack[u]
              /\ stack'[t] \in Seq(Act) /\ stack'[t] # <<>>
              /\ Len(stack'[t]) = Len(stack[t]) + 1
              /\ Last(stack'[t]) = c /\ stack'[t][Len(stack[t]) + 1] = c
              /\ stack'[t][Len(stack[t])] = a
              /\ \A i \in 1 .. Len(stack[t]) - 1 : stack'[t][i] = stack[t][i]
    BY CallShape
  <2>2. ~ (Len(stack[t]) >= MaxStack)
    BY <1>1, StackAssumption, MemoryAssumption
  <2> QED BY <2>1, <2>2
<1>3. CalmStack(s, Usable) /\ ~ Doomed(s)
  BY CalmTop
<1>4. TakesItsOwn(t) /\ Usable' = Usable
  BY TakesNothing
<1> DEFINE h == Usable
<1>5. Placed(a, n, h) /\ Placed(c, n + 1, h) /\ Answering(c, h) /\ CalmStack(s, h)
  BY <1>3
<1>5a. Usable' = h
  BY <1>4
<1> HIDE DEF s, r, n, h
<1>6. CalmStack(r, h) /\ ~ Doomed(r)
  <2>1. a.proc = s[n].proc /\ a.size = s[n].size
    BY <1>1
  <2> QED BY <1>1, <1>2, <1>3, <1>5, <2>1, CalmCall
<1>7. Deep(t)'
  BY <1>5a, <1>6 DEF Deep, r
<1> QED BY <1>2, <1>4, <1>7, DepthMoves

LEMMA DepthReturn ==
  ASSUME MemoryInv, DepthInv, NEW t \in Threads, ~ dead, ~ Idle(t), ~ Doomed(stack[t]),
         NEW a \in Act, Returns(t, a), up' = up, heap' = heap,
         owner \in Threads \ {t} => owner' = owner,
         Top(t).proc = "allocate" /\ Modest(Top(t)) => a.got # null,
         a.got # null => a.got \in Usable
  PROVE  DepthInv'
<1> DEFINE s == stack[t]
           r == stack'[t]
           n == Len(stack[t])
           b == a.got
<1>1. /\ n \in Nat \ {0} /\ s \in Seq(Act) /\ s[n] = Top(t) /\ Len(s) = n
  BY TopOfStack
<1>2. /\ \A u \in Threads \ {t} : stack'[u] = stack[u]
      /\ Len(r) = n - 1
      /\ n = 1 => r = <<>>
      /\ n # 1 => /\ r # <<>> /\ Last(r) = r[n - 1]
                  /\ Last(r) = [s[n - 1] EXCEPT !.got = b]
                  /\ \A i \in 1 .. n - 2 : r[i] = s[i]
      /\ dead' = dead
  BY ReturnShape
<1>3. CalmStack(s, Usable) /\ ~ Doomed(s)
  BY CalmTop
<1>4. TakesItsOwn(t) /\ Usable' = Usable
  BY TakesNothing
<1> DEFINE h == Usable
<1>5. CalmStack(s, h) /\ (b # null => b \in h) /\ Usable' = h
  BY <1>3, <1>4
<1>6. s[n].proc = "allocate" /\ Modest(s[n]) => b # null
  BY <1>1
<1> HIDE DEF s, r, n, h, b
<1>7. CalmStack(r, h) /\ ~ Doomed(r)
  BY <1>1, <1>2, <1>3, <1>5, <1>6, CalmReturn
<1>8. Deep(t)'
  BY <1>5, <1>7 DEF Deep, r
<1> QED BY <1>2, <1>4, <1>8, DepthMoves

\* A thread whose modest request is refused, or was, may run out of stack.
LEMMA DepthSinks ==
  ASSUME MemoryInv, DepthInv, NEW t \in Threads, ~ dead, ~ Idle(t), owner = t, ~ Fits(LogSize),
         NEW a \in Act, NEW c \in Act, BecomeAndCall(t, a, c), Sinking(c),
         (a.proc = "allocate" /\ Modest(a)) \/ Doomed(stack[t]),
         up' = up, heap' = heap, owner' = owner
  PROVE  DepthInv'
<1> DEFINE s == stack[t]
           r == stack'[t]
           n == Len(stack[t])
<1>1. /\ n \in Nat \ {0} /\ s \in Seq(Act)
  BY TopOfStack
<1>2. TakesItsOwn(t) /\ Usable' = Usable /\ ~ Fits(LogSize)'
  BY TakesNothing DEF Fits
<1>3. \/ stack' = stack /\ dead' = TRUE
      \/ /\ dead' = dead
         /\ \A u \in Threads \ {t} : stack'[u] = stack[u]
         /\ Len(r) = n + 1 /\ Last(r) = c /\ r[n] = a
         /\ \A i \in 1 .. n - 1 : r[i] = s[i]
  <2>1. /\ held' = held /\ reported' = reported
        /\ \/ stack' = stack /\ dead' = TRUE /\ Len(stack[t]) >= MaxStack
           \/ /\ dead' = dead
              /\ \A u \in Threads \ {t} : stack'[u] = stack[u]
              /\ stack'[t] \in Seq(Act) /\ stack'[t] # <<>>
              /\ Len(stack'[t]) = Len(stack[t]) + 1
              /\ Last(stack'[t]) = c /\ stack'[t][Len(stack[t]) + 1] = c
              /\ stack'[t][Len(stack[t])] = a
              /\ \A i \in 1 .. Len(stack[t]) - 1 : stack'[t][i] = stack[t][i]
    BY CallShape
  <2> QED BY <2>1
<1>4. CASE stack' = stack /\ dead' = TRUE
  <2>1. \A u \in Threads : Deep(u)'
    <3> SUFFICES ASSUME NEW u \in Threads PROVE Deep(u)'
      OBVIOUS
    <3>1. Deep(u)
      BY DEF DepthInv
    <3>2. Top(u)' = Top(u)
      BY <1>4 DEF Top
    <3>3. CASE Doomed(stack[u])
      BY <1>2, <1>4, <3>1, <3>2, <3>3 DEF Deep
    <3>4. CASE ~ Doomed(stack[u])
      BY <1>2, <1>4, <3>1, <3>4 DEF Deep
    <3> QED BY <3>3, <3>4
  <2>2. \E u \in Threads : ~ Idle(u)'
    BY <1>4 DEF Idle
  <2> QED BY <1>2, <2>1, <2>2 DEF DepthInv
<1>5. CASE /\ dead' = dead
           /\ \A u \in Threads \ {t} : stack'[u] = stack[u]
           /\ Len(r) = n + 1 /\ Last(r) = c /\ r[n] = a
           /\ \A i \in 1 .. n - 1 : r[i] = s[i]
  <2>0. n = Len(s)
    OBVIOUS
  <2> HIDE DEF s, r, n
  <2>1. Doomed(r)
    <3>1. n \in 1 .. Len(r) - 1 /\ \A i \in 1 .. n - 1 : i \in 1 .. Len(r) - 1
      BY <1>1, <1>5
    <3>2. CASE a.proc = "allocate" /\ Modest(a)
      BY <1>5, <3>1, <3>2 DEF Doomed
    <3>3. CASE Doomed(stack[t])
      <4>1. PICK i \in 1 .. n - 1 : s[i].proc = "allocate" /\ Modest(s[i])
        BY <2>0, <3>3 DEF Doomed, s
      <4> QED BY <1>5, <3>1, <4>1 DEF Doomed
    <3> QED BY <3>2, <3>3
  <2>2. Deep(t)'
    <3>1. Top(t)' = c
      BY <1>5 DEF Top, r
    <3> QED BY <1>2, <2>1, <3>1 DEF Deep, r
  <2> QED BY <1>2, <1>5, <2>2, DepthMoves
<1> QED BY <1>3, <1>4, <1>5

-----------------------------------------------------------------------------
\* What a doomed thread can do.
LEMMA DoomedTop ==
  ASSUME DepthInv, NEW t \in Threads, Doomed(stack[t])
  PROVE  /\ owner = t /\ ~ Fits(LogSize) /\ Top(t).size = LogSize
         /\ \/ Top(t).proc = "log" /\ Top(t).at = "format"
            \/ Top(t).proc = "allocate" /\ Top(t).at \in {"enter", "loaded"}
BY DEF DepthInv, Deep, Sinking

LEMMA LogIsModest == LogSize \in Nat /\ LogSize <= LogSize
BY MemoryAssumption

LEMMA LockDepth ==
  ASSUME MemoryInv, OwnerInv, DepthInv, NEW t \in Threads, mutex_lock(t)
  PROVE  DepthInv'
<1> DEFINE a == IF Top(t).proc = "free" THEN [Top(t) EXCEPT !.at = "locked"]
                ELSE [Top(t) EXCEPT !.at = "loaded", !.seen = counters]
           n == Len(stack[t])
<1>1. /\ owner \in {null, t} /\ ~ dead /\ ~ Idle(t) /\ Top(t).proc \in Locking /\ Top(t).at = "enter"
      /\ Become(t, a) /\ owner' = t /\ up' = up /\ heap' = heap
  BY DEF mutex_lock, Enter, At
<1>2. Top(t) \in Act /\ Delivered(Top(t)) /\ counters \in Count
  BY <1>1, TopOwns DEF MemoryInv, ScalarsOK
<1>3. Top(t).got = null
  BY <1>1, <1>2 DEF Delivered, Pending
<1>4. /\ a \in Act /\ a.proc = Top(t).proc /\ a.size = Top(t).size /\ a.block = Top(t).block
      /\ a.got = null /\ a.at = IF Top(t).proc = "free" THEN "locked" ELSE "loaded"
  BY <1>1, <1>2, <1>3 DEF Act, Frame, Places, Sound, Locking
<1> HIDE DEF a
<1>5. TakesItsOwn(t) /\ Usable' = Usable
  <2>1. owner \in Threads \ {t} => owner' = owner
    BY <1>1, MemoryAssumption
  <2> QED BY <1>1, <2>1, TakesNothing
<1>6. CASE Doomed(stack[t])
  <2>1. Top(t).size = LogSize /\ ~ Fits(LogSize) /\ Top(t).proc = "allocate"
    BY <1>1, <1>6, DoomedTop
  <2>2. /\ \A u \in Threads \ {t} : stack'[u] = stack[u]
        /\ Len(stack'[t]) = n /\ Last(stack'[t]) = a /\ dead' = dead
        /\ \A i \in 1 .. n - 1 : stack'[t][i] = stack[t][i]
    BY <1>1, <1>4, BecomeShape
  <2>3. Doomed(stack'[t])
    BY <1>6, <2>2 DEF Doomed
  <2>4. Top(t)' = a
    BY <2>2 DEF Top
  <2>5. Sinking(a)
    BY <1>4, <2>1 DEF Sinking
  <2>6. ~ Fits(LogSize)'
    BY <1>1, <2>1 DEF Fits
  <2>7. Deep(t)'
    BY <1>1, <2>3, <2>4, <2>5, <2>6 DEF Deep
  <2> QED BY <1>1, <1>5, <2>2, <2>7, DepthMoves
<1>7. CASE ~ Doomed(stack[t])
  <2>1. Placed(Top(t), n, Usable) /\ Answering(Top(t), Usable)
    BY <1>1, <1>7, CalmTop
  <2>2. Placed(a, n, Usable') /\ Answering(a, Usable')
    <3>1. Placed(a, n, Usable)
      BY <1>1, <1>4, <2>1 DEF Placed, Modest, Locking
    <3>2. Answering(a, Usable)
      BY <1>1, <1>4, <2>1 DEF Answering, Modest, Locking
    <3> QED BY <1>5, <3>1, <3>2
  <2> QED BY <1>1, <1>4, <1>5, <1>7, <2>2, DepthBecome
<1> QED BY <1>6, <1>7

LEMMA UnlockDepth ==
  ASSUME MemoryInv, OwnerInv, DepthInv, NEW t \in Threads, mutex_unlock(t)
  PROVE  DepthInv'
<1>1. /\ ~ dead /\ ~ Idle(t) /\ Top(t).proc \in Locking /\ Top(t).at = "unlock"
      /\ up' = up /\ heap' = heap
  BY DEF mutex_unlock, At
<1>2. Top(t) \in Act /\ Delivered(Top(t))
  BY <1>1, TopOwns
<1>3. owner = t
  <2>1. Inside(Top(t))
    BY <1>1 DEF Inside
  <2> QED BY <1>1, <2>1, InsideOwns
<1>4. ~ Doomed(stack[t])
  BY <1>1, DoomedTop
<1>5. /\ CalmStack(stack[t], Usable)
      /\ Placed(Top(t), Len(stack[t]), Usable) /\ Answering(Top(t), Usable)
  BY <1>1, <1>4, CalmTop
<1>6. CASE Top(t).proc = "allocate" /\ Top(t).got = null
  <2> DEFINE a == [Top(t) EXCEPT !.at = "complain"]
             n == Len(stack[t])
  <2>1. Become(t, a)
    BY <1>6 DEF mutex_unlock
  <2>2. /\ a \in Act /\ a.proc = Top(t).proc /\ a.size = Top(t).size /\ a.got = null
        /\ a.at = "complain"
    BY <1>2, <1>6 DEF Act, Frame, Places, Sound
  <2> HIDE DEF a
  <2>3. TakesItsOwn(t) /\ Usable' = Usable
    BY <1>1, <1>3, TakesNothing
  <2>4. Placed(a, n, Usable) /\ Answering(a, Usable)
    <3>1. ~ Modest(Top(t)) /\ ~ Modest(a)
      BY <1>1, <1>5, <1>6, <2>2 DEF Answering, Modest
    <3>2. Placed(a, n, Usable)
      BY <1>5, <1>6, <2>2 DEF Placed, Modest
    <3>3. Answering(a, Usable)
      BY <1>6, <2>2, <3>1 DEF Answering
    <3> QED BY <3>2, <3>3
  <2>5. Placed(a, n, Usable') /\ Answering(a, Usable')
    BY <2>3, <2>4
  <2> QED BY <1>1, <1>4, <2>1, <2>2, <2>3, <2>5, DepthBecome
<1>7. CASE ~ (Top(t).proc = "allocate" /\ Top(t).got = null)
  <2>1. Returns(t, Top(t))
    BY <1>7 DEF mutex_unlock
  <2>2. /\ Top(t).proc = "allocate" /\ Modest(Top(t)) => Top(t).got # null
        /\ Top(t).got # null => Top(t).got \in Usable
    BY <1>5, <1>7 DEF Answering
  <2> QED BY <1>1, <1>2, <1>3, <1>4, <2>1, <2>2, DepthReturn
<1> QED BY <1>6, <1>7

LEMMA StoreCountersDepth ==
  ASSUME MemoryInv, OwnerInv, DepthInv, NEW t \in Threads, StoreCounters(t)
  PROVE  DepthInv'
<1> DEFINE a == [Top(t) EXCEPT !.at = "unlock", !.seen = null]
           n == Len(stack[t])
<1>1. /\ ~ dead /\ ~ Idle(t) /\ Top(t).proc \in Locking \ {"allocate"} /\ Top(t).at = "loaded"
      /\ Become(t, a) /\ owner' = owner /\ up' = up /\ heap' = heap
  BY DEF StoreCounters, At
<1>2. Top(t) \in Act /\ Delivered(Top(t))
  BY <1>1, TopOwns
<1>3. Top(t).got = null
  BY <1>1, <1>2 DEF Delivered, Pending
<1>4. /\ a \in Act /\ a.proc = Top(t).proc /\ a.size = Top(t).size /\ a.got = null /\ a.at = "unlock"
  BY <1>1, <1>2, <1>3 DEF Act, Frame, Places, Sound, Locking
<1> HIDE DEF a
<1>5. TakesItsOwn(t) /\ Usable' = Usable
  BY <1>1, TakesNothing
<1>6. ~ Doomed(stack[t])
  BY <1>1, DoomedTop
<1>7. Placed(Top(t), n, Usable)
  BY <1>1, <1>6, CalmTop
<1>8. Placed(a, n, Usable') /\ Answering(a, Usable')
  <2>1. Placed(a, n, Usable)
    BY <1>1, <1>4, <1>7 DEF Placed, Modest, Locking
  <2>2. Answering(a, Usable)
    BY <1>1, <1>4 DEF Answering, Locking
  <2> QED BY <1>5, <2>1, <2>2
<1> QED BY <1>1, <1>4, <1>5, <1>6, <1>8, DepthBecome

LEMMA AllocateGrantedDepth ==
  ASSUME MemoryInv, OwnerInv, DepthInv, NEW t \in Threads, AllocateGranted(t)
  PROVE  DepthInv'
<1> DEFINE b == NewBlock(Top(t).size, Top(t).tag)
           a == [Top(t) EXCEPT !.at = "unlock", !.seen = null, !.got = b]
           n == Len(stack[t])
<1>1. /\ ~ dead /\ ~ Idle(t) /\ Top(t).proc = "allocate" /\ Top(t).at = "loaded"
      /\ Become(t, a) /\ up' = up /\ heap' = heap \cup {b} /\ Fits(Top(t).size)
  BY DEF AllocateGranted, At
<1>2. Top(t) \in Act
  BY <1>1, TopFacts
<1>3. b \in Block /\ b # null
  <2>1. Top(t).size \in Nat /\ Top(t).tag \in AllTags
    BY <1>2 DEF Act, Frame
  <2> QED BY <2>1, NewBlockFacts, NullAssumption
<1> HIDE DEF b
<1>4. /\ a \in Act /\ a.proc = Top(t).proc /\ a.size = Top(t).size /\ a.got = b /\ a.at = "unlock"
  BY <1>1, <1>2, <1>3 DEF Act, Frame, Places, Sound, Locking
<1> HIDE DEF a
<1>5. owner = t /\ up
  <2>1. Inside(Top(t))
    BY <1>1 DEF Inside, Locking
  <2> QED BY <1>1, <2>1, InsideOwns, OwnerUp
<1>6. Usable \subseteq Usable' /\ b \in Usable'
  BY <1>1, <1>5 DEF Usable
<1>7. TakesItsOwn(t)
  BY <1>5, <1>6 DEF TakesItsOwn
<1>8. ~ Doomed(stack[t])
  BY <1>1, DoomedTop
<1>9. Placed(Top(t), n, Usable)
  BY <1>1, <1>8, CalmTop
<1>10. Placed(a, n, Usable') /\ Answering(a, Usable')
  <2>1. Placed(a, n, Usable')
    BY <1>1, <1>4, <1>9 DEF Placed, Modest
  <2>2. Answering(a, Usable')
    BY <1>1, <1>3, <1>4, <1>6 DEF Answering
  <2> QED BY <2>1, <2>2
<1> QED BY <1>1, <1>4, <1>7, <1>8, <1>10, DepthBecome

LEMMA FreeOwnDepth ==
  ASSUME MemoryInv, OwnerInv, DepthInv, NEW t \in Threads, FreeOwn(t)
  PROVE  DepthInv'
<1> DEFINE b == Top(t).block
           a == [Top(t) EXCEPT !.at = "loaded", !.seen = counters]
           n == Len(stack[t])
<1>1. /\ ~ dead /\ ~ Idle(t) /\ Top(t).proc = "free" /\ Top(t).at = "locked"
      /\ Become(t, a) /\ up' = up /\ heap' = heap \ {b} /\ b \in heap
  BY DEF FreeOwn, At
<1>2. Top(t) \in Act /\ Delivered(Top(t)) /\ counters \in Count
  BY <1>1, TopOwns DEF MemoryInv, ScalarsOK
<1>3. Top(t).got = null
  BY <1>1, <1>2 DEF Delivered, Pending
<1>4. /\ a \in Act /\ a.proc = Top(t).proc /\ a.size = Top(t).size /\ a.got = null /\ a.at = "loaded"
  BY <1>1, <1>2, <1>3 DEF Act, Frame, Places, Sound, Locking
<1> HIDE DEF a
<1>5. owner = t /\ up
  <2>1. Inside(Top(t))
    BY <1>1 DEF Inside, Locking
  <2> QED BY <1>1, <2>1, InsideOwns, OwnerUp
<1>6. Usable' = Usable \ {b}
  BY <1>1, <1>5 DEF Usable
<1>7. TakesItsOwn(t)
  <2>1. n \in Nat /\ n \in 1 .. n /\ Top(t) = stack[t][n]
    BY <1>1, TopOfStack
  <2>2. b \in Own(stack[t], n)
    <3>1. b # null
      BY <1>2, <1>1 DEF Act, Sound
    <3>2. Own(stack[t], n) = Given(Top(t))
      BY <2>1 DEF Own
    <3> QED BY <1>1, <3>1, <3>2 DEF Given
  <2> HIDE DEF b
  <2>3. ASSUME NEW u \in Threads, NEW k \in Nat, u # t \/ k # n
        PROVE  Own(stack[u], k) \cap Usable \subseteq Usable'
    <3>1. Own(stack[u], k) \cap Own(stack[t], n) = {}
      BY <2>1, <2>3 DEF OwnerInv, Apart
    <3> QED BY <1>6, <2>2, <3>1
  <2> QED BY <1>5, <2>3 DEF TakesItsOwn
<1>8. ~ Doomed(stack[t])
  BY <1>1, DoomedTop
<1>9. Placed(Top(t), n, Usable)
  BY <1>1, <1>8, CalmTop
<1>10. Placed(a, n, Usable') /\ Answering(a, Usable')
  <2>1. Placed(a, n, Usable')
    <3>1. b \in Usable
      BY <1>1, <1>5 DEF Usable
    <3>2. n <= 4
      BY <1>1, <1>9, <3>1 DEF Placed
    <3> QED BY <1>1, <1>4, <3>2 DEF Placed
  <2>2. Answering(a, Usable')
    BY <1>1, <1>4 DEF Answering
  <2> QED BY <2>1, <2>2
<1> QED BY <1>1, <1>4, <1>7, <1>8, <1>10, DepthBecome

LEMMA FreeForeignLoadsDepth ==
  ASSUME MemoryInv, OwnerInv, DepthInv, NEW t \in Threads, FreeForeignLoads(t)
  PROVE  DepthInv'
<1> DEFINE a == [Top(t) EXCEPT !.at = "loaded", !.seen = counters]
           n == Len(stack[t])
<1>1. /\ ~ dead /\ ~ Idle(t) /\ Top(t).proc = "free" /\ Top(t).at = "logged"
      /\ Become(t, a) /\ owner' = owner /\ up' = up /\ heap' = heap
  BY DEF FreeForeignLoads, At
<1>2. Top(t) \in Act /\ Delivered(Top(t)) /\ counters \in Count
  BY <1>1, TopOwns DEF MemoryInv, ScalarsOK
<1>3. Top(t).got = null
  BY <1>1, <1>2 DEF Delivered, Pending
<1>4. /\ a \in Act /\ a.proc = Top(t).proc /\ a.size = Top(t).size /\ a.got = null /\ a.at = "loaded"
  BY <1>1, <1>2, <1>3 DEF Act, Frame, Places, Sound, Locking
<1> HIDE DEF a
<1>5. TakesItsOwn(t) /\ Usable' = Usable
  BY <1>1, TakesNothing
<1>6. ~ Doomed(stack[t])
  BY <1>1, DoomedTop
<1>7. Placed(Top(t), n, Usable) /\ n \in Nat
  BY <1>1, <1>6, CalmTop, TopOfStack
<1> HIDE DEF n
<1>8. Placed(a, n, Usable') /\ Answering(a, Usable')
  <2>1. Placed(a, n, Usable)
    <3>1. n <= 4
      BY <1>1, <1>7 DEF Placed
    <3> QED BY <1>1, <1>4, <3>1 DEF Placed
  <2>2. Answering(a, Usable)
    BY <1>1, <1>4 DEF Answering
  <2> QED BY <1>5, <2>1, <2>2
<1> QED BY <1>1, <1>4, <1>5, <1>6, <1>8, DepthBecome DEF n

\* The activations that a call starts with.
LEMMA CalleeDepth ==
  /\ \A n \in Nat, tag \in AllTags :
       LET c == Allocating(n, tag) IN
       /\ c \in Act /\ c.proc = "allocate" /\ c.at = "enter" /\ c.size = n /\ c.got = null
       /\ \A h : Answering(c, h)
  /\ \A n \in Nat :
       LET c == Logging(n) IN
       /\ c \in Act /\ c.proc = "log" /\ c.at = "format" /\ c.size = n /\ c.block = null
       /\ c.got = null /\ \A h : Answering(c, h)
  /\ \A b \in Block :
       LET c == Freeing(b) IN
       /\ c \in Act /\ c.proc = "free" /\ c.at = "enter" /\ c.block = b /\ c.got = null
       /\ \A h : Answering(c, h)
<1>1. ASSUME NEW n \in Nat, NEW tag \in AllTags, NEW c, c = Allocating(n, tag)
      PROVE  /\ c \in Act /\ c.proc = "allocate" /\ c.at = "enter" /\ c.size = n /\ c.got = null
             /\ \A h : Answering(c, h)
  BY <1>1, CalleeFacts DEF Allocating, Activation, Answering
<1>2. ASSUME NEW n \in Nat, NEW c, c = Logging(n)
      PROVE  /\ c \in Act /\ c.proc = "log" /\ c.at = "format" /\ c.size = n /\ c.block = null
             /\ c.got = null /\ \A h : Answering(c, h)
  BY <1>2, CalleeFacts DEF Logging, Activation, Answering
<1>3. ASSUME NEW b \in Block, NEW c, c = Freeing(b)
      PROVE  /\ c \in Act /\ c.proc = "free" /\ c.at = "enter" /\ c.block = b /\ c.got = null
             /\ \A h : Answering(c, h)
  BY <1>3, CalleeFacts DEF Freeing, Activation, Answering
<1>4. QED BY <1>1, <1>2, <1>3

\* A line of the engine's own, from the two outermost calls.
LEMMA LogPlaced ==
  ASSUME NEW n \in Nat, n <= 2, NEW h
  PROVE  Placed(Logging(LogSize), n + 1, h)
<1>1. /\ Logging(LogSize).proc = "log" /\ Logging(LogSize).at = "format"
      /\ Logging(LogSize).size = LogSize /\ Logging(LogSize).block = null
  BY CalleeDepth, Sized
<1>2. n + 1 <= 3
  OBVIOUS
<1> QED BY <1>1, <1>2, LogIsModest DEF Placed, Modest

LEMMA AllocateRefusedDepth ==
  ASSUME MemoryInv, OwnerInv, DepthInv, NEW t \in Threads, AllocateRefused(t)
  PROVE  DepthInv'
<1> DEFINE a == [Top(t) EXCEPT !.at = "unlock", !.seen = null]
           c == Logging(LogSize)
           n == Len(stack[t])
<1>1. /\ ~ dead /\ ~ Idle(t) /\ Top(t).proc = "allocate" /\ Top(t).at = "loaded"
      /\ BecomeAndCall(t, a, c) /\ owner' = owner /\ up' = up /\ heap' = heap
      /\ ~ Fits(Top(t).size)
  BY DEF AllocateRefused, At
<1>2. Top(t) \in Act
  BY <1>1, TopFacts
<1>3. /\ c \in Act /\ c.proc = "log" /\ c.at = "format" /\ c.size = LogSize
      /\ \A h : Answering(c, h)
  BY CalleeDepth, Sized
<1>4. /\ a \in Act /\ a.proc = Top(t).proc /\ a.size = Top(t).size /\ a.at = "unlock"
      /\ a.block = Top(t).block
  BY <1>1, <1>2 DEF Act, Frame, Places, Sound, Locking
<1>5. owner = t
  <2>1. Inside(Top(t))
    BY <1>1 DEF Inside, Locking
  <2> QED BY <1>1, <2>1, InsideOwns
<1> HIDE DEF a
<1>6. CASE Modest(Top(t)) \/ Doomed(stack[t])
  <2>1. ~ Fits(LogSize)
    <3>1. CASE Doomed(stack[t])
      BY <3>1, DoomedTop
    <3>2. CASE Modest(Top(t))
      <4> DEFINE h == TotalSize(heap)
      <4>1. h \in Nat /\ Top(t).size \in Nat /\ Capacity \in Nat /\ LogSize \in Nat
        BY <1>2, SizeFacts, MemoryAssumption DEF MemoryInv, BlocksOK, Act, Frame
      <4>2. ~ (h + Top(t).size <= Capacity) /\ Top(t).size <= LogSize
        BY <1>1, <3>2 DEF Fits, Modest
      <4> HIDE DEF h
      <4>3. ~ (h + LogSize <= Capacity)
        BY <4>1, <4>2
      <4> QED BY <4>3 DEF Fits, h
    <3> QED BY <1>6, <3>1, <3>2
  <2>2. (a.proc = "allocate" /\ Modest(a)) \/ Doomed(stack[t])
    BY <1>1, <1>4, <1>6 DEF Modest
  <2>3. Sinking(c)
    BY <1>3 DEF Sinking
  <2> HIDE DEF c
  <2> QED BY <1>1, <1>3, <1>4, <1>5, <2>1, <2>2, <2>3, DepthSinks
<1>7. CASE ~ Modest(Top(t)) /\ ~ Doomed(stack[t])
  <2>1. Placed(Top(t), n, Usable) /\ n \in Nat
    BY <1>1, <1>7, CalmTop, TopOfStack
  <2>2. n <= 2
    BY <1>1, <1>7, <2>1 DEF Placed
  <2>3. Placed(a, n, Usable)
    BY <1>1, <1>4, <2>1 DEF Placed, Modest
  <2>4. Placed(c, n + 1, Usable)
    BY <2>1, <2>2, LogPlaced
  <2>5. ~ (a.proc = "allocate" /\ Modest(a)) /\ Follows(a, c) /\ n <= 3 /\ Answering(c, Usable)
    BY <1>1, <1>3, <1>4, <1>7, <2>1, <2>2 DEF Modest, Follows
  <2> HIDE DEF c
  <2> QED BY <1>1, <1>3, <1>4, <1>7, <2>3, <2>4, <2>5, DepthCall
<1> QED BY <1>6, <1>7

LEMMA AllocateComplainsDepth ==
  ASSUME MemoryInv, OwnerInv, DepthInv, NEW t \in Threads, AllocateComplains(t)
  PROVE  DepthInv'
<1> DEFINE a == [Top(t) EXCEPT !.at = "return"]
           c == Logging(LogSize)
           n == Len(stack[t])
<1>1. /\ ~ dead /\ ~ Idle(t) /\ Top(t).proc = "allocate" /\ Top(t).at = "complain"
      /\ BecomeAndCall(t, a, c) /\ owner' = owner /\ up' = up /\ heap' = heap
  BY DEF AllocateComplains, At
<1>2. Top(t) \in Act
  BY <1>1, TopFacts
<1>3. /\ c \in Act /\ c.proc = "log" /\ c.at = "format" /\ c.size = LogSize
      /\ \A h : Answering(c, h)
  BY CalleeDepth, Sized
<1>4. /\ a \in Act /\ a.proc = Top(t).proc /\ a.size = Top(t).size /\ a.at = "return"
      /\ a.block = Top(t).block
  BY <1>1, <1>2 DEF Act, Frame, Places, Sound, Locking
<1> HIDE DEF a
<1>5. ~ Doomed(stack[t])
  BY <1>1, DoomedTop
<1>6. Placed(Top(t), n, Usable) /\ Answering(Top(t), Usable) /\ n \in Nat
  BY <1>1, <1>5, CalmTop, TopOfStack
<1>7. ~ Modest(Top(t)) /\ n <= 2
  BY <1>1, <1>6 DEF Answering, Placed
<1>8. Placed(a, n, Usable)
  BY <1>1, <1>4, <1>6 DEF Placed, Modest
<1>9. Placed(c, n + 1, Usable)
  BY <1>6, <1>7, LogPlaced
<1>10. ~ (a.proc = "allocate" /\ Modest(a)) /\ Follows(a, c) /\ n <= 3 /\ Answering(c, Usable)
  BY <1>1, <1>3, <1>4, <1>6, <1>7 DEF Modest, Follows
<1> HIDE DEF c
<1> QED BY <1>1, <1>3, <1>4, <1>5, <1>8, <1>9, <1>10, DepthCall

LEMMA AllocateOutsideDepth ==
  ASSUME MemoryInv, OwnerInv, DepthInv, NEW t \in Threads, AllocateOutside(t)
  PROVE  DepthInv'
<1> DEFINE b == NewBlock(Top(t).size, Top(t).tag)
           a == [Top(t) EXCEPT !.got = b]
<1>1. /\ ~ up /\ ~ dead /\ ~ Idle(t) /\ Returns(t, a)
      /\ owner' = owner /\ up' = up /\ heap' = heap
  BY DEF AllocateOutside, At
<1>2. Top(t) \in Act
  BY <1>1, TopFacts
<1>3. b \in Block /\ b # null
  <2>1. Top(t).size \in Nat /\ Top(t).tag \in AllTags
    BY <1>2 DEF Act, Frame
  <2> QED BY <2>1, NewBlockFacts, NullAssumption
<1> HIDE DEF b
<1>4. a \in Act /\ a.got = b
  BY <1>2, <1>3 DEF Act, Frame, Sound
<1> HIDE DEF a
<1>5. ~ Doomed(stack[t])
  BY <1>1, DoomedTop, OwnerUp
<1>6. a.got # null /\ a.got \in Usable
  BY <1>1, <1>3, <1>4 DEF Usable
<1> QED BY <1>1, <1>4, <1>5, <1>6, DepthReturn

\* The end of a call that got nothing.
LEMMA PlainReturnDepth ==
  ASSUME MemoryInv, OwnerInv, DepthInv, NEW t \in Threads, ~ dead, ~ Idle(t),
         Returns(t, Top(t)), ~ Doomed(stack[t]), Top(t).got = null,
         ~ (Top(t).proc = "allocate" /\ Modest(Top(t))),
         owner' = owner, up' = up, heap' = heap
  PROVE  DepthInv'
BY TopFacts, DepthReturn

LEMMA FreeOutsideDepth ==
  ASSUME MemoryInv, OwnerInv, DepthInv, NEW t \in Threads, FreeOutside(t)
  PROVE  DepthInv'
<1>1. /\ ~ dead /\ ~ Idle(t) /\ Top(t).proc = "free" /\ Returns(t, Top(t))
      /\ owner' = owner /\ up' = up /\ heap' = heap
  BY DEF FreeOutside, At
<1>2. Top(t).got = null
  BY <1>1, TopOwns DEF Delivered, Pending
<1>3. ~ Doomed(stack[t])
  BY <1>1, DoomedTop
<1> QED BY <1>1, <1>2, <1>3, PlainReturnDepth

LEMMA CallReturnsDepth ==
  ASSUME MemoryInv, OwnerInv, DepthInv, NEW t \in Threads, CallReturns(t)
  PROVE  DepthInv'
<1>1. /\ ~ dead /\ ~ Idle(t) /\ Top(t).at = "return" /\ Returns(t, Top(t))
      /\ owner' = owner /\ up' = up /\ heap' = heap
  BY DEF CallReturns, At
<1>2. Top(t).got = null
  BY <1>1, TopOwns DEF Delivered, Pending
<1>3. ~ Doomed(stack[t])
  BY <1>1, DoomedTop
<1>4. ~ (Top(t).proc = "allocate" /\ Modest(Top(t)))
  BY <1>1, <1>3, CalmTop DEF Answering
<1> QED BY <1>1, <1>2, <1>3, <1>4, PlainReturnDepth

LEMMA FreeForeignDepth ==
  ASSUME MemoryInv, OwnerInv, DepthInv, NEW t \in Threads, FreeForeign(t)
  PROVE  DepthInv'
<1> DEFINE a == [Top(t) EXCEPT !.at = "logged"]
           c == Logging(LogSize)
           n == Len(stack[t])
<1>1. /\ ~ dead /\ ~ Idle(t) /\ Top(t).proc = "free" /\ Top(t).at = "locked"
      /\ Top(t).block \notin heap
      /\ BecomeAndCall(t, a, c) /\ owner' = owner /\ up' = up /\ heap' = heap
  BY DEF FreeForeign, At
<1>2. Top(t) \in Act
  BY <1>1, TopFacts
<1>3. /\ c \in Act /\ c.proc = "log" /\ c.at = "format" /\ c.size = LogSize
      /\ \A h : Answering(c, h)
  BY CalleeDepth, Sized
<1>4. /\ a \in Act /\ a.proc = Top(t).proc /\ a.size = Top(t).size /\ a.at = "logged"
  BY <1>1, <1>2 DEF Act, Frame, Places, Sound, Locking
<1> HIDE DEF a
<1>5. ~ Doomed(stack[t])
  BY <1>1, DoomedTop
<1>6. Placed(Top(t), n, Usable) /\ n \in Nat
  BY <1>1, <1>5, CalmTop, TopOfStack
<1>7. n <= 2
  <2>1. up
    <3>1. Inside(Top(t))
      BY <1>1 DEF Inside, Locking
    <3> QED BY <1>1, <3>1, InsideOwns, OwnerUp
  <2>2. Top(t).block \notin Usable
    BY <1>1, <2>1 DEF Usable
  <2> QED BY <1>1, <1>6, <2>2 DEF Placed
<1>8. Placed(a, n, Usable)
  BY <1>1, <1>4, <1>7 DEF Placed
<1>9. Placed(c, n + 1, Usable)
  BY <1>6, <1>7, LogPlaced
<1>10. ~ (a.proc = "allocate" /\ Modest(a)) /\ Follows(a, c) /\ n <= 3 /\ Answering(c, Usable)
  BY <1>1, <1>3, <1>4, <1>6, <1>7 DEF Follows
<1> HIDE DEF c
<1> QED BY <1>1, <1>3, <1>4, <1>5, <1>8, <1>9, <1>10, DepthCall

LEMMA ReallocateAllocatesDepth ==
  ASSUME MemoryInv, OwnerInv, DepthInv, NEW t \in Threads, ReallocateAllocates(t)
  PROVE  DepthInv'
<1> DEFINE a == [Top(t) EXCEPT !.at = "copy"]
           c == Allocating(Top(t).size, Top(t).tag)
           n == Len(stack[t])
<1>1. /\ ~ dead /\ ~ Idle(t) /\ Top(t).proc = "reallocate"
      /\ BecomeAndCall(t, a, c) /\ owner' = owner /\ up' = up /\ heap' = heap
  BY DEF ReallocateAllocates, At
<1>2. Top(t) \in Act
  BY <1>1, TopFacts
<1>3. /\ c \in Act /\ c.proc = "allocate" /\ c.at = "enter" /\ \A h : Answering(c, h)
  <2>1. Top(t).size \in Nat /\ Top(t).tag \in AllTags
    BY <1>2 DEF Act, Frame
  <2> QED BY <2>1, CalleeDepth
<1>4. a \in Act /\ a.proc = Top(t).proc /\ a.size = Top(t).size
  BY <1>1, <1>2 DEF Act, Frame, Places, Sound, Locking
<1> HIDE DEF a, c
<1>5. ~ Doomed(stack[t])
  BY <1>1, DoomedTop
<1>6. n = 1
  BY <1>1, <1>5, CalmTop DEF Placed
<1>7. Placed(a, n, Usable) /\ Placed(c, n + 1, Usable)
  <2>1. n + 1 = 2
    BY <1>6
  <2> HIDE DEF n
  <2> QED BY <1>1, <1>3, <1>4, <1>6, <2>1 DEF Placed
<1>8. ~ (a.proc = "allocate" /\ Modest(a)) /\ Follows(a, c) /\ n <= 3 /\ Answering(c, Usable)
  BY <1>1, <1>3, <1>4, <1>6 DEF Follows
<1> QED BY <1>1, <1>3, <1>4, <1>5, <1>7, <1>8, DepthCall

LEMMA ReallocateCopiesDepth ==
  ASSUME MemoryInv, OwnerInv, DepthInv, NEW t \in Threads, ReallocateCopies(t)
  PROVE  DepthInv'
<1>1. /\ ~ dead /\ ~ Idle(t) /\ Top(t).proc = "reallocate"
      /\ owner' = owner /\ up' = up /\ heap' = heap
  BY DEF ReallocateCopies, At
<1>2. Top(t) \in Act /\ Top(t).block \in Block
  BY <1>1, TopFacts DEF Act, Frame, Sound
<1>3. ~ Doomed(stack[t])
  BY <1>1, DoomedTop
<1>4. CASE Top(t).got # null
  <2> DEFINE a == [Top(t) EXCEPT !.at = "return", !.block = Top(t).got]
             c == Freeing(Top(t).block)
             n == Len(stack[t])
  <2>1. BecomeAndCall(t, a, c)
    BY <1>4 DEF ReallocateCopies
  <2>2. c \in Act /\ c.proc = "free" /\ c.at = "enter" /\ \A h : Answering(c, h)
    BY <1>2, CalleeDepth
  <2>3. a \in Act /\ a.proc = Top(t).proc /\ a.size = Top(t).size
    BY <1>1, <1>2, <1>4 DEF Act, Frame, Places, Sound, Locking
  <2> HIDE DEF a, c
  <2>4. n = 1
    BY <1>1, <1>3, CalmTop DEF Placed
  <2>5. Placed(a, n, Usable) /\ Placed(c, n + 1, Usable)
    <3>1. n + 1 = 2
      BY <2>4
    <3> HIDE DEF n
    <3> QED BY <1>1, <2>2, <2>3, <2>4, <3>1 DEF Placed
  <2>6. ~ (a.proc = "allocate" /\ Modest(a)) /\ Follows(a, c) /\ n <= 3 /\ Answering(c, Usable)
    BY <1>1, <2>2, <2>3, <2>4 DEF Follows
  <2> QED BY <1>1, <1>3, <2>1, <2>2, <2>3, <2>5, <2>6, DepthCall
<1>5. CASE Top(t).got = null
  <2>1. Returns(t, Top(t))
    BY <1>5 DEF ReallocateCopies
  <2> QED BY <1>1, <1>3, <1>5, <2>1, PlainReturnDepth
<1> QED BY <1>4, <1>5

-----------------------------------------------------------------------------
LEMMA LogFormatsDepth ==
  ASSUME MemoryInv, OwnerInv, DepthInv, NEW t \in Threads, LogFormats(t)
  PROVE  DepthInv'
<1> DEFINE a == [Top(t) EXCEPT !.at = "prefix"]
           c == Allocating(Top(t).size, StringTag)
           n == Len(stack[t])
<1>1. /\ ~ dead /\ ~ Idle(t) /\ Top(t).proc = "log" /\ Top(t).at = "format"
      /\ BecomeAndCall(t, a, c) /\ owner' = owner /\ up' = up /\ heap' = heap
  BY DEF LogFormats, At
<1>2. Top(t) \in Act /\ Proper(Top(t))
  BY <1>1, TopOwns
<1>3. /\ c \in Act /\ c.proc = "allocate" /\ c.at = "enter" /\ c.size = Top(t).size
      /\ \A h : Answering(c, h)
  <2>1. Top(t).size \in Nat /\ StringTag \in AllTags
    BY <1>2, Sized DEF Act, Frame
  <2> QED BY <2>1, CalleeDepth
<1>4. /\ a \in Act /\ a.proc = Top(t).proc /\ a.size = Top(t).size /\ a.at = "prefix"
      /\ a.block = null
  BY <1>1, <1>2 DEF Act, Frame, Places, Sound, Locking, Proper
<1> HIDE DEF a, c
<1>5. CASE Doomed(stack[t])
  <2>1. owner = t /\ ~ Fits(LogSize) /\ Top(t).size = LogSize
    BY <1>5, DoomedTop
  <2>2. Sinking(c)
    BY <1>3, <2>1 DEF Sinking
  <2> QED BY <1>1, <1>3, <1>4, <1>5, <2>1, <2>2, DepthSinks
<1>6. CASE ~ Doomed(stack[t])
  <2>1. Placed(Top(t), n, Usable) /\ n \in Nat
    BY <1>1, <1>6, CalmTop, TopOfStack
  <2>2. (Modest(Top(t)) => n <= 3) /\ (~ Modest(Top(t)) => n <= 1)
    BY <1>1, <2>1 DEF Placed
  <2>3. Modest(c) <=> Modest(Top(t))
    BY <1>3 DEF Modest
  <2>4. Modest(a) <=> Modest(Top(t))
    BY <1>4 DEF Modest
  <2> HIDE DEF n
  <2>5. Placed(a, n, Usable)
    BY <1>1, <1>4, <2>2, <2>4 DEF Placed
  <2>6. Placed(c, n + 1, Usable)
    <3>1. n + 1 <= IF Modest(c) THEN 4 ELSE 2
      BY <2>1, <2>2, <2>3
    <3> QED BY <1>3, <3>1 DEF Placed
  <2>7. ~ (a.proc = "allocate" /\ Modest(a)) /\ Follows(a, c) /\ n <= 3 /\ Answering(c, Usable)
    BY <1>1, <1>3, <1>4, <2>1, <2>2, <2>3, <2>4 DEF Follows
  <2> QED BY <1>1, <1>3, <1>4, <1>6, <2>5, <2>6, <2>7, DepthCall DEF n
<1> QED BY <1>5, <1>6

LEMMA LogPrefixesDepth ==
  ASSUME MemoryInv, OwnerInv, DepthInv, NEW t \in Threads, LogPrefixes(t)
  PROVE  DepthInv'
<1> DEFINE a == [Top(t) EXCEPT !.at = "write", !.block = Top(t).got]
           m == IF Top(t).got = null THEN LogSize ELSE Top(t).size
           c == Allocating(m, StringTag)
           n == Len(stack[t])
<1>1. /\ ~ dead /\ ~ Idle(t) /\ Top(t).proc = "log" /\ Top(t).at = "prefix"
      /\ BecomeAndCall(t, a, c) /\ owner' = owner /\ up' = up /\ heap' = heap
  BY DEF LogPrefixes, At
<1>2. Top(t) \in Act
  BY <1>1, TopOwns
<1>3. /\ c \in Act /\ c.proc = "allocate" /\ c.at = "enter" /\ c.size = m
      /\ \A h : Answering(c, h)
  <2>1. m \in Nat /\ StringTag \in AllTags
    BY <1>2, Sized DEF Act, Frame
  <2> QED BY <2>1, CalleeDepth
<1>4. /\ a \in Act /\ a.proc = Top(t).proc /\ a.size = Top(t).size /\ a.at = "write"
      /\ a.block = Top(t).got
  BY <1>1, <1>2 DEF Act, Frame, Places, Sound, Locking
<1> HIDE DEF a, c
<1>5. ~ Doomed(stack[t])
  BY <1>1, DoomedTop
<1>6. Placed(Top(t), n, Usable) /\ Answering(Top(t), Usable) /\ n \in Nat
  BY <1>1, <1>5, CalmTop, TopOfStack
<1>7. /\ Modest(Top(t)) => n <= 3 /\ Top(t).got # null
      /\ ~ Modest(Top(t)) => n <= 1
      /\ Top(t).got # null => Top(t).got \in Usable
  BY <1>1, <1>6 DEF Placed, Answering
<1>8. Modest(Top(t)) => Modest(c)
  BY <1>3, <1>7 DEF Modest
<1>9. Modest(a) <=> Modest(Top(t))
  BY <1>4 DEF Modest
<1> HIDE DEF n
<1>10. Placed(a, n, Usable)
  BY <1>1, <1>4, <1>7, <1>9 DEF Placed
<1>11. Placed(c, n + 1, Usable)
  <2>1. n + 1 <= IF Modest(c) THEN 4 ELSE 2
    BY <1>6, <1>7, <1>8
  <2> QED BY <1>3, <2>1 DEF Placed
<1>12. ~ (a.proc = "allocate" /\ Modest(a)) /\ Follows(a, c) /\ n <= 3 /\ Answering(c, Usable)
  BY <1>1, <1>3, <1>4, <1>6, <1>7, <1>8, <1>9 DEF Follows
<1> QED BY <1>1, <1>3, <1>4, <1>5, <1>10, <1>11, <1>12, DepthCall DEF n

\* cstr_free, called by a line at n: a modest line has its string.
LEMMA ReleasePlaced ==
  ASSUME NEW b \in Block \cup {null}, NEW n \in Nat, NEW h, n <= 3,
         n <= 1 \/ (b # null /\ b \in h)
  PROVE  /\ ReleasingString(b) \in Act /\ Placed(ReleasingString(b), n + 1, h)
         /\ Answering(ReleasingString(b), h) /\ ReleasingString(b).proc # "allocate"
<1>1. CASE b = null
  <2>1. ReleasingString(b) = Logging(LogSize)
    BY <1>1 DEF ReleasingString
  <2>2. Logging(LogSize) \in Act /\ Logging(LogSize).proc = "log" /\ \A g : Answering(Logging(LogSize), g)
    BY CalleeDepth, Sized
  <2>3. Placed(Logging(LogSize), n + 1, h)
    BY <1>1, LogPlaced
  <2> QED BY <2>1, <2>2, <2>3
<1>2. CASE b # null
  <2>1. ReleasingString(b) = Freeing(b) /\ b \in Block
    BY <1>2 DEF ReleasingString
  <2>2. /\ Freeing(b) \in Act /\ Freeing(b).proc = "free" /\ Freeing(b).at = "enter"
        /\ Freeing(b).block = b /\ \A g : Answering(Freeing(b), g)
    BY <2>1, CalleeDepth
  <2>3. n + 1 <= IF b \notin h THEN 2 ELSE 4
    OBVIOUS
  <2>4. Placed(Freeing(b), n + 1, h)
    BY <2>2, <2>3 DEF Placed
  <2> QED BY <2>1, <2>2, <2>4
<1> QED BY <1>1, <1>2

LEMMA LogWritesDepth ==
  ASSUME MemoryInv, OwnerInv, DepthInv, NEW t \in Threads, LogWrites(t)
  PROVE  DepthInv'
<1> DEFINE a == [Top(t) EXCEPT !.at = "release", !.block = Top(t).got]
           c == ReleasingString(Top(t).block)
           n == Len(stack[t])
<1>1. /\ ~ dead /\ ~ Idle(t) /\ Top(t).proc = "log" /\ Top(t).at = "write"
      /\ BecomeAndCall(t, a, c) /\ owner' = owner /\ up' = up /\ heap' = heap
  BY DEF LogWrites, At
<1>2. Top(t) \in Act /\ Top(t).block \in Block \cup {null}
  BY <1>1, TopOwns DEF Act, Frame
<1>3. /\ a \in Act /\ a.proc = Top(t).proc /\ a.size = Top(t).size /\ a.at = "release"
      /\ a.block = Top(t).got
  BY <1>1, <1>2 DEF Act, Frame, Places, Sound, Locking
<1> HIDE DEF a
<1>4. ~ Doomed(stack[t])
  BY <1>1, DoomedTop
<1>5. Placed(Top(t), n, Usable) /\ Answering(Top(t), Usable) /\ n \in Nat
  BY <1>1, <1>4, CalmTop, TopOfStack
<1>6. /\ Modest(Top(t)) => /\ n <= 3 /\ Top(t).got # null
                           /\ Top(t).block # null /\ Top(t).block \in Usable
      /\ ~ Modest(Top(t)) => n <= 1
      /\ Top(t).got # null => Top(t).got \in Usable
  BY <1>1, <1>5 DEF Placed, Answering
<1>7. Modest(a) <=> Modest(Top(t))
  BY <1>3 DEF Modest
<1> HIDE DEF n
<1>8. Placed(a, n, Usable)
  BY <1>1, <1>3, <1>6, <1>7 DEF Placed
<1>9. n <= 3
  BY <1>5, <1>6
<1>10. c \in Act /\ Placed(c, n + 1, Usable) /\ Answering(c, Usable)
  BY <1>2, <1>5, <1>6, <1>9, ReleasePlaced
<1>11. ~ (a.proc = "allocate" /\ Modest(a)) /\ Follows(a, c)
  BY <1>1, <1>3 DEF Follows
<1> HIDE DEF c
<1> QED BY <1>1, <1>3, <1>4, <1>8, <1>9, <1>10, <1>11, DepthCall DEF n

LEMMA LogReleasesDepth ==
  ASSUME MemoryInv, OwnerInv, DepthInv, NEW t \in Threads, LogReleases(t)
  PROVE  DepthInv'
<1> DEFINE a == [Top(t) EXCEPT !.at = "return", !.block = null]
           c == ReleasingString(Top(t).block)
           n == Len(stack[t])
<1>1. /\ ~ dead /\ ~ Idle(t) /\ Top(t).proc = "log" /\ Top(t).at = "release"
      /\ BecomeAndCall(t, a, c) /\ owner' = owner /\ up' = up /\ heap' = heap
  BY DEF LogReleases, At
<1>2. Top(t) \in Act /\ Top(t).block \in Block \cup {null}
  BY <1>1, TopOwns DEF Act, Frame
<1>3. /\ a \in Act /\ a.proc = Top(t).proc /\ a.size = Top(t).size /\ a.at = "return"
      /\ a.block = null
  BY <1>1, <1>2 DEF Act, Frame, Places, Sound, Locking
<1> HIDE DEF a
<1>4. ~ Doomed(stack[t])
  BY <1>1, DoomedTop
<1>5. Placed(Top(t), n, Usable) /\ n \in Nat
  BY <1>1, <1>4, CalmTop, TopOfStack
<1>6. /\ Modest(Top(t)) => n <= 3 /\ Top(t).block # null /\ Top(t).block \in Usable
      /\ ~ Modest(Top(t)) => n <= 1
  BY <1>1, <1>5 DEF Placed
<1>7. Modest(a) <=> Modest(Top(t))
  BY <1>3 DEF Modest
<1> HIDE DEF n
<1>8. Placed(a, n, Usable)
  BY <1>1, <1>3, <1>6, <1>7 DEF Placed
<1>9. n <= 3
  BY <1>5, <1>6
<1>10. c \in Act /\ Placed(c, n + 1, Usable) /\ Answering(c, Usable)
  BY <1>2, <1>5, <1>6, <1>9, ReleasePlaced
<1>11. ~ (a.proc = "allocate" /\ Modest(a)) /\ Follows(a, c)
  BY <1>1, <1>3 DEF Follows
<1> HIDE DEF c
<1> QED BY <1>1, <1>3, <1>4, <1>8, <1>9, <1>10, <1>11, DepthCall DEF n

-----------------------------------------------------------------------------
\* A call is calm when it starts.
LEMMA NewCallDepth ==
  ASSUME MemoryInv, DepthInv, NEW t \in Threads, NEW a \in Act, Call(t, a),
         a.at \in {"enter", "format", "allocate"}, a.got = null,
         a.proc = "allocate" => a.at = "enter",
         a.proc = "log" => a.at = "format" /\ a.block = null
  PROVE  DepthInv'
<1>1. /\ stack' = [stack EXCEPT ![t] = <<a>>] /\ ~ dead /\ dead' = dead
      /\ up' = up /\ heap' = heap /\ owner' = owner
  BY DEF Call
<1>2. stack'[t] = <<a>> /\ \A u \in Threads \ {t} : stack'[u] = stack[u]
  BY <1>1 DEF MemoryInv, StacksOK
<1> DEFINE r == stack'[t]
<1>3. r # <<>> /\ Len(r) = 1 /\ r[1] = a /\ Last(r) = a
  BY <1>2 DEF Last
<1>4. TakesItsOwn(t) /\ Usable' = Usable
  BY <1>1, TakesNothing
<1> DEFINE h == Usable'
<1> HIDE DEF r, h
<1>5. 1 .. Len(r) = {1} /\ 1 .. Len(r) - 1 = {}
  BY <1>3
<1>6. Placed(a, 1, h) /\ Answering(a, h)
  BY DEF Placed, Answering
<1>7. CalmStack(r, h) /\ ~ Doomed(r)
  BY <1>3, <1>5, <1>6 DEF CalmStack, Doomed
<1>8. Deep(t)'
  BY <1>7 DEF Deep, r, h
<1> QED BY <1>1, <1>2, <1>4, <1>8, DepthMoves

LEMMA NewCallsDepth ==
  ASSUME MemoryInv, OwnerInv, DepthInv, NEW t \in Threads, NewCall(t)
  PROVE  DepthInv'
<1>1. held \subseteq Block /\ reported \subseteq Block
  BY DEF MemoryInv, BlocksOK
<1>2. ASSUME NEW n \in Sizes, NEW tag \in Tags, memory_allocate(t, n, tag)
      PROVE  DepthInv'
  <2> DEFINE a == Allocating(n, tag)
  <2>1. Call(t, a)
    BY <1>2 DEF memory_allocate
  <2>2. a \in Act /\ a.proc = "allocate" /\ a.at = "enter" /\ a.got = null
    BY CalleeDepth, Sized
  <2> HIDE DEF a
  <2>3. QED BY <2>1, <2>2, NewCallDepth
<1>3. ASSUME NEW n \in Sizes, NEW tag \in Tags, memory_allocate_report(t, n, tag)
      PROVE  DepthInv'
  <2> DEFINE b == NewBlock(n, tag)
             a == Activation("report", "enter", n, tag, b)
  <2>1. Call(t, a)
    BY <1>3 DEF memory_allocate_report
  <2>2. b \in Block /\ n \in Nat /\ tag \in AllTags
    BY Sized, NewBlockFacts
  <2> HIDE DEF b
  <2>3. a \in Act /\ a.proc = "report" /\ a.at = "enter" /\ a.got = null
    BY <2>2, NullAssumption DEF Activation, Act, Frame, Places, Sound, Locking
  <2> HIDE DEF a
  <2>4. QED BY <2>1, <2>3, NewCallDepth
<1>4. ASSUME NEW b \in held, memory_free(t, b)
      PROVE  DepthInv'
  <2> DEFINE a == Freeing(b)
  <2>1. Call(t, a)
    BY <1>4 DEF memory_free
  <2>2. a \in Act /\ a.proc = "free" /\ a.at = "enter" /\ a.got = null
    BY <1>1, CalleeDepth
  <2> HIDE DEF a
  <2>3. QED BY <2>1, <2>2, NewCallDepth
<1>5. ASSUME NEW b \in held, NEW n \in Sizes, memory_reallocate(t, b, n)
      PROVE  DepthInv'
  <2> DEFINE a == Activation("reallocate", "allocate", n, b.tag, b)
  <2>1. Call(t, a)
    BY <1>5 DEF memory_reallocate
  <2>2. b \in Block /\ b # null /\ n \in Nat /\ b.tag \in AllTags
    BY <1>1, Sized, NullAssumption DEF Block
  <2>3. a \in Act /\ a.proc = "reallocate" /\ a.at = "allocate" /\ a.got = null
    BY <2>2 DEF Activation, Act, Frame, Places, Sound, Locking
  <2> HIDE DEF a
  <2>4. QED BY <2>1, <2>3, NewCallDepth
<1>6. ASSUME NEW b \in reported, memory_free_report(t, b)
      PROVE  DepthInv'
  <2> DEFINE a == Activation("free_report", "enter", b.size, b.tag, b)
  <2>1. Call(t, a)
    BY <1>6 DEF memory_free_report
  <2>2. b \in Block /\ b # null /\ b.size \in Nat /\ b.tag \in AllTags
    BY <1>1, NullAssumption DEF Block
  <2>3. a \in Act /\ a.proc = "free_report" /\ a.at = "enter" /\ a.got = null
    BY <2>2 DEF Activation, Act, Frame, Places, Sound, Locking
  <2> HIDE DEF a
  <2>4. QED BY <2>1, <2>3, NewCallDepth
<1>7. ASSUME NEW n \in Sizes, log_output(t, n)
      PROVE  DepthInv'
  <2> DEFINE a == Logging(n)
  <2>1. Call(t, a)
    BY <1>7 DEF log_output
  <2>2. a \in Act /\ a.proc = "log" /\ a.at = "format" /\ a.got = null /\ a.block = null
    BY CalleeDepth, Sized
  <2> HIDE DEF a
  <2>3. QED BY <2>1, <2>2, NewCallDepth
<1>8. QED BY <1>2, <1>3, <1>4, <1>5, <1>6, <1>7 DEF NewCall

-----------------------------------------------------------------------------
LEMMA IdleDepth == ~ Doomed(<<>>) /\ \A h : CalmStack(<<>>, h)
<1>1. 1 .. Len(<<>>) = {} /\ 1 .. Len(<<>>) - 1 = {}
  OBVIOUS
<1> QED BY <1>1 DEF Doomed, CalmStack

LEMMA SystemDepth ==
  ASSUME DepthInv, memory_system_initialize \/ memory_system_shutdown
  PROVE  DepthInv'
<1>1. stack' = stack /\ dead' = dead /\ \A t \in Threads : stack[t] = <<>>
  BY DEF memory_system_initialize, memory_system_shutdown, Idle
<1>2. ~ dead
  BY <1>1 DEF DepthInv, Idle
<1>3. ASSUME NEW t \in Threads PROVE Deep(t)'
  <2>1. stack'[t] = <<>>
    BY <1>1
  <2>2. ~ Doomed(stack'[t]) /\ CalmStack(stack'[t], Usable')
    BY <2>1, IdleDepth
  <2> QED BY <2>2 DEF Deep
<1> QED BY <1>1, <1>2, <1>3 DEF DepthInv

LEMMA StepDepth ==
  ASSUME MemoryInv, OwnerInv, DepthInv, NEW t \in Threads, Step(t)
  PROVE  DepthInv'
BY LockDepth, UnlockDepth, StoreCountersDepth, AllocateGrantedDepth, AllocateRefusedDepth,
   AllocateComplainsDepth, AllocateOutsideDepth, FreeOutsideDepth, FreeOwnDepth, FreeForeignDepth,
   FreeForeignLoadsDepth, ReallocateAllocatesDepth, ReallocateCopiesDepth, LogFormatsDepth,
   LogPrefixesDepth, LogWritesDepth, LogReleasesDepth, CallReturnsDepth DEF Step

LEMMA DepthNext == MemoryInv /\ OwnerInv /\ DepthInv /\ [Next]_vars => DepthInv'
<1> SUFFICES ASSUME MemoryInv, OwnerInv, DepthInv, [Next]_vars PROVE DepthInv'
  OBVIOUS
<1>1. CASE memory_system_initialize \/ memory_system_shutdown
  BY <1>1, SystemDepth
<1>2. CASE \E t \in Threads : NewCall(t) \/ Step(t)
  BY <1>2, NewCallsDepth, StepDepth
<1>3. CASE UNCHANGED vars
  <2>1. stack' = stack /\ heap' = heap /\ up' = up /\ owner' = owner /\ dead' = dead
    BY <1>3 DEF vars
  <2>2. Usable' = Usable
    BY <2>1, UsableSame
  <2>3. Fits(LogSize)' <=> Fits(LogSize)
    BY <2>1 DEF Fits
  <2>4. ASSUME NEW t \in Threads PROVE Deep(t)'
    <3>1. Deep(t)
      BY DEF DepthInv
    <3>2. Top(t)' = Top(t) /\ stack'[t] = stack[t]
      BY <2>1 DEF Top
    <3> QED BY <2>1, <2>2, <2>3, <3>1, <3>2 DEF Deep
  <2>5. \A t \in Threads : Idle(t)' <=> Idle(t)
    BY <2>1 DEF Idle
  <2> QED BY <2>1, <2>3, <2>4, <2>5 DEF DepthInv
<1>4. QED BY <1>1, <1>2, <1>3 DEF Next

LEMMA DepthInit == Init => DepthInv
BY IdleDepth DEF Init, DepthInv, Deep

(***************************************************************************)
(* The process runs out of stack only when there is no memory left for a   *)
(* line of the engine's own (memory.c:159, 214, 217; logger.c:34-42): as   *)
(* long as there is, no call nests deeper than four, because the lines that *)
(* a refusal logs are granted their two strings and return.                *)
(***************************************************************************)
THEOREM RecursionNeedsFullMemory == Spec => []RecursionOnlyWhenFull
<1>1. DepthInv => RecursionOnlyWhenFull
  BY DEF DepthInv, RecursionOnlyWhenFull
<1>2. QED BY <1>1, MemoryConsistent, OwnInit, OwnNext, InitInv, NextInv, DepthInit, DepthNext, PTL DEF Spec
=============================================================================
