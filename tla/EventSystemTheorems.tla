------------------------- MODULE EventSystemTheorems -------------------------
(***************************************************************************)
(* Whatever the callbacks do to the array that a fire is walking, for any  *)
(* number of codes, listeners and fires inside fires: what is called was   *)
(* registered, and in turn while nobody leaves.  After a removal by an     *)
(* overlapping copy the same is so of its two words, each for itself.      *)
(***************************************************************************)
EXTENDS EventSystem, TLAPS

Array == [length : Nat, slots : Seq(Entry \cup {none})]

\* The slots in use hold listeners,
ArrayOK(a) ==
  /\ a \in Array
  /\ a.length <= Len(a.slots)
  /\ \A i \in 1 .. a.length : a.slots[i] \in Entry

\* each once.
Once(a) == \A i, j \in 1 .. a.length : i # j => a.slots[i].listener # a.slots[j].listener

\* A fire knows an entry, or both halves of it if its code is one of the mixed.
KnownIn(e, f, mixed) == MadeOf(e, f.known) /\ (f.code \notin mixed => e \in f.known)

(***************************************************************************)
(* A fire of which a is the array.  It knows what lies in the slots that   *)
(* it counted and in those in use.  Until somebody leaves, the slots it    *)
(* counted are what they were.                                             *)
(***************************************************************************)
FrameOK(f, a, mixed) ==
  /\ f \in Frame
  /\ f.registered_count <= Len(a.slots)
  /\ \A j \in 1 .. Len(a.slots) :
       j <= f.registered_count \/ j <= a.length => KnownIn(a.slots[j], f, mixed)
  /\ ~ f.departed =>
       /\ Len(f.began) = f.registered_count
       /\ f.registered_count <= a.length
       /\ \A j \in 1 .. f.registered_count : a.slots[j] = f.began[j]
       /\ f.calling # no_call => f.i < f.registered_count /\ f.calling = f.began[f.i + 1]

EventInv ==
  /\ up \in BOOLEAN
  /\ registered \in [Codes -> Array]
  /\ blurred \subseteq Codes
  /\ \A c \in Codes : ArrayOK(registered[c]) /\ (c \notin blurred => Once(registered[c]))
  /\ frames \in Seq(Frame)
  /\ \A k \in 1 .. Len(frames) :
       FrameOK(frames[k], registered[frames[k].code], blurred)
  /\ ~ up => frames = <<>>

-----------------------------------------------------------------------------
\* The array before a push, whichever way it is found.
Pushable(a) == IF a = nullptr THEN darray_create ELSE a

LEMMA PushableFacts ==
  ASSUME NEW a, ArrayOK(a)
  PROVE  /\ ArrayOK(Pushable(a))
         /\ Pushable(a).length = a.length
         /\ Len(Pushable(a).slots) \in Nat \ {0}
         /\ Len(a.slots) <= Len(Pushable(a).slots)
         /\ \A j \in 1 .. Len(a.slots) : Pushable(a).slots[j] = a.slots[j]
         /\ Once(a) => Once(Pushable(a))
<1>1. CASE a = nullptr
  BY <1>1 DEF Pushable, ArrayOK, Array, Once, nullptr, darray_create
<1>2. CASE a # nullptr
  <2>1. Len(a.slots) # 0
    <3>1. SUFFICES ASSUME Len(a.slots) = 0 PROVE FALSE
      OBVIOUS
    <3>2. a.length = 0 /\ a.slots = <<>>
      BY <3>1 DEF ArrayOK, Array
    <3>3. a = [length |-> a.length, slots |-> a.slots]
      BY DEF ArrayOK, Array
    <3>4. QED BY <3>2, <3>3, <1>2 DEF nullptr
  <2>2. QED BY <2>1, <1>2 DEF Pushable, ArrayOK, Array
<1>3. QED BY <1>1, <1>2

\* A push adds one element behind those in use, and moves none.
LEMMA PushFacts ==
  ASSUME NEW a, ArrayOK(a), Len(a.slots) # 0, NEW e \in Entry
  PROVE  /\ ArrayOK(darray_push(a, e))
         /\ Once(a) /\ (\A i \in 1 .. a.length : a.slots[i].listener # e.listener)
              => Once(darray_push(a, e))
         /\ darray_push(a, e).length = a.length + 1
         /\ Len(a.slots) <= Len(darray_push(a, e).slots)
         /\ darray_push(a, e).slots[a.length + 1] = e
         /\ \A j \in 1 .. Len(a.slots) :
              j # a.length + 1 => darray_push(a, e).slots[j] = a.slots[j]
<1> DEFINE more == [i \in 1 .. Len(a.slots) |-> none]
           room == IF a.length >= Len(a.slots) THEN a.slots \o more ELSE a.slots
           b == darray_push(a, e)
<1>1. /\ a.slots \in Seq(Entry \cup {none}) /\ a.length \in Nat
      /\ Len(a.slots) \in Nat \ {0} /\ a.length <= Len(a.slots)
  BY DEF ArrayOK, Array
<1>2. more \in Seq(Entry \cup {none}) /\ Len(more) = Len(a.slots)
  BY <1>1
<1>3. /\ room \in Seq(Entry \cup {none})
      /\ a.length + 1 \in 1 .. Len(room)
      /\ Len(a.slots) <= Len(room)
      /\ \A j \in 1 .. Len(a.slots) : room[j] = a.slots[j]
  BY <1>1, <1>2
<1>4. b = [length |-> a.length + 1, slots |-> [room EXCEPT ![a.length + 1] = e]]
  BY DEF darray_push
<1> HIDE DEF more, room
<1>5. /\ b.length = a.length + 1
      /\ b.slots \in Seq(Entry \cup {none})
      /\ Len(b.slots) = Len(room)
      /\ b.slots[a.length + 1] = e
      /\ \A j \in 1 .. Len(room) : j # a.length + 1 => b.slots[j] = room[j]
  BY <1>1, <1>3, <1>4
<1>6. \A j \in 1 .. Len(a.slots) : j # a.length + 1 => b.slots[j] = a.slots[j]
  BY <1>1, <1>3, <1>5
<1>7. \A j \in 1 .. a.length : b.slots[j] = a.slots[j]
  BY <1>1, <1>6
<1>8. \A i \in 1 .. b.length : i \in 1 .. a.length \/ (i = a.length + 1 /\ b.slots[i] = e)
  BY <1>1, <1>5
<1>9. ArrayOK(b)
  <2>1. b \in Array
    BY <1>1, <1>4, <1>5 DEF Array
  <2>2. b.length <= Len(b.slots)
    BY <1>1, <1>3, <1>5
  <2>3. \A i \in 1 .. a.length : a.slots[i] \in Entry
    BY DEF ArrayOK
  <2>4. \A i \in 1 .. b.length : b.slots[i] \in Entry
    BY <2>3, <1>7, <1>8
  <2>5. QED BY <2>1, <2>2, <2>4 DEF ArrayOK
<1>10. ASSUME Once(a), \A i \in 1 .. a.length : a.slots[i].listener # e.listener
       PROVE  Once(b)
  <2>1. \A i, j \in 1 .. a.length : i # j => a.slots[i].listener # a.slots[j].listener
    BY <1>10 DEF Once
  <2>2. ASSUME NEW i \in 1 .. b.length, NEW j \in 1 .. b.length, i # j
        PROVE  b.slots[i].listener # b.slots[j].listener
    <3>1. CASE i \in 1 .. a.length /\ j \in 1 .. a.length
      BY <3>1, <2>1, <2>2, <1>7
    <3>2. CASE i \in 1 .. a.length /\ j \notin 1 .. a.length
      BY <3>2, <1>7, <1>8, <1>10
    <3>3. CASE i \notin 1 .. a.length /\ j \in 1 .. a.length
      BY <3>3, <1>7, <1>8, <1>10
    <3>4. CASE i \notin 1 .. a.length /\ j \notin 1 .. a.length
      BY <3>4, <1>8, <2>2
    <3>5. QED BY <3>1, <3>2, <3>3, <3>4
  <2>3. QED BY <2>2 DEF Once
<1>11. QED BY <1>1, <1>3, <1>5, <1>6, <1>9, <1>10

\* A pop fills the slots that it moves with words of the entries behind them, in
\* their order if there is but one, and changes nothing else.
Mixed(e, a, j) ==
  \E l, f \in j + 1 .. a.length :
    e = [listener |-> a.slots[l].listener, callback |-> a.slots[f].callback]

LEMMA PopFacts ==
  ASSUME NEW a, ArrayOK(a), NEW i \in 1 .. a.length, NEW b \in darray_pop_at(a, i)
  PROVE  /\ ArrayOK(b)
         /\ b.length = a.length - 1
         /\ Len(b.slots) = Len(a.slots)
         /\ \A j \in 1 .. Len(a.slots) :
              IF j \in i .. a.length - 1 THEN Mixed(b.slots[j], a, j) ELSE b.slots[j] = a.slots[j]
         /\ a.length - i < 2 =>
              \A j \in i .. a.length - 1 : b.slots[j] = a.slots[j + 1]
         /\ a.length - i < 2 /\ Once(a) => Once(b)
<1> DEFINE Moved(l, f, j) ==
      IF j \in i .. a.length - 1
      THEN [listener |-> a.slots[l[j]].listener, callback |-> a.slots[f[j]].callback]
      ELSE a.slots[j]
<1>1. /\ a.slots \in Seq(Entry \cup {none}) /\ a.length \in Nat
      /\ Len(a.slots) \in Nat /\ a.length <= Len(a.slots)
      /\ \A j \in 1 .. a.length : a.slots[j] \in Entry
  BY DEF ArrayOK, Array
<1>2. PICK l \in Sources(a, i), f \in Sources(a, i) :
        b = [length |-> a.length - 1, slots |-> [j \in 1 .. Len(a.slots) |-> Moved(l, f, j)]]
  BY DEF darray_pop_at
<1>3. \A j \in i .. a.length - 1 : l[j] \in j + 1 .. a.length /\ f[j] \in j + 1 .. a.length
  BY <1>1 DEF Sources
<1>4. \A j \in i .. a.length - 1 : l[j] \in 1 .. a.length /\ f[j] \in 1 .. a.length
  BY <1>1, <1>3
<1>5. \A j \in 1 .. Len(a.slots) : Moved(l, f, j) \in Entry \cup {none}
  BY <1>1, <1>4 DEF Entry
<1>6. /\ b.length = a.length - 1
      /\ b.slots \in Seq(Entry \cup {none})
      /\ Len(b.slots) = Len(a.slots)
      /\ \A j \in 1 .. Len(a.slots) : b.slots[j] = Moved(l, f, j)
  <2> HIDE DEF Moved
  <2>1. QED BY <1>1, <1>2, <1>5
<1>7. ArrayOK(b)
  <2>1. b \in Array
    <3>1. b = [length |-> b.length, slots |-> b.slots]
      BY <1>2
    <3>2. b.length \in Nat
      BY <1>1, <1>6
    <3>3. QED BY <1>6, <3>1, <3>2 DEF Array
  <2>2. b.length <= Len(b.slots)
    BY <1>1, <1>6
  <2>3. \A j \in 1 .. b.length : Moved(l, f, j) \in Entry
    BY <1>1, <1>4, <1>6 DEF Entry
  <2> HIDE DEF Moved
  <2>4. \A j \in 1 .. b.length : b.slots[j] \in Entry
    BY <1>1, <1>6, <2>3
  <2>5. QED BY <2>1, <2>2, <2>4 DEF ArrayOK
<1>8. ASSUME NEW j \in 1 .. Len(a.slots)
      PROVE  IF j \in i .. a.length - 1 THEN Mixed(b.slots[j], a, j) ELSE b.slots[j] = a.slots[j]
  BY <1>3, <1>6 DEF Mixed
<1>9. ASSUME a.length - i < 2, NEW j \in i .. a.length - 1
      PROVE  b.slots[j] = a.slots[j + 1]
  <2>1. l[j] = j + 1 /\ f[j] = j + 1 /\ j \in 1 .. Len(a.slots) /\ j + 1 \in 1 .. a.length
    BY <1>1, <1>3, <1>9
  <2>2. b.slots[j] = [listener |-> a.slots[j + 1].listener, callback |-> a.slots[j + 1].callback]
    BY <1>6, <1>9, <2>1
  <2>3. a.slots[j + 1] \in Entry
    BY <1>1, <2>1
  <2>4. QED BY <2>2, <2>3 DEF Entry
<1>10. ASSUME a.length - i < 2, Once(a)
       PROVE  Once(b)
  <2> DEFINE Source(n) == IF n >= i THEN n + 1 ELSE n
  <2>1. \A j \in 1 .. b.length : Source(j) \in 1 .. a.length
    BY <1>1, <1>6
  <2>2. ASSUME NEW j \in 1 .. b.length PROVE b.slots[j] = a.slots[Source(j)]
    <3>1. j \in 1 .. Len(a.slots)
      BY <1>1, <1>6
    <3>2. CASE j >= i
      <4>1. j \in i .. a.length - 1
        BY <1>1, <1>6, <3>2
      <4>2. QED BY <1>9, <1>10, <3>2, <4>1
    <3>3. CASE ~ (j >= i)
      BY <1>8, <3>1, <3>3
    <3>4. QED BY <3>2, <3>3
  <2>3. \A j, k \in 1 .. b.length : j # k => Source(j) # Source(k)
    BY <1>1, <1>6
  <2> HIDE DEF Source
  <2>4. QED BY <1>10, <2>1, <2>2, <2>3 DEF Once
<1>11. QED BY <1>6, <1>7, <1>8, <1>9, <1>10

-----------------------------------------------------------------------------
\* A fire of the code learns of a listener that joins.
LEMMA FrameJoined ==
  ASSUME NEW a, ArrayOK(a), NEW e \in Entry, NEW f, NEW mixed, FrameOK(f, a, mixed)
  PROVE  FrameOK([f EXCEPT !.known = @ \cup {e}], darray_push(Pushable(a), e), mixed)
<1> DEFINE p == Pushable(a)
           b == darray_push(p, e)
           g == [f EXCEPT !.known = @ \cup {e}]
<1>1. /\ ArrayOK(p) /\ p.length = a.length /\ Len(p.slots) \in Nat \ {0}
      /\ Len(a.slots) <= Len(p.slots)
      /\ \A j \in 1 .. Len(a.slots) : p.slots[j] = a.slots[j]
  BY PushableFacts
<1>2. a.length \in Nat /\ Len(a.slots) \in Nat /\ a.length <= Len(a.slots)
  BY DEF ArrayOK, Array
<1> HIDE DEF p
<1>4. /\ ArrayOK(b) /\ b.length = p.length + 1 /\ Len(p.slots) <= Len(b.slots)
      /\ b.slots[p.length + 1] = e
      /\ \A j \in 1 .. Len(p.slots) : j # p.length + 1 => b.slots[j] = p.slots[j]
  BY <1>1, PushFacts
<1>5. Len(b.slots) \in Nat
  BY <1>4 DEF ArrayOK, Array
<1>6. /\ f \in Frame /\ f.registered_count \in Nat /\ f.i \in Nat
      /\ f.registered_count <= Len(a.slots) /\ f.known \in SUBSET Entry
  BY DEF FrameOK, Frame
<1>7. /\ g \in Frame /\ g.known = f.known \cup {e} /\ g.registered_count = f.registered_count
      /\ g.code = f.code
      /\ g.departed = f.departed /\ g.began = f.began /\ g.calling = f.calling /\ g.i = f.i
  BY <1>6 DEF Frame
<1> HIDE DEF b, g
<1>8. \A j \in 1 .. Len(a.slots) : j # a.length + 1 => b.slots[j] = a.slots[j]
  BY <1>1, <1>2, <1>4
<1>9. ASSUME NEW j \in 1 .. Len(b.slots), j <= g.registered_count \/ j <= b.length
      PROVE  KnownIn(b.slots[j], g, mixed)
  <2>1. CASE j = a.length + 1
    BY <2>1, <1>1, <1>4, <1>7 DEF KnownIn, MadeOf
  <2>2. CASE j # a.length + 1
    <3>1. j \in 1 .. Len(a.slots) /\ (j <= f.registered_count \/ j <= a.length)
      BY <2>2, <1>1, <1>2, <1>4, <1>5, <1>6, <1>7, <1>9
    <3>2. KnownIn(a.slots[j], f, mixed) /\ b.slots[j] = a.slots[j]
      BY <3>1, <2>2, <1>8 DEF FrameOK
    <3>3. QED BY <3>2, <1>7 DEF KnownIn, MadeOf
  <2>3. QED BY <2>1, <2>2
<1>10. g.registered_count <= Len(b.slots)
  BY <1>1, <1>2, <1>4, <1>5, <1>6, <1>7
<1>11. ASSUME ~ g.departed
       PROVE  /\ Len(g.began) = g.registered_count
              /\ g.registered_count <= b.length
              /\ \A j \in 1 .. g.registered_count : b.slots[j] = g.began[j]
              /\ g.calling # no_call => g.i < g.registered_count /\ g.calling = g.began[g.i + 1]
  <2>1. /\ Len(f.began) = f.registered_count /\ f.registered_count <= a.length
        /\ \A j \in 1 .. f.registered_count : a.slots[j] = f.began[j]
        /\ f.calling # no_call => f.i < f.registered_count /\ f.calling = f.began[f.i + 1]
    BY <1>11, <1>7 DEF FrameOK
  <2>2. \A j \in 1 .. f.registered_count : b.slots[j] = a.slots[j]
    BY <2>1, <1>2, <1>6, <1>8
  <2>3. QED BY <2>1, <2>2, <1>1, <1>2, <1>4, <1>6, <1>7
<1>12. QED BY <1>7, <1>9, <1>10, <1>11 DEF FrameOK, b, g, p

\* A fire of the code forgets its order when a listener departs.
LEMMA FrameDeparted ==
  ASSUME NEW a, ArrayOK(a), NEW i \in 1 .. a.length, NEW b \in darray_pop_at(a, i),
         NEW f, NEW mixed, FrameOK(f, a, mixed),
         NEW more, mixed \subseteq more, a.length - i < 2 \/ f.code \in more
  PROVE  FrameOK([f EXCEPT !.departed = TRUE, !.began = <<>>], b, more)
<1> DEFINE g == [f EXCEPT !.departed = TRUE, !.began = <<>>]
<1>1. /\ b.length = a.length - 1 /\ Len(b.slots) = Len(a.slots)
      /\ \A j \in 1 .. Len(a.slots) :
           IF j \in i .. a.length - 1 THEN Mixed(b.slots[j], a, j) ELSE b.slots[j] = a.slots[j]
      /\ a.length - i < 2 => \A j \in i .. a.length - 1 : b.slots[j] = a.slots[j + 1]
  BY PopFacts
<1>2. /\ a.length \in Nat /\ Len(a.slots) \in Nat /\ a.length <= Len(a.slots)
      /\ \A j \in 1 .. a.length : a.slots[j] \in Entry
  BY DEF ArrayOK, Array
<1>3. /\ f \in Frame /\ f.registered_count \in Nat /\ f.registered_count <= Len(a.slots)
  BY DEF FrameOK, Frame
<1>4. /\ g \in Frame /\ g.known = f.known /\ g.registered_count = f.registered_count /\ g.departed
      /\ g.code = f.code
  <2>1. <<>> \in Seq(Entry)
    OBVIOUS
  <2>2. QED BY <2>1, <1>3 DEF Frame
<1>5. \A j \in 1 .. Len(a.slots) :
        j <= f.registered_count \/ j <= a.length => KnownIn(a.slots[j], f, mixed)
  BY DEF FrameOK
<1> HIDE DEF g
<1>6. ASSUME NEW j \in 1 .. Len(b.slots), j <= g.registered_count \/ j <= b.length
      PROVE  KnownIn(b.slots[j], g, more)
  <2>1. CASE j \in i .. a.length - 1
    <3>1. Mixed(b.slots[j], a, j)
      BY <2>1, <1>1, <1>6
    <3>2. PICK l \in j + 1 .. a.length, c \in j + 1 .. a.length :
            b.slots[j] = [listener |-> a.slots[l].listener, callback |-> a.slots[c].callback]
      BY <3>1 DEF Mixed
    <3>3. l \in 1 .. a.length /\ c \in 1 .. a.length /\ j + 1 \in 1 .. a.length
      BY <2>1, <1>2, <1>6
    <3>4. /\ KnownIn(a.slots[l], f, mixed) /\ KnownIn(a.slots[c], f, mixed)
          /\ KnownIn(a.slots[j + 1], f, mixed)
      <4>1. \A k \in 1 .. a.length : k \in 1 .. Len(a.slots) /\ k <= a.length
        BY <1>2
      <4>2. QED BY <3>3, <4>1, <1>5
    <3>5. b.slots[j] \in Entry
      BY <3>2, <3>4 DEF KnownIn, MadeOf, Entry
    <3>6. f.code \notin more => b.slots[j] \in f.known
      BY <2>1, <1>1, <3>4 DEF KnownIn, MadeOf
    <3>7. QED BY <3>2, <3>4, <3>5, <3>6, <1>4 DEF KnownIn, MadeOf
  <2>2. CASE ~ (j \in i .. a.length - 1)
    <3>1. j \in 1 .. Len(a.slots) /\ (j <= f.registered_count \/ j <= a.length)
      BY <1>1, <1>2, <1>4, <1>6
    <3>2. KnownIn(a.slots[j], f, mixed) /\ b.slots[j] = a.slots[j]
      BY <3>1, <2>2, <1>1, <1>5
    <3>3. QED BY <3>2, <1>4 DEF KnownIn, MadeOf
  <2>3. QED BY <2>1, <2>2
<1>7. QED BY <1>1, <1>3, <1>4, <1>6 DEF FrameOK, g

\* Other codes may be blurred meanwhile.
LEMMA FrameKept ==
  ASSUME NEW f, NEW a, NEW mixed, NEW more, mixed \subseteq more, FrameOK(f, a, mixed)
  PROVE  FrameOK(f, a, more)
BY DEF FrameOK, KnownIn

-----------------------------------------------------------------------------
LEMMA NullptrOK == ArrayOK(nullptr) /\ Once(nullptr) /\ nullptr \in Array
BY DEF ArrayOK, Once, Array, nullptr

LEMMA InitInv == Init => EventInv
<1>1. <<>> \in Seq(Frame) /\ Len(<<>>) = 0
  OBVIOUS
<1>2. QED BY <1>1, NullptrOK DEF Init, EventInv

LEMMA CurrentFacts ==
  ASSUME EventInv, frames # <<>>
  PROVE  /\ Len(frames) \in Nat \ {0}
         /\ Current = frames[Len(frames)]
         /\ Current \in Frame /\ Current.code \in Codes
         /\ FrameOK(Current, registered[Current.code], blurred)
         /\ ArrayOK(registered[Current.code])
<1>1. frames \in Seq(Frame) /\ Len(frames) \in Nat \ {0}
  BY DEF EventInv
<1>2. Current = frames[Len(frames)] /\ Current \in Frame
  BY <1>1 DEF Current, Last
<1>3. Current.code \in Codes
  BY <1>2 DEF Frame
<1>4. QED BY <1>1, <1>2, <1>3 DEF EventInv

LEMMA ReplaceInv ==
  ASSUME EventInv, frames # <<>>, NEW g, g.code = Current.code,
         FrameOK(g, registered[Current.code], blurred),
         frames' = [frames EXCEPT ![Len(frames)] = g], UNCHANGED <<up, registered, blurred>>
  PROVE  EventInv'
<1>1. frames \in Seq(Frame) /\ Len(frames) \in Nat \ {0} /\ g \in Frame
  BY CurrentFacts DEF EventInv, FrameOK
<1>2. /\ frames' \in Seq(Frame) /\ Len(frames') = Len(frames)
      /\ \A k \in 1 .. Len(frames) : frames'[k] = IF k = Len(frames) THEN g ELSE frames[k]
  BY <1>1
<1>3. \A k \in 1 .. Len(frames') :
        FrameOK(frames'[k], registered[frames'[k].code], blurred)
  BY <1>1, <1>2 DEF EventInv
<1>4. ~ up' => frames' = <<>>
  BY DEF EventInv
<1>5. QED BY <1>2, <1>3, <1>4 DEF EventInv

LEMMA FrontInv ==
  ASSUME EventInv, frames # <<>>, frames' = Front(frames), UNCHANGED <<up, registered, blurred>>
  PROVE  EventInv'
<1>1. frames \in Seq(Frame) /\ Len(frames) \in Nat \ {0}
  BY DEF EventInv
<1>2. /\ frames' \in Seq(Frame) /\ Len(frames') = Len(frames) - 1
      /\ \A k \in 1 .. Len(frames') : frames'[k] = frames[k]
  <2>1. frames' = SubSeq(frames, 1, Len(frames) - 1)
    BY DEF Front
  <2>2. \A k \in 1 .. Len(frames) - 1 : frames[k] \in Frame
    BY <1>1
  <2> DEFINE n == Len(frames) - 1
  <2>3. n \in Nat /\ n <= Len(frames)
    BY <1>1
  <2> HIDE DEF n
  <2>4. /\ SubSeq(frames, 1, n) \in Seq(Frame) /\ Len(SubSeq(frames, 1, n)) = n
        /\ \A k \in 1 .. n : SubSeq(frames, 1, n)[k] = frames[k]
    BY <1>1, <2>3
  <2>5. QED BY <2>1, <2>4 DEF n
<1>3. QED BY <1>1, <1>2 DEF EventInv

LEMMA RegisterInv ==
  ASSUME EventInv, NEW c \in Codes, NEW l \in Listeners, NEW f \in Callbacks,
         event_register(c, l, f)
  PROVE  EventInv'
<1> DEFINE e == [listener |-> l, callback |-> f]
           a == registered[c]
           b == darray_push(Pushable(a), e)
           Knows(g) == [g EXCEPT !.known = @ \cup {e}]
<1>1. /\ registered \in [Codes -> Array] /\ ArrayOK(a) /\ e \in Entry
      /\ frames \in Seq(Frame) /\ Len(frames) \in Nat
  BY DEF EventInv, Entry
<1>2. \A i \in 1 .. a.length : a.slots[i].listener # e.listener
  <2>1. \A i \in 1 .. a.length : SubSeq(a.slots, 1, a.length)[i] = a.slots[i]
    BY <1>1 DEF ArrayOK, Array
  <2>2. QED BY <2>1 DEF event_register, Live
<1>3. registered' = [registered EXCEPT ![c] = b]
  BY DEF event_register, Pushable
<1>4. ArrayOK(b) /\ b \in Array /\ (Once(a) => Once(b))
  <2>1. /\ ArrayOK(Pushable(a)) /\ Pushable(a).length = a.length
        /\ Len(Pushable(a).slots) # 0 /\ (Once(a) => Once(Pushable(a)))
        /\ \A j \in 1 .. Len(a.slots) : Pushable(a).slots[j] = a.slots[j]
    BY <1>1, PushableFacts
  <2>2. a.length \in Nat /\ Len(a.slots) \in Nat /\ a.length <= Len(a.slots)
    BY <1>1 DEF ArrayOK, Array
  <2>3. \A i \in 1 .. Pushable(a).length : Pushable(a).slots[i].listener # e.listener
    BY <1>2, <2>1, <2>2
  <2> HIDE DEF e, a
  <2>4. ArrayOK(b) /\ (Once(a) => Once(b))
    BY <1>1, <2>1, <2>3, PushFacts
  <2>5. QED BY <2>4 DEF ArrayOK
<1>5. \A g : FrameOK(g, a, blurred) => FrameOK(Knows(g), b, blurred)
  BY <1>1, <1>2, FrameJoined
<1>6. \A g \in Frame : Knows(g) \in Frame /\ Knows(g).code = g.code
  BY <1>1 DEF Frame
<1>7. frames' = [k \in 1 .. Len(frames) |->
                   IF frames[k].code = c THEN Knows(frames[k]) ELSE frames[k]]
  BY <1>1 DEF event_register, Joined
<1> HIDE DEF e, a, b, Knows
<1>8. /\ frames' \in Seq(Frame) /\ Len(frames') = Len(frames)
      /\ \A k \in 1 .. Len(frames) :
           frames'[k] = IF frames[k].code = c THEN Knows(frames[k]) ELSE frames[k]
  <2>1. \A k \in 1 .. Len(frames) : frames[k] \in Frame
    BY <1>1
  <2>2. QED BY <2>1, <1>1, <1>6, <1>7
<1>9. /\ registered' \in [Codes -> Array]
      /\ \A d \in Codes : registered'[d] = IF d = c THEN b ELSE registered[d]
  BY <1>1, <1>3, <1>4
<1>10. ASSUME NEW k \in 1 .. Len(frames')
       PROVE  FrameOK(frames'[k], registered'[frames'[k].code], blurred')
  <2>1. /\ frames[k] \in Frame /\ frames[k].code \in Codes
        /\ FrameOK(frames[k], registered[frames[k].code], blurred)
    <3>1. k \in 1 .. Len(frames) /\ frames[k] \in Frame
      BY <1>1, <1>8
    <3>2. FrameOK(frames[k], registered[frames[k].code], blurred)
      BY <3>1 DEF EventInv
    <3>3. QED BY <3>1, <3>2 DEF Frame
  <2>2. blurred' = blurred /\ k \in 1 .. Len(frames)
    BY <1>8 DEF event_register
  <2>3. CASE frames[k].code = c
    BY <2>1, <2>2, <2>3, <1>5, <1>6, <1>8, <1>9 DEF a
  <2>4. CASE frames[k].code # c
    BY <2>1, <2>2, <2>4, <1>8, <1>9
  <2>5. QED BY <2>3, <2>4
<1>11. up' = up /\ (~ up' => frames' = <<>>)
  BY DEF event_register, Outside
<1>12. blurred' = blurred
  BY DEF event_register
<1>13. \A d \in Codes : ArrayOK(registered'[d]) /\ (d \notin blurred => Once(registered'[d]))
  BY <1>4, <1>9 DEF EventInv, a
<1>14. QED BY <1>8, <1>9, <1>10, <1>11, <1>12, <1>13 DEF EventInv

LEMMA UnregisterInv ==
  ASSUME EventInv, NEW c \in Codes, NEW l \in Listeners, NEW f \in Callbacks,
         event_unregister(c, l, f)
  PROVE  EventInv'
<1> DEFINE a == registered[c]
           Forgets(g) == [g EXCEPT !.departed = TRUE, !.began = <<>>]
<1>i. PICK i \in 1 .. a.length :
        /\ \E b \in darray_pop_at(a, i) : registered' = [registered EXCEPT ![c] = b]
        /\ blurred' = IF a.length - i >= 2 THEN blurred \cup {c} ELSE blurred
  BY DEF event_unregister
<1>1. PICK b \in darray_pop_at(a, i) : registered' = [registered EXCEPT ![c] = b]
  BY <1>i
<1>2. /\ registered \in [Codes -> Array] /\ ArrayOK(a)
      /\ frames \in Seq(Frame) /\ Len(frames) \in Nat
  BY DEF EventInv
<1>3. /\ ArrayOK(b) /\ b \in Array
      /\ blurred \subseteq blurred' /\ blurred' \subseteq blurred \cup {c}
      /\ a.length - i < 2 \/ c \in blurred'
  <2>1. a.length \in Nat
    BY <1>2 DEF ArrayOK, Array
  <2>2. ArrayOK(b)
    BY <1>1, <1>2, PopFacts
  <2>3. QED BY <1>i, <2>1, <2>2 DEF ArrayOK
<1>4. \A g : g.code = c /\ FrameOK(g, a, blurred) => FrameOK(Forgets(g), b, blurred')
  BY <1>1, <1>2, <1>3, FrameDeparted
<1>5. c \notin blurred' => Once(b)
  BY <1>1, <1>2, <1>3, PopFacts DEF EventInv
<1>6. \A g \in Frame : Forgets(g) \in Frame /\ Forgets(g).code = g.code
  <2>1. <<>> \in Seq(Entry)
    OBVIOUS
  <2>2. QED BY <2>1 DEF Frame
<1>7. frames' = [k \in 1 .. Len(frames) |->
                   IF frames[k].code = c THEN Forgets(frames[k]) ELSE frames[k]]
  <2>1. DOMAIN frames = 1 .. Len(frames)
    BY <1>2
  <2>2. frames' = Departed(c)
    BY DEF event_unregister
  <2>3. QED BY <2>1, <2>2 DEF Departed
<1> HIDE DEF a, Forgets
<1>8. /\ frames' \in Seq(Frame) /\ Len(frames') = Len(frames)
      /\ \A k \in 1 .. Len(frames) :
           frames'[k] = IF frames[k].code = c THEN Forgets(frames[k]) ELSE frames[k]
  <2>1. \A k \in 1 .. Len(frames) : frames[k] \in Frame
    BY <1>2
  <2>2. QED BY <2>1, <1>2, <1>6, <1>7
<1>9. /\ registered' \in [Codes -> Array]
      /\ \A d \in Codes : registered'[d] = IF d = c THEN b ELSE registered[d]
  BY <1>1, <1>2, <1>3
<1>10. ASSUME NEW k \in 1 .. Len(frames')
      PROVE  FrameOK(frames'[k], registered'[frames'[k].code], blurred')
  <2>1. /\ frames[k] \in Frame /\ frames[k].code \in Codes
        /\ FrameOK(frames[k], registered[frames[k].code], blurred)
    <3>1. k \in 1 .. Len(frames) /\ frames[k] \in Frame
      BY <1>2, <1>8
    <3>2. FrameOK(frames[k], registered[frames[k].code], blurred)
      BY <3>1 DEF EventInv
    <3>3. QED BY <3>1, <3>2 DEF Frame
  <2>2. k \in 1 .. Len(frames)
    BY <1>8
  <2>3. CASE frames[k].code = c
    BY <2>1, <2>2, <2>3, <1>4, <1>6, <1>8, <1>9 DEF a
  <2>4. CASE frames[k].code # c
    BY <2>1, <2>2, <2>4, <1>3, <1>8, <1>9, FrameKept
  <2>5. QED BY <2>3, <2>4
<1>11. up' = up /\ (~ up' => frames' = <<>>)
  BY DEF event_unregister, Outside
<1>12. blurred' \subseteq Codes
  BY <1>3 DEF EventInv
<1>13. \A d \in Codes : ArrayOK(registered'[d]) /\ (d \notin blurred' => Once(registered'[d]))
  BY <1>3, <1>5, <1>9 DEF EventInv
<1>14. QED BY <1>8, <1>9, <1>10, <1>11, <1>12, <1>13 DEF EventInv

LEMMA FireInv ==
  ASSUME EventInv, NEW c \in Codes, event_fire(c)
  PROVE  EventInv'
<1> DEFINE a == registered[c]
           live == SubSeq(a.slots, 1, a.length)
           g == [code |-> c, i |-> 0, registered_count |-> a.length, calling |-> no_call,
                 began |-> live, known |-> Range(live), departed |-> FALSE]
<1>1. /\ ArrayOK(a) /\ a.length \in Nat /\ a.slots \in Seq(Entry \cup {none})
      /\ Len(a.slots) \in Nat /\ a.length <= Len(a.slots)
      /\ \A i \in 1 .. a.length : a.slots[i] \in Entry
  BY DEF EventInv, ArrayOK, Array
<1>2. /\ live \in Seq(Entry) /\ Len(live) = a.length
      /\ \A i \in 1 .. a.length : live[i] = a.slots[i]
  BY <1>1
<1>3. frames \in Seq(Frame) /\ frames' = Append(frames, g) /\ UNCHANGED <<up, registered, blurred>>
  BY DEF event_fire, EventInv, Live
<1> HIDE DEF live, a
<1>4. Range(live) \in SUBSET Entry /\ \A i \in 1 .. a.length : a.slots[i] \in Range(live)
  BY <1>1, <1>2 DEF Range
<1>5. g \in Frame
  BY <1>1, <1>2, <1>4 DEF Frame
<1>6. FrameOK(g, a, blurred)
  <2>1. \A j \in 1 .. a.length : KnownIn(a.slots[j], g, blurred)
    BY <1>1, <1>4 DEF KnownIn, MadeOf, g
  <2>2. /\ g.registered_count = a.length /\ g.calling = no_call /\ g.began = live
    BY DEF g
  <2> HIDE DEF g
  <2>3. QED BY <1>1, <1>2, <1>5, <2>1, <2>2 DEF FrameOK
<1>7. g.code = c
  OBVIOUS
<1> HIDE DEF g
<1>8. /\ frames' \in Seq(Frame) /\ Len(frames') = Len(frames) + 1 /\ Len(frames) \in Nat
      /\ \A k \in 1 .. Len(frames) + 1 : frames'[k] = IF k <= Len(frames) THEN frames[k] ELSE g
  BY <1>3, <1>5
<1>9. \A k \in 1 .. Len(frames') :
        FrameOK(frames'[k], registered[frames'[k].code], blurred)
  BY <1>6, <1>7, <1>8 DEF EventInv, a
<1>10. up' = up /\ (~ up' => frames' = <<>>)
  BY DEF event_fire, Outside
<1>11. QED BY <1>3, <1>8, <1>9, <1>10 DEF EventInv

LEMMA CallsInv ==
  ASSUME EventInv, FireCalls
  PROVE  EventInv'
<1> DEFINE f == Current
           a == registered[f.code]
           slot == a.slots[f.i + 1]
           g == [f EXCEPT !.calling = slot]
<1>1. /\ frames # <<>> /\ f.i < f.registered_count /\ UNCHANGED <<up, registered, blurred>>
      /\ frames' = [frames EXCEPT ![Len(frames)].calling = slot]
  BY DEF FireCalls
<1>2. /\ f \in Frame /\ FrameOK(f, a, blurred) /\ ArrayOK(a) /\ f = frames[Len(frames)]
  BY <1>1, CurrentFacts
<1>3. /\ f.i \in Nat /\ f.registered_count \in Nat /\ f.registered_count <= Len(a.slots)
      /\ a.slots \in Seq(Entry \cup {none}) /\ Len(a.slots) \in Nat
  BY <1>2 DEF FrameOK, Frame, ArrayOK, Array
<1>4. f.i + 1 \in 1 .. Len(a.slots) /\ f.i + 1 \in 1 .. f.registered_count
  BY <1>1, <1>3
<1>5. slot \in Entry \cup {none}
  BY <1>3, <1>4
<1>6. frames' = [frames EXCEPT ![Len(frames)] = g]
  BY <1>1, <1>2
<1> HIDE DEF f, a, slot
<1>7. /\ g \in Frame /\ g.calling = slot /\ g.code = f.code /\ g.i = f.i
      /\ g.registered_count = f.registered_count /\ g.known = f.known
      /\ g.began = f.began /\ g.departed = f.departed
  BY <1>2, <1>5 DEF Frame
<1> HIDE DEF g
<1>8. FrameOK(g, a, blurred)
  BY <1>1, <1>2, <1>4, <1>7 DEF FrameOK, KnownIn, slot
<1>9. QED BY <1>1, <1>6, <1>7, <1>8, ReplaceInv DEF f, a

LEMMA DeclinesInv ==
  ASSUME EventInv, CallbackDeclines
  PROVE  EventInv'
<1> DEFINE f == Current
           a == registered[f.code]
           g == [f EXCEPT !.calling = no_call, !.i = @ + 1]
<1>1. /\ frames # <<>> /\ UNCHANGED <<up, registered, blurred>>
      /\ frames' = [frames EXCEPT ![Len(frames)].calling = no_call,
                                  ![Len(frames)].i = @ + 1]
  BY DEF CallbackDeclines
<1>2. /\ f \in Frame /\ FrameOK(f, a, blurred) /\ f = frames[Len(frames)]
      /\ frames \in Seq(Frame) /\ Len(frames) \in Nat \ {0}
  BY <1>1, CurrentFacts DEF EventInv
<1>3. frames' = [frames EXCEPT ![Len(frames)] = g]
  BY <1>1, <1>2
<1> HIDE DEF f, a
<1>4. /\ g \in Frame /\ g.calling = no_call /\ g.code = f.code
      /\ g.registered_count = f.registered_count /\ g.known = f.known
      /\ g.began = f.began /\ g.departed = f.departed
  <2> DEFINE h == [f EXCEPT !.calling = no_call]
  <2>1. /\ h \in Frame /\ h.calling = no_call /\ h.code = f.code
        /\ h.registered_count = f.registered_count /\ h.known = f.known
        /\ h.began = f.began /\ h.departed = f.departed
    BY <1>2 DEF Frame
  <2>2. g = [h EXCEPT !.i = @ + 1]
    OBVIOUS
  <2> HIDE DEF g, h
  <2>3. QED BY <2>1, <2>2 DEF Frame
<1> HIDE DEF g
<1>5. FrameOK(g, a, blurred)
  BY <1>2, <1>4 DEF FrameOK, KnownIn
<1>6. QED BY <1>1, <1>3, <1>4, <1>5, ReplaceInv DEF f, a

LEMMA ShutdownInv ==
  ASSUME EventInv, event_system_shutdown \/ event_system_initialize
  PROVE  EventInv'
<1>1. /\ registered' \in [Codes -> Array]
      /\ blurred' \subseteq Codes
      /\ \A c \in Codes : ArrayOK(registered'[c]) /\ (c \notin blurred' => Once(registered'[c]))
  BY NullptrOK DEF EventInv, event_system_shutdown, event_system_initialize
<1>2. up' \in BOOLEAN /\ frames' = <<>> /\ frames' \in Seq(Frame) /\ Len(frames') = 0
  <2>1. frames = <<>> /\ Len(<<>>) = 0 /\ <<>> \in Seq(Frame)
    BY DEF EventInv, event_system_shutdown, event_system_initialize
  <2>2. QED BY <2>1 DEF event_system_shutdown, event_system_initialize
<1>3. QED BY <1>1, <1>2 DEF EventInv

-----------------------------------------------------------------------------
(***************************************************************************)
(* The invariant: what a fire counted when it began still lies in slots of *)
(* the array, and everything there was registered while it ran, or, once   *)
(* an overlapping copy ran over the array, is made of what was             *)
(* (event.c:76-90, darray.c:42-68, 114-141).                               *)
(***************************************************************************)
THEOREM EventConsistent == Spec => []EventInv
<1>1. ASSUME EventInv, [Next]_vars
      PROVE  EventInv'
  <2>1. CASE \E c \in Codes, l \in Listeners, f \in Callbacks : event_register(c, l, f)
    BY <2>1, <1>1, RegisterInv
  <2>2. CASE \E c \in Codes, l \in Listeners, f \in Callbacks : event_unregister(c, l, f)
    BY <2>2, <1>1, UnregisterInv
  <2>3. CASE \E c \in Codes : event_fire(c)
    BY <2>3, <1>1, FireInv
  <2>4. CASE FireCalls
    BY <2>4, <1>1, CallsInv
  <2>5. CASE CallbackDeclines
    BY <2>5, <1>1, DeclinesInv
  <2>6. CASE CallbackConsumes \/ FireReturnsFalse
    BY <2>6, <1>1, FrontInv DEF CallbackConsumes, FireReturnsFalse
  <2>7. CASE event_system_shutdown \/ event_system_initialize
    BY <2>7, <1>1, ShutdownInv
  <2>8. CASE UNCHANGED vars
    BY <2>8, <1>1 DEF vars, EventInv
  <2>9. QED BY <1>1, <2>1, <2>2, <2>3, <2>4, <2>5, <2>6, <2>7, <2>8 DEF Next
<1>2. QED BY <1>1, InitInv, PTL DEF Spec

(***************************************************************************)
(* Every variable has its type, and a listener is registered once for a    *)
(* code (event.c:36-74), unless an overlapping copy ran over its array     *)
(* (darray.c:133-137).                                                     *)
(***************************************************************************)
THEOREM RegisteredOnce == Spec => []TypeOK
<1>1. EventInv => TypeOK
  <2>1. SUFFICES ASSUME EventInv PROVE TypeOK
    OBVIOUS
  <2>2. ASSUME NEW c \in Codes
        PROVE  /\ registered[c] \in [length : Nat, slots : Seq(Entry \cup {none})]
               /\ registered[c].length <= Len(registered[c].slots)
               /\ Live(c) \in Seq(Entry)
               /\ c \notin blurred =>
                    \A i, j \in DOMAIN Live(c) : i # j => Live(c)[i].listener # Live(c)[j].listener
    <3> DEFINE a == registered[c]
    <3>1. /\ ArrayOK(a) /\ a \in Array /\ a.length \in Nat /\ Len(a.slots) \in Nat
          /\ a.length <= Len(a.slots) /\ \A i \in 1 .. a.length : a.slots[i] \in Entry
      BY <2>1, <2>2 DEF EventInv, ArrayOK, Array
    <3>2. /\ Live(c) \in Seq(Entry) /\ Len(Live(c)) = a.length /\ DOMAIN Live(c) = 1 .. a.length
          /\ \A i \in 1 .. a.length : Live(c)[i] = a.slots[i]
      BY <3>1 DEF Live
    <3>3. c \notin blurred => Once(a)
      BY <2>1, <2>2 DEF EventInv
    <3>4. QED BY <3>1, <3>2, <3>3 DEF Array, Once
  <2>3. QED BY <2>1, <2>2 DEF EventInv, TypeOK
<1>2. QED BY <1>1, EventConsistent, PTL

(***************************************************************************)
(* What event_fire calls was in the array when it began or was registered  *)
(* since, although it counts before its loop and reads in it               *)
(* (event.c:81-84); after an overlapping copy its listener was and its     *)
(* callback was, but maybe not the two together.                           *)
(***************************************************************************)
THEOREM CalledRegistered == Spec => CalledWasRegistered
<1>1. ASSUME EventInv, FireCalls
      PROVE  KnownIn(Last(frames').calling, Current, blurred)
  <2> DEFINE f == Current
             a == registered[f.code]
             slot == a.slots[f.i + 1]
  <2>1. /\ frames # <<>> /\ f.i < f.registered_count
        /\ frames' = [frames EXCEPT ![Len(frames)].calling = slot]
    BY <1>1 DEF FireCalls
  <2>2. /\ f \in Frame /\ FrameOK(f, a, blurred) /\ f = frames[Len(frames)]
        /\ frames \in Seq(Frame) /\ Len(frames) \in Nat \ {0}
        /\ ArrayOK(a)
    BY <1>1, <2>1, CurrentFacts DEF EventInv
  <2>3. f.i + 1 \in 1 .. Len(a.slots) /\ f.i + 1 <= f.registered_count
    BY <2>1, <2>2 DEF FrameOK, Frame, ArrayOK, Array
  <2>4. KnownIn(slot, f, blurred)
    BY <2>2, <2>3 DEF FrameOK
  <2> HIDE DEF slot
  <2>5. Len(frames') = Len(frames) /\ frames'[Len(frames)] = [frames[Len(frames)] EXCEPT !.calling = slot]
    BY <2>1, <2>2
  <2>6. Last(frames').calling = slot
    BY <2>2, <2>5 DEF Last, Frame
  <2>7. QED BY <2>4, <2>6
<1>2. EventInv /\ [Next]_vars =>
        [FireCalls => /\ MadeOf(Last(frames').calling, Current.known)
                      /\ Current.code \notin blurred =>
                           Last(frames').calling \in Current.known]_vars
  BY <1>1 DEF KnownIn
<1>3. QED BY <1>2, EventConsistent, PTL DEF Spec, CalledWasRegistered

(***************************************************************************)
(* As long as nobody unregisters, an event goes to the listeners there     *)
(* were when it was fired, each in its turn (event.c:82-87).               *)
(***************************************************************************)
THEOREM CalledInTurn == Spec => []EachInTurn
<1>1. EventInv => EachInTurn
  <2>1. SUFFICES ASSUME EventInv, NEW k \in DOMAIN frames,
                        frames[k].calling # no_call, ~ frames[k].departed
                 PROVE  /\ frames[k].i < Len(frames[k].began)
                        /\ frames[k].calling = frames[k].began[frames[k].i + 1]
    BY DEF EachInTurn
  <2>2. k \in 1 .. Len(frames)
    BY <2>1 DEF EventInv
  <2>3. FrameOK(frames[k], registered[frames[k].code], blurred)
    BY <2>1, <2>2 DEF EventInv
  <2>4. QED BY <2>1, <2>3 DEF FrameOK
<1>2. QED BY <1>1, EventConsistent, PTL
==============================================================================
