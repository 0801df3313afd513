-------------------------- MODULE ContainerTheorems --------------------------
(***************************************************************************)
(* The containers: a ring queue is a bounded queue, the blocks of a linear *)
(* allocator lie apart, a queue and a stack keep a few elements in order,  *)
(* an array is a sequence, a hash table loses only what collides and a     *)
(* search tree holds the keys that were put into it.                       *)
(***************************************************************************)
EXTENDS Containers, SequenceTheorems, Induction

\* What a place of a container holds.
Content == Values \cup {unwritten}

\* What the operations on sequences give, element by element.
LEMMA FrontFacts ==
  ASSUME NEW V, NEW s \in Seq(V), Len(s) > 0
  PROVE  /\ Front(s) \in Seq(V)
         /\ Len(Front(s)) = Len(s) - 1
         /\ \A i \in 1 .. Len(s) - 1 : Front(s)[i] = s[i]
<1> DEFINE n == Len(s) - 1
<1>1. n \in Nat
  BY LenProperties
<1>2. \A i \in 1 .. n : s[i] \in V
  BY LenProperties, ElementOfSeq
<1>3. Front(s) = SubSeq(s, 1, n)
  BY DEF Front
<1> HIDE DEF n
<1>4. SubSeq(s, 1, n) \in Seq(V) /\ Len(SubSeq(s, 1, n)) = n
  BY <1>1, <1>2, SubSeqProperties
<1>5. \A i \in 1 .. n : SubSeq(s, 1, n)[i] = s[i]
  BY <1>1, <1>2, SubSeqProperties
<1> QED BY <1>3, <1>4, <1>5 DEF n

LEMMA AppendFacts ==
  ASSUME NEW V, NEW s \in Seq(V), NEW v \in V
  PROVE  /\ Append(s, v) \in Seq(V)
         /\ Len(Append(s, v)) = Len(s) + 1
         /\ \A i \in 1 .. Len(s) + 1 :
              Append(s, v)[i] = IF i = Len(s) + 1 THEN v ELSE s[i]
<1>1. Len(s) \in Nat
  BY LenProperties
<1> QED BY <1>1, AppendProperties

LEMMA InsertFacts ==
  ASSUME NEW V, NEW s \in Seq(V), NEW v \in V, NEW k \in 1 .. Len(s) + 1
  PROVE  /\ InsertAt(s, k, v) \in Seq(V)
         /\ Len(InsertAt(s, k, v)) = Len(s) + 1
         /\ \A i \in 1 .. k - 1 : InsertAt(s, k, v)[i] = s[i]
         /\ InsertAt(s, k, v)[k] = v
         /\ \A i \in k + 1 .. Len(s) + 1 : InsertAt(s, k, v)[i] = s[i - 1]
<1> DEFINE a == SubSeq(s, 1, k - 1)
           b == <<v>>
           c == SubSeq(s, k, Len(s))
           n == Len(s)
<1>1. n \in Nat /\ k \in Nat \ {0}
  BY LenProperties
<1>2. a \in Seq(V) /\ Len(a) = k - 1 /\ \A i \in 1 .. k - 1 : a[i] = s[i]
  BY <1>1, SubSeqProperties, ElementOfSeq
<1>3. b \in Seq(V) /\ Len(b) = 1 /\ b[1] = v
  OBVIOUS
<1>4. c \in Seq(V) /\ Len(c) = n + 1 - k /\ \A i \in 1 .. n + 1 - k : c[i] = s[k + i - 1]
  <2>1. \A i \in k .. n : s[i] \in V
    BY <1>1, ElementOfSeq
  <2>2. CASE k = n + 1
    BY <1>1, <2>1, <2>2, SubSeqProperties
  <2>3. CASE k <= n
    BY <1>1, <2>1, <2>3, SubSeqProperties
  <2> QED BY <1>1, <2>2, <2>3
<1>5. InsertAt(s, k, v) = (a \o b) \o c
  BY DEF InsertAt
<1> HIDE DEF a, b, c, n
<1>6. /\ a \o b \in Seq(V) /\ Len(a \o b) = k
      /\ \A i \in 1 .. k : (a \o b)[i] = IF i = k THEN v ELSE s[i]
  <2>1. /\ a \o b \in Seq(V) /\ Len(a \o b) = Len(a) + Len(b)
        /\ \A i \in 1 .. Len(a) + Len(b) :
             (a \o b)[i] = IF i <= Len(a) THEN a[i] ELSE b[i - Len(a)]
    BY <1>2, <1>3, ConcatProperties, Zenon
  <2> QED BY <1>1, <1>2, <1>3, <2>1
<1> DEFINE d == a \o b
<1>7. /\ d \in Seq(V) /\ Len(d) = k
      /\ \A i \in 1 .. k : d[i] = IF i = k THEN v ELSE s[i]
  BY <1>6
<1> HIDE DEF d
<1>8. /\ d \o c \in Seq(V) /\ Len(d \o c) = n + 1
      /\ \A i \in 1 .. n + 1 : (d \o c)[i] = IF i <= k THEN d[i] ELSE c[i - k]
  <2>1. /\ d \o c \in Seq(V) /\ Len(d \o c) = Len(d) + Len(c)
        /\ \A i \in 1 .. Len(d) + Len(c) :
             (d \o c)[i] = IF i <= Len(d) THEN d[i] ELSE c[i - Len(d)]
    BY <1>1, <1>4, <1>7, ConcatProperties, Zenon
  <2> QED BY <1>1, <1>4, <1>7, <2>1
<1>9. /\ \A i \in 1 .. k - 1 : (d \o c)[i] = s[i]
      /\ (d \o c)[k] = v
      /\ \A i \in k + 1 .. n + 1 : (d \o c)[i] = s[i - 1]
  <2> DEFINE whole == d \o c
  <2>1. k <= n + 1 /\ \A i \in 1 .. n + 1 : whole[i] = IF i <= k THEN d[i] ELSE c[i - k]
    BY <1>8 DEF n
  <2>2. \A i \in 1 .. k : d[i] = IF i = k THEN v ELSE s[i]
    BY <1>7
  <2>3. \A i \in 1 .. n + 1 - k : c[i] = s[k + i - 1]
    BY <1>4
  <2> HIDE DEF whole
  <2>4. ASSUME NEW i \in 1 .. k PROVE whole[i] = IF i = k THEN v ELSE s[i]
    <3>1. i \in 1 .. n + 1 /\ i <= k
      BY <1>1, <2>1
    <3> QED BY <2>1, <2>2, <3>1
  <2>5. ASSUME NEW i \in k + 1 .. n + 1 PROVE whole[i] = s[i - 1]
    <3>1. i \in 1 .. n + 1 /\ ~ (i <= k) /\ i - k \in 1 .. n + 1 - k /\ k + (i - k) - 1 = i - 1
      BY <1>1, <2>1
    <3> QED BY <2>1, <2>3, <3>1
  <2>6. k \in 1 .. k /\ \A i \in 1 .. k - 1 : i \in 1 .. k /\ i # k
    BY <1>1
  <2>7. whole[k] = v /\ \A i \in 1 .. k - 1 : whole[i] = s[i]
    BY <2>4, <2>6
  <2> QED BY <2>5, <2>7 DEF whole
<1>10. k \in 1 .. n + 1
  BY DEF n
<1>11. InsertAt(s, k, v) = d \o c
  BY <1>5 DEF d
<1> HIDE DEF d
<1> QED BY <1>8, <1>9, <1>11 DEF n

LEMMA RemoveFacts ==
  ASSUME NEW V, NEW s \in Seq(V), NEW k \in 1 .. Len(s)
  PROVE  /\ RemoveAt(s, k) \in Seq(V)
         /\ Len(RemoveAt(s, k)) = Len(s) - 1
         /\ \A i \in 1 .. Len(s) - 1 :
              RemoveAt(s, k)[i] = IF i < k THEN s[i] ELSE s[i + 1]
<1> DEFINE a == SubSeq(s, 1, k - 1)
           c == SubSeq(s, k + 1, Len(s))
           n == Len(s)
<1>1. n \in Nat /\ k \in Nat \ {0} /\ k <= n
  BY LenProperties
<1>2. a \in Seq(V) /\ Len(a) = k - 1 /\ \A i \in 1 .. k - 1 : a[i] = s[i]
  BY <1>1, SubSeqProperties, ElementOfSeq
<1>4. c \in Seq(V) /\ Len(c) = n - k /\ \A i \in 1 .. n - k : c[i] = s[k + i]
  <2>1. \A i \in k + 1 .. n : s[i] \in V
    BY <1>1, ElementOfSeq
  <2>2. CASE k = n
    BY <1>1, <2>1, <2>2, SubSeqProperties
  <2>3. CASE k < n
    BY <1>1, <2>1, <2>3, SubSeqProperties
  <2> QED BY <1>1, <2>2, <2>3
<1>5. RemoveAt(s, k) = a \o c
  BY DEF RemoveAt
<1> HIDE DEF a, c, n
<1>8. /\ a \o c \in Seq(V) /\ Len(a \o c) = n - 1
      /\ \A i \in 1 .. n - 1 : (a \o c)[i] = IF i <= k - 1 THEN a[i] ELSE c[i - (k - 1)]
  <2>1. /\ a \o c \in Seq(V) /\ Len(a \o c) = Len(a) + Len(c)
        /\ \A i \in 1 .. Len(a) + Len(c) :
             (a \o c)[i] = IF i <= Len(a) THEN a[i] ELSE c[i - Len(a)]
    BY <1>1, <1>2, <1>4, ConcatProperties, Zenon
  <2> QED BY <1>1, <1>2, <1>4, <2>1
<1>9. ASSUME NEW i \in 1 .. n - 1
      PROVE  (a \o c)[i] = IF i < k THEN s[i] ELSE s[i + 1]
  <2>1. (a \o c)[i] = IF i <= k - 1 THEN a[i] ELSE c[i - (k - 1)]
    BY <1>8
  <2>2. CASE i < k
    <3>1. i \in 1 .. k - 1 /\ i <= k - 1
      BY <1>1, <2>2
    <3>2. a[i] = s[i]
      BY <1>2, <3>1
    <3> QED BY <2>1, <2>2, <3>1, <3>2
  <2>3. CASE ~ (i < k)
    <3>1. ~ (i <= k - 1) /\ i - (k - 1) \in 1 .. n - k /\ k + (i - (k - 1)) = i + 1
      BY <1>1, <2>3
    <3>2. c[i - (k - 1)] = s[i + 1]
      BY <1>4, <3>1
    <3> QED BY <2>1, <2>3, <3>1, <3>2
  <2> QED BY <2>2, <2>3
<1> QED BY <1>5, <1>8, <1>9 DEF n

-----------------------------------------------------------------------------
(***************************************************************************)
(* The inductive invariant of a dynamic array: an array that is there has  *)
(* a block of its capacity, its length is that of the sequence it should   *)
(* hold, and an iterator stays on the side of the array it came from.      *)
(***************************************************************************)

IsArray(o) ==
  /\ o = [length |-> o.length, capacity |-> o.capacity, slots |-> o.slots]
  /\ o.length \in Nat
  /\ o.capacity \in Nat
  /\ o.length <= o.capacity
  /\ (o.slots = nullptr /\ o.length = 0) \/ o.slots \in [0 .. o.capacity - 1 -> Content]

\* It is enough that something is in the array.
HasBlock == object.slots # nullptr \/ object.length # 0

Iterator == [pos : Int, dir : {-1, 0, 1}, shrunk : BOOLEAN]

ArrayInv ==
  /\ subject \in Arrays
  /\ IsArray(object)
  /\ ideal \in [elements : Seq(Values), known : BOOLEAN, it : Iterator]
  /\ object.length = Len(ideal.elements)
  /\ ideal.known => \A i \in 1 .. object.length : object.slots[i - 1] = ideal.elements[i]
  /\ ideal.it.dir = 1 => ideal.it.pos >= 0
  /\ ideal.it.dir = -1 /\ ~ideal.it.shrunk => ideal.it.pos < object.length

-----------------------------------------------------------------------------
LEMMA Kinds == "darray" \in Arrays /\ "typed" \in Arrays
  BY DEF Arrays

\* A block that grew holds what it held.
LEMMA GrownFacts ==
  ASSUME NEW m \in Nat, NEW n \in Nat, NEW slots \in [0 .. m - 1 -> Content]
  PROVE  /\ Grown(slots, n) \in [0 .. n - 1 -> Content]
         /\ \A i \in 0 .. n - 1 : i < m => Grown(slots, n)[i] = slots[i]
<1>1. DOMAIN slots = 0 .. m - 1
  OBVIOUS
<1> QED BY <1>1 DEF Grown, Content

\* The array becomes o, which holds s, and whoever uses it believes that.
LEMMA BelievesStep ==
  ASSUME ArrayInv, NEW o, IsArray(o), NEW s \in Seq(Values), NEW known \in BOOLEAN,
         o.length = Len(s),
         ideal.known /\ known => \A i \in 1 .. o.length : o.slots[i - 1] = s[i],
         object' = o, Believes(s, known), UNCHANGED subject
  PROVE  ArrayInv'
<1> DEFINE kn == s = <<>> \/ (ideal.known /\ known)
           sh == ideal.it.shrunk \/ Len(s) < Len(ideal.elements)
           it == [ideal.it EXCEPT !.shrunk = sh]
<1>1. /\ ideal \in [elements : Seq(Values), known : BOOLEAN, it : Iterator]
      /\ ideal.it \in Iterator /\ ideal.known \in BOOLEAN
  BY DEF ArrayInv
<1>2. kn \in BOOLEAN /\ sh \in BOOLEAN
  OBVIOUS
<1>3. ideal' = [elements |-> s, known |-> kn, it |-> it]
  BY <1>1 DEF Believes
<1>4. it = [pos |-> ideal.it.pos, dir |-> ideal.it.dir, shrunk |-> sh]
  BY <1>1 DEF Iterator
<1> HIDE DEF kn, sh
<1>5. it \in Iterator
  BY <1>1, <1>2, <1>4 DEF Iterator
<1>6. /\ ideal'.elements = s /\ ideal'.known = kn /\ ideal'.it.pos = ideal.it.pos
      /\ ideal'.it.dir = ideal.it.dir /\ ideal'.it.shrunk = sh
  BY <1>3, <1>4
<1>7. ideal' \in [elements : Seq(Values), known : BOOLEAN, it : Iterator]
  BY <1>2, <1>3, <1>5
<1>8. kn => \A i \in 1 .. o.length : o.slots[i - 1] = s[i]
  <2>1. CASE s = <<>>
    <3>1. Len(s) = 0
      BY <2>1
    <3> QED BY <3>1
  <2>2. CASE s # <<>>
    BY <2>2 DEF kn
  <2> QED BY <2>1, <2>2
<1>9. ~sh => object.length <= o.length
  <2>1. Len(s) \in Nat /\ Len(ideal.elements) \in Nat /\ object.length = Len(ideal.elements)
    BY <1>1, LenProperties DEF ArrayInv
  <2> QED BY <2>1 DEF sh
<1>10. ideal'.it.dir = -1 /\ ~ideal'.it.shrunk => ideal'.it.pos < o.length
  <2>1. ASSUME ideal.it.dir = -1, ~sh PROVE ideal.it.pos < o.length
    <3>1. ~ideal.it.shrunk
      BY <2>1 DEF sh
    <3>2. ideal.it.pos < object.length
      BY <2>1, <3>1 DEF ArrayInv
    <3>3. ideal.it.pos \in Int /\ object.length \in Nat /\ o.length \in Nat
      BY <1>1 DEF Iterator, ArrayInv, IsArray
    <3> QED BY <1>9, <2>1, <3>2, <3>3
  <2> QED BY <1>6, <2>1
<1> QED BY <1>6, <1>7, <1>8, <1>10 DEF ArrayInv

\* Nothing but the answer changes.
LEMMA UnchangedArray ==
  ASSUME ArrayInv, UNCHANGED <<subject, object, ideal>> PROVE ArrayInv'
  BY DEF ArrayInv, IsArray

\* The block changes, but not what is in the array.
LEMMA SameElements ==
  ASSUME ArrayInv, NEW o, IsArray(o), o.length = object.length, object' = o,
         \A i \in 1 .. o.length : o.slots[i - 1] = object.slots[i - 1],
         UNCHANGED <<subject, ideal>>
  PROVE  ArrayInv'
  BY DEF ArrayInv

LEMMA ArrayThere ==
  ASSUME ArrayInv, HasBlock
  PROVE  /\ object.length \in Nat /\ object.capacity \in Nat
         /\ object.length <= object.capacity
         /\ object.slots \in [0 .. object.capacity - 1 -> Content]
         /\ object = [length |-> object.length, capacity |-> object.capacity,
                      slots |-> object.slots]
  BY DEF ArrayInv, IsArray, HasBlock

LEMMA ResizedRecord ==
  ASSUME NEW l, NEW c, NEW s, NEW n
  PROVE  Resized([length |-> l, capacity |-> c, slots |-> s], n)
           = [length |-> l, capacity |-> n, slots |-> Grown(s, n)]
<1> DEFINE o == [length |-> l, capacity |-> c, slots |-> s]
           p == [length |-> l, capacity |-> n, slots |-> s]
<1>1. [o EXCEPT !.capacity = n] = p /\ o.slots = s
  OBVIOUS
<1>2. \A g : [p EXCEPT !.slots = g] = [length |-> l, capacity |-> n, slots |-> g]
  OBVIOUS
<1>3. Resized(o, n) = [[o EXCEPT !.capacity = n] EXCEPT !.slots = Grown(o.slots, n)]
  BY DEF Resized
<1> HIDE DEF o, p
<1>4. Resized(o, n) = [p EXCEPT !.slots = Grown(s, n)]
  BY <1>1, <1>3
<1> QED BY <1>2, <1>4 DEF o

LEMMA ResizedFacts ==
  ASSUME ArrayInv, HasBlock, NEW n \in Nat, object.length <= n
  PROVE  /\ IsArray(Resized(object, n))
         /\ Resized(object, n).slots \in [0 .. n - 1 -> Content]
         /\ Resized(object, n).length = object.length
         /\ Resized(object, n).capacity = n
         /\ \A i \in 1 .. object.length :
              Resized(object, n).slots[i - 1] = object.slots[i - 1]
<1> DEFINE slots == Grown(object.slots, n)
<1>1. Resized(object, n) = [length |-> object.length, capacity |-> n, slots |-> slots]
  <2>1. object = [length |-> object.length, capacity |-> object.capacity,
                  slots |-> object.slots]
    BY ArrayThere
  <2>2. Resized([length |-> object.length, capacity |-> object.capacity,
                 slots |-> object.slots], n)
          = [length |-> object.length, capacity |-> n, slots |-> slots]
    BY ResizedRecord
  <2> HIDE DEF slots
  <2> QED BY <2>1, <2>2
<1>2. /\ slots \in [0 .. n - 1 -> Content]
      /\ \A i \in 0 .. n - 1 : i < object.capacity => slots[i] = object.slots[i]
  BY ArrayThere, GrownFacts
<1> HIDE DEF slots
<1>3. \A i \in 1 .. object.length : slots[i - 1] = object.slots[i - 1]
  <2> TAKE i \in 1 .. object.length
  <2>1. i - 1 \in 0 .. n - 1 /\ i - 1 < object.capacity
    BY ArrayThere
  <2> QED BY <1>2, <2>1
<1> QED BY <1>1, <1>2, <1>3, ArrayThere DEF IsArray

-----------------------------------------------------------------------------
(***************************************************************************)
(* One lemma per operation.                                                *)
(***************************************************************************)
LEMMA NewArray ==
  ASSUME NEW n \in Nat
  PROVE  /\ IsArray(New(n)) /\ New(n).length = 0
         /\ IsArray(Bare(n)) /\ Bare(n).length = 0
<1>1. New(n).slots \in [0 .. n - 1 -> Content]
  BY DEF New, Grown, Content
<1>2. IsArray(New(n)) /\ New(n).length = 0
  BY <1>1 DEF IsArray, New
<1>3. Bare(n) = [length |-> 0, capacity |-> n, slots |-> nullptr]
  BY DEF Bare, New
<1>4. IsArray(Bare(n)) /\ Bare(n).length = 0
  BY <1>3 DEF IsArray
<1> QED BY <1>2, <1>4

LEMMA CreatesStep ==
  ASSUME ArrayInv, NEW o, IsArray(o), o.length = 0, Creates(o) PROVE ArrayInv'
<1>1. object.length = 0 /\ object' = o /\ UNCHANGED <<subject, ideal>>
  BY DEF Creates, no_array
<1> QED BY <1>1, SameElements

LEMMA ClearsStep ==
  ASSUME ArrayInv, NEW o, IsArray(o), o.length = 0, Clears(o) PROVE ArrayInv'
<1>1. <<>> \in Seq(Values) /\ Len(<<>>) = 0
  BY EmptySeq
<1>2. TRUE \in BOOLEAN /\ o.length = Len(<<>>)
  BY <1>1
<1>3. \A i \in 1 .. o.length : o.slots[i - 1] = <<>>[i]
  OBVIOUS
<1>4. object' = o /\ Believes(<<>>, TRUE) /\ UNCHANGED subject
  BY DEF Clears
<1> QED BY <1>1, <1>2, <1>3, <1>4, BelievesStep

LEMMA ClearedArray ==
  ASSUME ArrayInv
  PROVE  IsArray([object EXCEPT !.length = 0]) /\ [object EXCEPT !.length = 0].length = 0
<1> DEFINE o == [length |-> 0, capacity |-> object.capacity, slots |-> object.slots]
<1>1. /\ object = [length |-> object.length, capacity |-> object.capacity,
                   slots |-> object.slots]
      /\ object.capacity \in Nat
      /\ object.slots = nullptr \/ object.slots \in [0 .. object.capacity - 1 -> Content]
  BY DEF ArrayInv, IsArray
<1>2. [object EXCEPT !.length = 0] = o
  BY <1>1
<1>3. IsArray(o) /\ o.length = 0
  BY <1>1 DEF IsArray
<1> QED BY <1>2, <1>3

LEMMA NoArray == IsArray(no_array) /\ no_array.length = 0
  BY DEF IsArray, no_array

LEMMA ResizeStep ==
  ASSUME ArrayInv, NEW n \in ArrayCapacities, darray_resize(n) PROVE ArrayInv'
<1>1. CASE UNCHANGED <<subject, object, ideal>>
  BY <1>1, UnchangedArray
<1>2. CASE /\ Has("darray") /\ object.length <= n /\ object' = Resized(object, n)
           /\ UNCHANGED <<subject, ideal>>
  <2>1. n \in Nat
    BY ArrayAssumption
  <2>2. HasBlock
    BY <1>2 DEF Has, HasBlock
  <2> QED BY <1>2, <2>1, <2>2, ResizedFacts, SameElements
<1> QED BY <1>1, <1>2 DEF darray_resize, Crash, Ends

\* What an array with room for one more element is made from, by either kind.
RoomFor(o) ==
  /\ IsArray(o)
  /\ o.length = object.length
  /\ o.slots \in [0 .. o.capacity - 1 -> Content]
  /\ \A i \in 1 .. object.length : o.slots[i - 1] = object.slots[i - 1]

LEMMA RoomyFacts ==
  ASSUME ArrayInv, HasBlock
  PROVE  RoomFor(Roomy) /\ (Roomy.capacity > 0 => object.length < Roomy.capacity)
<1>1. CASE object.length >= object.capacity
  <2>1. /\ object.capacity * Factor \in Nat /\ object.length = object.capacity
        /\ object.length <= object.capacity * Factor
        /\ object.capacity * Factor > 0 => object.length < object.capacity * Factor
    BY <1>1, ArrayThere DEF Factor
  <2>2. Roomy = Resized(object, object.capacity * Factor)
    BY <1>1 DEF Roomy
  <2> QED BY <2>1, <2>2, ResizedFacts DEF RoomFor
<1>2. CASE ~(object.length >= object.capacity)
  <2>1. Roomy = object
    BY <1>2 DEF Roomy
  <2> QED BY <1>2, <2>1, ArrayThere DEF RoomFor, ArrayInv
<1> QED BY <1>1, <1>2

LEMMA EnsuredFacts ==
  ASSUME ArrayInv, HasBlock
  PROVE  LET o == _kdarray_ensure_size(object.length + 1) IN
           RoomFor(o) /\ object.length < o.capacity
<1> DEFINE r == object.length + 1
           doubled == object.capacity * Factor
           n == IF r > doubled THEN r ELSE doubled
<1>1. CASE r <= object.capacity
  <2>1. _kdarray_ensure_size(r) = object
    BY <1>1 DEF _kdarray_ensure_size
  <2> QED BY <1>1, <2>1, ArrayThere DEF RoomFor, ArrayInv
<1>2. CASE ~(r <= object.capacity)
  <2>1. _kdarray_ensure_size(r) = Resized(object, n)
    BY <1>2 DEF _kdarray_ensure_size
  <2>2. n \in Nat /\ object.length < n
    BY ArrayThere DEF Factor
  <2> HIDE DEF n
  <2>3. object.length <= n
    BY <2>2, ArrayThere
  <2> QED BY <2>1, <2>2, <2>3, ResizedFacts DEF RoomFor
<1> QED BY <1>1, <1>2

\* An element more at the end.
LEMMA PushStep ==
  ASSUME ArrayInv, NEW o, RoomFor(o), object.length < o.capacity, NEW v \in Values,
         object' = [o EXCEPT !.length = @ + 1, !.slots[object.length] = v],
         Believes(Append(ideal.elements, v), TRUE), UNCHANGED subject
  PROVE  ArrayInv'
<1> DEFINE n == object.length
           slots == [o.slots EXCEPT ![n] = v]
           new == [length |-> n + 1, capacity |-> o.capacity, slots |-> slots]
           s == Append(ideal.elements, v)
<1>1. /\ ideal.elements \in Seq(Values) /\ n = Len(ideal.elements) /\ n \in Nat
      /\ o.capacity \in Nat /\ o.length = n
  BY DEF ArrayInv, IsArray, RoomFor
<1>2. /\ s \in Seq(Values) /\ Len(s) = n + 1
      /\ \A i \in 1 .. n + 1 : s[i] = IF i = n + 1 THEN v ELSE ideal.elements[i]
  BY <1>1, AppendFacts
<1>3. slots \in [0 .. o.capacity - 1 -> Content]
  BY <1>1 DEF RoomFor, Content
<1>4. \A i \in 0 .. o.capacity - 1 : slots[i] = IF i = n THEN v ELSE o.slots[i]
  BY DEF RoomFor
<1>5. object' = new
  <2> DEFINE p == [length |-> n + 1, capacity |-> o.capacity, slots |-> o.slots]
  <2>1. o = [length |-> n, capacity |-> o.capacity, slots |-> o.slots]
    BY <1>1 DEF RoomFor, IsArray
  <2>2. [o EXCEPT !.length = @ + 1] = p
    BY <1>1, <2>1
  <2>3. [p EXCEPT !.slots[n] = v] = new
    OBVIOUS
  <2>4. object' = [[o EXCEPT !.length = @ + 1] EXCEPT !.slots[n] = v]
    OBVIOUS
  <2> HIDE DEF p, new
  <2> QED BY <2>2, <2>3, <2>4
<1> HIDE DEF slots, s
<1>6. IsArray(new)
  BY <1>1, <1>3 DEF IsArray
<1>7. ASSUME ideal.known PROVE \A i \in 1 .. n + 1 : slots[i - 1] = s[i]
  <2> TAKE i \in 1 .. n + 1
  <2>1. CASE i = n + 1
    BY <1>1, <1>2, <1>4, <2>1
  <2>2. CASE i # n + 1
    <3>1. i \in 1 .. n /\ i - 1 \in 0 .. o.capacity - 1 /\ i - 1 # n
      BY <1>1, <2>2
    <3>2. o.slots[i - 1] = ideal.elements[i]
      BY <1>7, <3>1 DEF ArrayInv, RoomFor
    <3> QED BY <1>2, <1>4, <2>2, <3>1, <3>2
  <2> QED BY <2>1, <2>2
<1>8. new.length = Len(s) /\ (ideal.known => \A i \in 1 .. new.length : new.slots[i - 1] = s[i])
  BY <1>2, <1>7
<1> HIDE DEF new
<1> QED BY <1>2, <1>5, <1>6, <1>8, BelievesStep DEF s

\* The last element is given back.
LEMMA PopStep ==
  ASSUME ArrayInv, HasBlock, object.length > 0,
         object' = [object EXCEPT !.length = @ - 1],
         Believes(Front(ideal.elements), TRUE), UNCHANGED subject
  PROVE  ArrayInv'
<1> DEFINE n == object.length
           new == [length |-> n - 1, capacity |-> object.capacity, slots |-> object.slots]
           s == Front(ideal.elements)
<1>1. ideal.elements \in Seq(Values) /\ n = Len(ideal.elements) /\ n \in Nat \ {0}
  BY DEF ArrayInv, IsArray
<1>2. /\ s \in Seq(Values) /\ Len(s) = n - 1
      /\ \A i \in 1 .. n - 1 : s[i] = ideal.elements[i]
  BY <1>1, FrontFacts
<1>3. object' = new
  BY ArrayThere
<1> HIDE DEF s
<1>4. IsArray(new)
  BY <1>1, ArrayThere DEF IsArray
<1>5. ideal.known => \A i \in 1 .. n - 1 : new.slots[i - 1] = s[i]
  BY <1>1, <1>2 DEF ArrayInv
<1>6. new.length = Len(s) /\ (ideal.known => \A i \in 1 .. new.length : new.slots[i - 1] = s[i])
  BY <1>2, <1>5
<1> HIDE DEF new
<1> QED BY <1>2, <1>3, <1>4, <1>6, BelievesStep DEF s

\* memcpy from one range of a block to another; whole unless they overlap.
LEMMA CopiedFacts ==
  ASSUME NEW c \in Nat, NEW slots \in [0 .. c - 1 -> Content], NEW to \in Nat, NEW from \in Nat,
         NEW n \in Nat, to + n <= c, from + n <= c, NEW r \in Copied(slots, to, from, n)
  PROVE  /\ r \in [0 .. c - 1 -> Content]
         /\ n <= 1 => \A i \in 0 .. c - 1 :
              r[i] = IF i = to /\ n = 1 THEN slots[from] ELSE slots[i]
<1> DEFINE Moved(j) == [i \in 0 .. c - 1 |-> IF i \in to .. to + n - 1 THEN slots[j] ELSE slots[i]]
           whole == [i \in 0 .. c - 1 |-> IF i \in to .. to + n - 1
                       THEN slots[from + (i - to)] ELSE slots[i]]
<1>1. DOMAIN slots = 0 .. c - 1
  OBVIOUS
<1>2. r = whole \/ (n > 1 /\ \E j \in {from, from + n - 1} : r = Moved(j))
  BY <1>1 DEF Copied
<1>3. CASE r = whole
  <2>1. \A i \in 0 .. c - 1 : i \in to .. to + n - 1 => from + (i - to) \in 0 .. c - 1
    OBVIOUS
  <2>2. r \in [0 .. c - 1 -> Content]
    BY <1>3, <2>1
  <2>3. \A i \in 0 .. c - 1 : r[i] = IF i \in to .. to + n - 1
                                     THEN slots[from + (i - to)] ELSE slots[i]
    BY <1>3
  <2> HIDE DEF whole
  <2>4. ASSUME n <= 1, NEW i \in 0 .. c - 1
        PROVE  r[i] = IF i = to /\ n = 1 THEN slots[from] ELSE slots[i]
    <3>1. CASE i = to /\ n = 1
      <4>1. i \in to .. to + n - 1 /\ from + (i - to) = from
        BY <3>1
      <4> QED BY <2>3, <3>1, <4>1
    <3>2. CASE ~(i = to /\ n = 1)
      <4>1. i \notin to .. to + n - 1
        BY <2>4, <3>2
      <4> QED BY <2>3, <3>2, <4>1
    <3> QED BY <3>1, <3>2
  <2> QED BY <2>2, <2>4
<1>4. CASE n > 1 /\ \E j \in {from, from + n - 1} : r = Moved(j)
  <2>1. PICK j \in 0 .. c - 1 : r = Moved(j)
    <3>1. n > 1 => {from, from + n - 1} \subseteq 0 .. c - 1
      OBVIOUS
    <3> HIDE DEF Moved
    <3> QED BY <1>4, <3>1
  <2>2. r \in [0 .. c - 1 -> Content]
    BY <2>1
  <2> QED BY <1>4, <2>2
<1> HIDE DEF whole, Moved
<1> QED BY <1>2, <1>3, <1>4

LEMMA DarrayPushStep ==
  ASSUME ArrayInv, NEW v \in Values, _darray_push(v) PROVE ArrayInv'
<1>1. CASE UNCHANGED <<subject, object, ideal>>
  BY <1>1, UnchangedArray
<1>2. CASE /\ Has("darray") /\ Roomy.capacity > 0
           /\ object' = [Roomy EXCEPT !.length = @ + 1, !.slots[object.length] = v]
           /\ Believes(Append(ideal.elements, v), TRUE) /\ UNCHANGED subject
  BY <1>2, RoomyFacts, PushStep DEF Has, HasBlock
<1> QED BY <1>1, <1>2 DEF _darray_push, Crash, Ends

LEMMA TypedPushStep ==
  ASSUME ArrayInv, NEW v \in Values, typed_push(v) PROVE ArrayInv'
<1> DEFINE o == _kdarray_ensure_size(object.length + 1)
<1>1. CASE UNCHANGED <<subject, object, ideal>>
  BY <1>1, UnchangedArray
<1>2. CASE /\ object.slots # nullptr
           /\ object' = [o EXCEPT !.length = @ + 1, !.slots[object.length] = v]
           /\ Believes(Append(ideal.elements, v), TRUE) /\ UNCHANGED subject
  BY <1>2, EnsuredFacts, PushStep DEF HasBlock
<1> QED BY <1>1, <1>2 DEF typed_push, Crash, Ends

LEMMA DarrayPopStep == ASSUME ArrayInv, darray_pop PROVE ArrayInv'
  BY UnchangedArray, PopStep DEF darray_pop, Has, HasBlock, Returns

LEMMA TypedPopStep == ASSUME ArrayInv, typed_pop PROVE ArrayInv'
<1>1. object.length \in Nat
  BY DEF ArrayInv, IsArray
<1>2. CASE UNCHANGED <<subject, object, ideal>>
  BY <1>2, UnchangedArray
<1>3. CASE /\ object.length >= 1
           /\ object' = [object EXCEPT !.length = @ - 1]
           /\ Believes(Front(ideal.elements), TRUE) /\ UNCHANGED subject
  <2>1. HasBlock /\ object.length > 0
    BY <1>1, <1>3 DEF HasBlock
  <2> QED BY <1>3, <2>1, PopStep
<1> QED BY <1>2, <1>3 DEF typed_pop, Returns

\* An element more at an index, in the slots of a block with room for it: the
\* elements after the index have moved if the sequence is known.
LEMMA InsertStep ==
  ASSUME ArrayInv, NEW o, RoomFor(o), object.length < o.capacity,
         NEW v \in Values, NEW index \in 0 .. object.length, NEW known \in BOOLEAN,
         NEW slots \in [0 .. o.capacity - 1 -> Content],
         ideal.known /\ known => \A i \in 0 .. object.length :
           slots[i] = IF i < index THEN o.slots[i]
                      ELSE IF i = index THEN v ELSE o.slots[i - 1],
         object' = [length |-> object.length + 1, capacity |-> o.capacity, slots |-> slots],
         Believes(InsertAt(ideal.elements, index + 1, v), known), UNCHANGED subject
  PROVE  ArrayInv'
<1> DEFINE n == object.length
           new == [length |-> n + 1, capacity |-> o.capacity, slots |-> slots]
           s == InsertAt(ideal.elements, index + 1, v)
<1>1. /\ ideal.elements \in Seq(Values) /\ n = Len(ideal.elements) /\ n \in Nat
      /\ o.capacity \in Nat /\ o.length = n
  BY DEF ArrayInv, IsArray, RoomFor
<1>2. /\ s \in Seq(Values) /\ Len(s) = n + 1
      /\ \A i \in 1 .. n + 1 : s[i] =
           IF i < index + 1 THEN ideal.elements[i]
           ELSE IF i = index + 1 THEN v ELSE ideal.elements[i - 1]
  <2> DEFINE k == index + 1
             e == ideal.elements
  <2>1. k \in 1 .. Len(e) + 1 /\ e \in Seq(Values)
    BY <1>1
  <2> HIDE DEF k, e
  <2> DEFINE t == InsertAt(e, k, v)
  <2>2. t \in Seq(Values) /\ Len(t) = Len(e) + 1
    BY <2>1, InsertFacts
  <2>3. \A i \in 1 .. k - 1 : t[i] = e[i]
    BY <2>1, InsertFacts
  <2>4. t[k] = v
    BY <2>1, InsertFacts
  <2>5. \A i \in k + 1 .. Len(e) + 1 : t[i] = e[i - 1]
    BY <2>1, InsertFacts
  <2> HIDE DEF t
  <2>6. n + 1 = Len(e) + 1 /\ s = t
    BY <1>1 DEF k, e, t
  <2> HIDE DEF s
  <2>7. \A i \in 1 .. n + 1 :
          (i < k => i \in 1 .. k - 1) /\ (i < k \/ i = k \/ i \in k + 1 .. n + 1)
    BY <1>1 DEF k
  <2>8. \A i \in 1 .. n + 1 : s[i] = IF i < k THEN e[i]
                                    ELSE IF i = k THEN v ELSE e[i - 1]
    <3> TAKE i \in 1 .. n + 1
    <3>1. CASE i < k
      BY <2>3, <2>6, <2>7, <3>1
    <3>2. CASE i = k
      <4>1. ~(i < k)
        BY <3>2 DEF k
      <4> QED BY <2>4, <2>6, <3>2, <4>1
    <3>3. CASE ~(i < k) /\ i # k
      <4>1. i \in k + 1 .. Len(e) + 1
        BY <2>6, <2>7, <3>3
      <4> QED BY <2>5, <2>6, <3>3, <4>1
    <3> QED BY <3>1, <3>2, <3>3
  <2> QED BY <2>2, <2>6, <2>8 DEF k, e
<1> HIDE DEF s
<1>3. IsArray(new)
  BY <1>1 DEF IsArray
<1>4. ASSUME ideal.known /\ known PROVE \A i \in 1 .. n + 1 : slots[i - 1] = s[i]
  <2>1. \A i \in 1 .. n : o.slots[i - 1] = ideal.elements[i]
    BY <1>4 DEF ArrayInv, RoomFor
  <2>2. \A i \in 0 .. n : slots[i] = IF i < index THEN o.slots[i]
                                     ELSE IF i = index THEN v ELSE o.slots[i - 1]
    BY <1>4
  <2> TAKE i \in 1 .. n + 1
  <2>3. i - 1 \in 0 .. n
    BY <1>1
  <2>4. CASE i < index + 1
    <3>1. i - 1 < index /\ i \in 1 .. n
      BY <1>1, <2>4
    <3> QED BY <1>2, <2>1, <2>2, <2>3, <2>4, <3>1
  <2>5. CASE i = index + 1
    BY <1>1, <1>2, <2>2, <2>3, <2>5
  <2>6. CASE i > index + 1
    <3>1. /\ i - 1 \in 1 .. n /\ ~(i - 1 < index) /\ i - 1 # index
          /\ ~(i < index + 1) /\ i # index + 1
      BY <1>1, <2>6
    <3>2. slots[i - 1] = o.slots[(i - 1) - 1]
      BY <2>2, <2>3, <3>1
    <3>3. o.slots[(i - 1) - 1] = ideal.elements[i - 1]
      BY <2>1, <3>1
    <3> QED BY <1>2, <3>1, <3>2, <3>3
  <2> QED BY <1>1, <2>4, <2>5, <2>6
<1>5. /\ new.length = Len(s)
      /\ ideal.known /\ known => \A i \in 1 .. new.length : new.slots[i - 1] = s[i]
  BY <1>2, <1>4
<1>6. object' = new
  OBVIOUS
<1> HIDE DEF new
<1> QED BY <1>2, <1>3, <1>5, <1>6, BelievesStep DEF s

\* An element less, likewise.
LEMMA RemoveStep ==
  ASSUME ArrayInv, HasBlock, NEW index \in 0 .. object.length - 1,
         NEW known \in BOOLEAN, NEW slots \in [0 .. object.capacity - 1 -> Content],
         ideal.known /\ known => \A i \in 0 .. object.length - 2 :
           slots[i] = IF i < index THEN object.slots[i] ELSE object.slots[i + 1],
         object' = [length |-> object.length - 1, capacity |-> object.capacity,
                    slots |-> slots],
         Believes(RemoveAt(ideal.elements, index + 1), known), UNCHANGED subject
  PROVE  ArrayInv'
<1> DEFINE n == object.length
           new == [length |-> n - 1, capacity |-> object.capacity, slots |-> slots]
           s == RemoveAt(ideal.elements, index + 1)
<1>1. /\ ideal.elements \in Seq(Values) /\ n = Len(ideal.elements) /\ n \in Nat
      /\ object.capacity \in Nat /\ n <= object.capacity
  BY DEF ArrayInv, IsArray
<1>2. /\ s \in Seq(Values) /\ Len(s) = n - 1
      /\ \A i \in 1 .. n - 1 : s[i] =
           IF i < index + 1 THEN ideal.elements[i] ELSE ideal.elements[i + 1]
  <2>1. index + 1 \in 1 .. Len(ideal.elements)
    BY <1>1
  <2> QED BY <1>1, <2>1, RemoveFacts
<1> HIDE DEF s
<1>3. IsArray(new)
  BY <1>1 DEF IsArray
<1>4. ASSUME ideal.known /\ known PROVE \A i \in 1 .. n - 1 : slots[i - 1] = s[i]
  <2>1. \A i \in 1 .. n : object.slots[i - 1] = ideal.elements[i]
    BY <1>4 DEF ArrayInv
  <2>2. \A i \in 0 .. n - 2 : slots[i] = IF i < index THEN object.slots[i]
                                         ELSE object.slots[i + 1]
    BY <1>4
  <2> TAKE i \in 1 .. n - 1
  <2>3. i - 1 \in 0 .. n - 2 /\ i \in 1 .. n /\ i + 1 \in 1 .. n
    BY <1>1
  <2>4. CASE i < index + 1
    <3>1. i - 1 < index
      BY <1>1, <2>4
    <3> QED BY <1>2, <2>1, <2>2, <2>3, <2>4, <3>1
  <2>5. CASE ~(i < index + 1)
    <3>1. ~(i - 1 < index) /\ (i - 1) + 1 = i /\ (i + 1) - 1 = i
      BY <1>1, <2>5
    <3> QED BY <1>2, <2>1, <2>2, <2>3, <2>5, <3>1
  <2> QED BY <2>4, <2>5
<1>5. /\ new.length = Len(s)
      /\ ideal.known /\ known => \A i \in 1 .. new.length : new.slots[i - 1] = s[i]
  BY <1>2, <1>4
<1>6. object' = new
  OBVIOUS
<1> HIDE DEF new
<1> QED BY <1>2, <1>3, <1>5, <1>6, BelievesStep DEF s

LEMMA DarrayInsertStep ==
  ASSUME ArrayInv, NEW index \in 0 .. MaxLength, NEW v \in Values, _darray_insert_at(index, v)
  PROVE  ArrayInv'
<1> DEFINE n == object.length - index
<1>1. CASE UNCHANGED <<subject, object, ideal>>
  BY <1>1, UnchangedArray
<1>2. CASE /\ Has("darray") /\ index < object.length
           /\ \E slots \in Copied(Roomy.slots, index + 1, index, n) :
                object' = [Roomy EXCEPT !.length = @ + 1, !.slots = [slots EXCEPT ![index] = v]]
           /\ Believes(InsertAt(ideal.elements, index + 1, v), n = 1)
           /\ UNCHANGED subject
  <2>1. HasBlock /\ index \in Nat /\ object.length \in Nat
    BY <1>2, ArrayAssumption DEF Has, HasBlock, ArrayInv, IsArray
  <2>2. RoomFor(Roomy) /\ (Roomy.capacity > 0 => object.length < Roomy.capacity)
    BY <2>1, RoomyFacts
  <2> DEFINE c == Roomy.capacity
             old == Roomy.slots
  <2>3. /\ c \in Nat /\ old \in [0 .. c - 1 -> Content] /\ object.length <= c
        /\ Roomy = [length |-> object.length, capacity |-> c, slots |-> old]
    BY <2>2 DEF RoomFor, IsArray
  <2>4. object.length < c
    BY <1>2, <2>1, <2>2, <2>3
  <2> HIDE DEF c, old
  <2>5. PICK slots \in Copied(old, index + 1, index, n) :
          object' = [Roomy EXCEPT !.length = @ + 1, !.slots = [slots EXCEPT ![index] = v]]
    BY <1>2 DEF old
  <2>6. n \in Nat \ {0} /\ index + 1 + n <= c /\ index + n <= c /\ index + 1 \in Nat
    BY <1>2, <2>1, <2>3, <2>4
  <2>7. /\ slots \in [0 .. c - 1 -> Content]
        /\ n <= 1 => \A i \in 0 .. c - 1 :
             slots[i] = IF i = index + 1 /\ n = 1 THEN old[index] ELSE old[i]
    <3> DEFINE to == index + 1
    <3>1. slots \in Copied(old, to, index, n)
      OBVIOUS
    <3>2. to \in Nat /\ index \in Nat /\ n \in Nat /\ c \in Nat
          /\ to + n <= c /\ index + n <= c
      BY <2>1, <2>3, <2>6
    <3> HIDE DEF n, to
    <3>3. slots \in [0 .. c - 1 -> Content]
      BY <2>3, <3>1, <3>2, CopiedFacts
    <3>4. n <= 1 => \A i \in 0 .. c - 1 :
            slots[i] = IF i = to /\ n = 1 THEN old[index] ELSE old[i]
      BY <2>3, <3>1, <3>2, CopiedFacts, SMTT(60)
    <3> QED BY <3>3, <3>4 DEF to
  <2> DEFINE put == [slots EXCEPT ![index] = v]
  <2>8. put \in [0 .. c - 1 -> Content]
    BY <2>7 DEF Content
  <2>9. \A i \in 0 .. c - 1 : put[i] = IF i = index THEN v ELSE slots[i]
    BY <2>7
  <2>10. object' = [length |-> object.length + 1, capacity |-> c, slots |-> put]
    <3> DEFINE p == [length |-> object.length + 1, capacity |-> c, slots |-> old]
    <3>1. [Roomy EXCEPT !.length = @ + 1] = p
      BY <2>3
    <3>2. object' = [[Roomy EXCEPT !.length = @ + 1] EXCEPT !.slots = put]
      BY <2>5
    <3> HIDE DEF put
    <3>3. [p EXCEPT !.slots = put] =
            [length |-> object.length + 1, capacity |-> c, slots |-> put]
      OBVIOUS
    <3> HIDE DEF p
    <3> QED BY <3>1, <3>2, <3>3
  <2>11. ASSUME n = 1, NEW i \in 0 .. object.length
         PROVE  put[i] = IF i < index THEN old[i] ELSE IF i = index THEN v ELSE old[i - 1]
    <3>1. i \in 0 .. c - 1 /\ index + 1 = object.length
      BY <2>1, <2>3, <2>4, <2>11
    <3>2. slots[i] = IF i = index + 1 THEN old[index] ELSE old[i]
      BY <2>7, <2>11, <3>1
    <3>3. (i = index + 1 => i - 1 = index) /\ (i < index \/ i = index \/ i = index + 1)
      BY <2>1, <3>1
    <3> HIDE DEF put, n
    <3> QED BY <2>1, <2>9, <3>1, <3>2, <3>3
  <2>12. index \in 0 .. object.length /\ (n = 1) \in BOOLEAN
    BY <1>2, <2>1
  <2>13. ideal.known /\ (n = 1) => \A i \in 0 .. object.length :
           put[i] = IF i < index THEN old[i] ELSE IF i = index THEN v ELSE old[i - 1]
    BY <2>11
  <2> HIDE DEF put, n
  <2> QED BY <1>2, <2>2, <2>4, <2>8, <2>10, <2>12, <2>13, InsertStep DEF c, old
<1> QED BY <1>1, <1>2 DEF _darray_insert_at, Returns, Crash, Ends, Has

LEMMA DarrayPopAtStep ==
  ASSUME ArrayInv, NEW index \in 0 .. MaxLength, darray_pop_at(index) PROVE ArrayInv'
<1> DEFINE n == object.length - (index + 1)
<1>1. CASE UNCHANGED <<subject, object, ideal>>
  BY <1>1, UnchangedArray
<1>2. CASE /\ Has("darray") /\ index < object.length
           /\ \E slots \in Copied(object.slots, index, index + 1, n) :
                object' = [object EXCEPT !.length = @ - 1, !.slots = slots]
           /\ Believes(RemoveAt(ideal.elements, index + 1), n <= 1)
           /\ UNCHANGED subject
  <2>1. HasBlock /\ index \in Nat /\ object.length \in Nat
    BY <1>2, ArrayAssumption DEF Has, HasBlock, ArrayInv, IsArray
  <2> DEFINE c == object.capacity
             old == object.slots
  <2>2. /\ c \in Nat /\ old \in [0 .. c - 1 -> Content] /\ object.length <= c
        /\ object = [length |-> object.length, capacity |-> c, slots |-> old]
    BY <2>1, ArrayThere
  <2> HIDE DEF c, old
  <2>3. PICK slots \in Copied(old, index, index + 1, n) :
          object' = [object EXCEPT !.length = @ - 1, !.slots = slots]
    BY <1>2 DEF old
  <2>4. n \in Nat /\ index + n <= c /\ index + 1 + n <= c /\ index + 1 \in Nat
    BY <1>2, <2>1, <2>2
  <2>5. /\ slots \in [0 .. c - 1 -> Content]
        /\ n <= 1 => \A i \in 0 .. c - 1 :
             slots[i] = IF i = index /\ n = 1 THEN old[index + 1] ELSE old[i]
    <3> HIDE DEF n
    <3> QED BY <2>1, <2>2, <2>4, CopiedFacts
  <2>6. object' = [length |-> object.length - 1, capacity |-> c, slots |-> slots]
    <3> DEFINE p == [length |-> object.length - 1, capacity |-> c, slots |-> old]
    <3>1. [object EXCEPT !.length = @ - 1] = p
      BY <2>2
    <3>2. object' = [[object EXCEPT !.length = @ - 1] EXCEPT !.slots = slots]
      BY <2>3
    <3>3. [p EXCEPT !.slots = slots] =
            [length |-> object.length - 1, capacity |-> c, slots |-> slots]
      OBVIOUS
    <3> HIDE DEF p
    <3> QED BY <3>1, <3>2, <3>3
  <2>7. ASSUME n <= 1, NEW i \in 0 .. object.length - 2
        PROVE  slots[i] = IF i < index THEN old[i] ELSE old[i + 1]
    <3>1. i \in 0 .. c - 1 /\ (i < index \/ (i = index /\ n = 1))
      BY <1>2, <2>1, <2>2, <2>7
    <3>2. slots[i] = IF i = index /\ n = 1 THEN old[index + 1] ELSE old[i]
      BY <2>5, <2>7, <3>1
    <3> HIDE DEF n
    <3> QED BY <2>1, <3>1, <3>2
  <2>8. index \in 0 .. object.length - 1 /\ (n <= 1) \in BOOLEAN
    BY <1>2, <2>1
  <2>9. ideal.known /\ (n <= 1) => \A i \in 0 .. object.length - 2 :
           slots[i] = IF i < index THEN old[i] ELSE old[i + 1]
    BY <2>7
  <2> HIDE DEF n
  <2> QED BY <1>2, <2>1, <2>5, <2>6, <2>8, <2>9, RemoveStep DEF c, old
<1> QED BY <1>1, <1>2 DEF darray_pop_at, Returns, Has

LEMMA TypedInsertStep ==
  ASSUME ArrayInv, NEW index \in 0 .. MaxLength, NEW v \in Values, typed_insert_at(index, v)
  PROVE  ArrayInv'
<1> DEFINE o == _kdarray_ensure_size(object.length + 1)
           moved == [i \in DOMAIN o.slots |->
             CASE i < index \/ i > object.length + 1 -> o.slots[i]
               [] i = index -> v
               [] OTHER -> o.slots[i - 1]]
<1>1. CASE UNCHANGED <<subject, object, ideal>>
  BY <1>1, UnchangedArray
<1>2. CASE /\ object.slots # nullptr /\ index <= object.length
           /\ object' = [o EXCEPT !.length = @ + 1, !.slots = moved]
           /\ Believes(InsertAt(ideal.elements, index + 1, v), TRUE)
           /\ UNCHANGED subject
  <2>1. HasBlock /\ index \in Nat /\ object.length \in Nat
    BY <1>2, ArrayAssumption DEF Has, HasBlock, ArrayInv, IsArray
  <2>2. RoomFor(o) /\ object.length < o.capacity
    BY <2>1, EnsuredFacts
  <2> HIDE DEF o
  <2>3. /\ o.capacity \in Nat /\ o.slots \in [0 .. o.capacity - 1 -> Content]
        /\ o = [length |-> object.length, capacity |-> o.capacity, slots |-> o.slots]
        /\ DOMAIN o.slots = 0 .. o.capacity - 1
    BY <2>2 DEF RoomFor, IsArray
  <2>4. ASSUME NEW i \in 0 .. o.capacity - 1
        PROVE  /\ moved[i] \in Content
               /\ i <= object.length => moved[i] =
                    IF i < index THEN o.slots[i] ELSE IF i = index THEN v ELSE o.slots[i - 1]
    <3>0. moved[i] = CASE i < index \/ i > object.length + 1 -> o.slots[i]
                       [] i = index -> v
                       [] OTHER -> o.slots[i - 1]
      BY <2>3
    <3> HIDE DEF moved
    <3>1. CASE i < index \/ i > object.length + 1
      <4>1. i # index /\ (i <= object.length => i < index)
        BY <1>2, <2>1, <3>1
      <4>2. moved[i] = o.slots[i]
        BY <3>0, <3>1, <4>1
      <4> QED BY <2>3, <4>1, <4>2
    <3>2. CASE ~(i < index \/ i > object.length + 1) /\ i = index
      <4>1. moved[i] = v
        BY <3>0, <3>2
      <4> QED BY <2>1, <3>2, <4>1 DEF Content
    <3>3. CASE ~(i < index \/ i > object.length + 1) /\ i # index
      <4>1. moved[i] = o.slots[i - 1]
        BY <3>0, <3>3
      <4>2. i - 1 \in 0 .. o.capacity - 1
        BY <2>1, <2>3, <3>3
      <4> QED BY <2>3, <3>3, <4>1, <4>2
    <3> QED BY <3>1, <3>2, <3>3
  <2>5. moved \in [0 .. o.capacity - 1 -> Content]
    BY <2>3, <2>4
  <2> HIDE DEF moved
  <2>6. object' = [length |-> object.length + 1, capacity |-> o.capacity, slots |-> moved]
    <3> DEFINE p == [length |-> object.length + 1, capacity |-> o.capacity,
                     slots |-> o.slots]
    <3>1. [o EXCEPT !.length = @ + 1] = p
      BY <2>3
    <3>2. object' = [[o EXCEPT !.length = @ + 1] EXCEPT !.slots = moved]
      BY <1>2
    <3>3. [p EXCEPT !.slots = moved] =
            [length |-> object.length + 1, capacity |-> o.capacity, slots |-> moved]
      OBVIOUS
    <3> HIDE DEF p
    <3> QED BY <3>1, <3>2, <3>3
  <2>7. ideal.known /\ TRUE => \A i \in 0 .. object.length : moved[i] =
           IF i < index THEN o.slots[i] ELSE IF i = index THEN v ELSE o.slots[i - 1]
    <3>1. \A i \in 0 .. object.length : i \in 0 .. o.capacity - 1 /\ i <= object.length
      BY <2>1, <2>2, <2>3
    <3> QED BY <2>4, <3>1
  <2>8. index \in 0 .. object.length /\ TRUE \in BOOLEAN
    BY <1>2, <2>1
  <2> QED BY <1>2, <2>2, <2>5, <2>6, <2>7, <2>8, InsertStep
<1> QED BY <1>1, <1>2 DEF typed_insert_at, Returns, Crash, Ends

LEMMA TypedPopAtStep ==
  ASSUME ArrayInv, NEW index \in 0 .. MaxLength, typed_pop_at(index) PROVE ArrayInv'
<1> DEFINE old == object.slots
           moved == [i \in DOMAIN old |->
             CASE i \notin index .. object.length - 1 -> old[i]
               [] i \in index .. object.length - 1 /\ i + 1 \in DOMAIN old -> old[i + 1]
               [] OTHER -> unwritten]
<1>1. CASE UNCHANGED <<subject, object, ideal>>
  BY <1>1, UnchangedArray
<1>2. CASE /\ index < object.length
           /\ object' = [object EXCEPT !.length = @ - 1, !.slots = moved]
           /\ Believes(RemoveAt(ideal.elements, index + 1), TRUE)
           /\ UNCHANGED subject
  <2>1. HasBlock /\ index \in Nat /\ object.length \in Nat
    BY <1>2, ArrayAssumption DEF Has, HasBlock, ArrayInv, IsArray
  <2> DEFINE c == object.capacity
  <2>2. /\ c \in Nat /\ old \in [0 .. c - 1 -> Content] /\ object.length <= c
        /\ object = [length |-> object.length, capacity |-> c, slots |-> old]
        /\ DOMAIN old = 0 .. c - 1
    BY <2>1, ArrayThere
  <2> HIDE DEF c, old
  <2>3. ASSUME NEW i \in 0 .. c - 1
        PROVE  /\ moved[i] \in Content
               /\ i <= object.length - 2 => moved[i] =
                    IF i < index THEN old[i] ELSE old[i + 1]
    <3>0. moved[i] = CASE i \notin index .. object.length - 1 -> old[i]
            [] i \in index .. object.length - 1 /\ i + 1 \in 0 .. c - 1 -> old[i + 1]
            [] OTHER -> unwritten
      BY <2>2
    <3> HIDE DEF moved
    <3>1. CASE i \notin index .. object.length - 1
      <4>1. moved[i] = old[i]
        BY <3>0, <3>1
      <4>2. i <= object.length - 2 => i < index
        BY <2>1, <3>1
      <4> QED BY <2>2, <4>1, <4>2
    <3>2. CASE i \in index .. object.length - 1 /\ i + 1 \in 0 .. c - 1
      <4>1. moved[i] = old[i + 1]
        BY <3>0, <3>2
      <4>2. ~(i < index)
        BY <2>1, <3>2
      <4> QED BY <2>2, <3>2, <4>1, <4>2
    <3>3. CASE i \in index .. object.length - 1 /\ i + 1 \notin 0 .. c - 1
      <4>1. moved[i] = unwritten
        BY <3>0, <3>3
      <4>2. ~(i <= object.length - 2)
        BY <2>1, <2>2, <3>3
      <4> QED BY <4>1, <4>2 DEF Content
    <3> QED BY <3>1, <3>2, <3>3
  <2>4. moved \in [0 .. c - 1 -> Content]
    BY <2>2, <2>3
  <2> HIDE DEF moved
  <2>5. object' = [length |-> object.length - 1, capacity |-> c, slots |-> moved]
    <3> DEFINE p == [length |-> object.length - 1, capacity |-> c, slots |-> old]
    <3>1. [object EXCEPT !.length = @ - 1] = p
      BY <2>2
    <3>2. object' = [[object EXCEPT !.length = @ - 1] EXCEPT !.slots = moved]
      BY <1>2
    <3>3. [p EXCEPT !.slots = moved] =
            [length |-> object.length - 1, capacity |-> c, slots |-> moved]
      OBVIOUS
    <3> HIDE DEF p
    <3> QED BY <3>1, <3>2, <3>3
  <2>6. ideal.known /\ TRUE => \A i \in 0 .. object.length - 2 : moved[i] =
           IF i < index THEN old[i] ELSE old[i + 1]
    <3>1. \A i \in 0 .. object.length - 2 : i \in 0 .. c - 1 /\ i <= object.length - 2
      BY <2>1, <2>2
    <3> QED BY <2>3, <3>1
  <2>7. index \in 0 .. object.length - 1 /\ TRUE \in BOOLEAN
    BY <1>2, <2>1
  <2> QED BY <1>2, <2>1, <2>4, <2>5, <2>6, <2>7, RemoveStep DEF c, old
<1> QED BY <1>1, <1>2 DEF typed_pop_at, Returns

LEMMA IteratesStep ==
  ASSUME ArrayInv, NEW it \in Iterator, Iterates(it),
         it.dir = 1 => it.pos >= 0,
         it.dir = -1 /\ ~it.shrunk => it.pos < object.length
  PROVE  ArrayInv'
<1>1. ideal' = [elements |-> ideal.elements, known |-> ideal.known, it |-> it]
  BY DEF Iterates, ArrayInv
<1>2. ideal' \in [elements : Seq(Values), known : BOOLEAN, it : Iterator]
  BY <1>1 DEF ArrayInv
<1> QED BY <1>1, <1>2 DEF Iterates, ArrayInv, IsArray

LEMMA WalkStep ==
  ASSUME ArrayInv,
         darray_iterator_begin \/ darray_iterator_rbegin \/
         darray_iterator_next \/ darray_iterator_prev
  PROVE  ArrayInv'
<1> DEFINE it == ideal.it
           at(p) == [pos |-> p, dir |-> it.dir, shrunk |-> it.shrunk]
<1>1. /\ it \in Iterator /\ object.length \in Nat
      /\ it.pos \in Int /\ it.dir \in {-1, 0, 1} /\ it.shrunk \in BOOLEAN
      /\ it.dir = 1 => it.pos >= 0
      /\ it.dir = -1 /\ ~it.shrunk => it.pos < object.length
  BY DEF ArrayInv, IsArray, Iterator
<1>2. \A p \in Int : [it EXCEPT !.pos = p] = at(p) /\ at(p) \in Iterator
  BY <1>1 DEF Iterator
<1>3. CASE darray_iterator_begin
  <2>1. [pos |-> 0, dir |-> 1, shrunk |-> FALSE] \in Iterator
    BY DEF Iterator
  <2> QED BY <1>3, <2>1, IteratesStep DEF darray_iterator_begin
<1>4. CASE darray_iterator_rbegin
  <2> DEFINE r == [pos |-> object.length - 1, dir |-> -1, shrunk |-> FALSE]
  <2>1. r \in Iterator /\ r.pos < object.length /\ r.dir # 1
    BY <1>1 DEF Iterator
  <2>2. Iterates(r)
    BY <1>4 DEF darray_iterator_rbegin
  <2> HIDE DEF r
  <2> QED BY <2>1, <2>2, IteratesStep
<1>5. CASE darray_iterator_next
  <2> DEFINE p == it.pos + it.dir
  <2>1. p \in Int /\ it.dir # 0
    BY <1>1, <1>5 DEF darray_iterator_next, Walking
  <2>2. (it.dir = 1 => p >= 0) /\ (it.dir = -1 /\ ~it.shrunk => p < object.length)
    BY <1>1, <2>1
  <2>3. Iterates(at(p))
    BY <1>2, <1>5, <2>1 DEF darray_iterator_next
  <2> HIDE DEF p
  <2>4. at(p) \in Iterator
    BY <1>2, <2>1
  <2> QED BY <2>2, <2>3, <2>4, IteratesStep
<1>6. CASE darray_iterator_prev
  <2> DEFINE p == it.pos - it.dir
  <2>1. p \in Int
    BY <1>1
  <2>2. /\ it.dir = 1 => it.pos > 0
        /\ it.dir = -1 => it.pos < object.length - 1
    BY <1>6 DEF darray_iterator_prev
  <2>3. (it.dir = 1 => p >= 0) /\ (it.dir = -1 /\ ~it.shrunk => p < object.length)
    BY <1>1, <2>2
  <2>4. Iterates(at(p))
    BY <1>2, <1>6, <2>1 DEF darray_iterator_prev
  <2> HIDE DEF p
  <2>5. at(p) \in Iterator
    BY <1>2, <2>1
  <2> QED BY <2>3, <2>4, <2>5, IteratesStep
<1> QED BY <1>3, <1>4, <1>5, <1>6

LEMMA ArrayStep == ASSUME ArrayInv, [ArrayNext]_vars PROVE ArrayInv'
<1>1. ASSUME NEW n \in ArrayCapacities,
             _darray_create(n) \/ darray_resize(n) \/ _kdarray_init(n)
      PROVE  ArrayInv'
  <2>1. n \in Nat
    BY ArrayAssumption
  <2>2. CASE Creates(New(n)) \/ Creates(Bare(n))
    BY <2>1, <2>2, NewArray, CreatesStep
  <2>3. CASE object = no_array /\ Crash /\ UNCHANGED subject
    BY <2>3, UnchangedArray DEF Crash, Ends
  <2> QED BY <1>1, <2>2, <2>3, ResizeStep DEF _darray_create, _kdarray_init
<1>2. ASSUME NEW v \in Values, _darray_push(v) \/ typed_push(v) PROVE ArrayInv'
  BY <1>2, DarrayPushStep, TypedPushStep
<1>3. ASSUME NEW i \in 0 .. MaxLength, darray_pop_at(i) \/ typed_pop_at(i)
      PROVE  ArrayInv'
  BY <1>3, DarrayPopAtStep, TypedPopAtStep
<1>4. ASSUME NEW i \in 0 .. MaxLength, NEW v \in Values,
             _darray_insert_at(i, v) \/ typed_insert_at(i, v)
      PROVE  ArrayInv'
  BY <1>4, DarrayInsertStep, TypedInsertStep
<1>5. CASE darray_pop \/ typed_pop
  BY <1>5, DarrayPopStep, TypedPopStep
<1>6. CASE darray_duplicate
  BY <1>6, UnchangedArray DEF darray_duplicate, Crash, Ends, Returns
<1>7. CASE darray_clear \/ darray_destroy \/ typed_clear \/ _kdarray_free
  <2>1. CASE darray_destroy \/ _kdarray_free
    BY <2>1, NoArray, ClearsStep DEF darray_destroy, _kdarray_free
  <2>2. CASE darray_clear \/ typed_clear
    <3>1. Clears([object EXCEPT !.length = 0])
      BY <2>2 DEF darray_clear, typed_clear
    <3> QED BY <3>1, ClearedArray, ClearsStep
  <2> QED BY <1>7, <2>1, <2>2
<1>8. CASE \/ darray_iterator_begin \/ darray_iterator_rbegin
           \/ darray_iterator_next \/ darray_iterator_prev
  BY <1>8, WalkStep
<1>9. CASE UNCHANGED vars
  BY <1>9, UnchangedArray DEF vars
<1> QED BY <1>1, <1>2, <1>3, <1>4, <1>5, <1>6, <1>7, <1>8, <1>9 DEF ArrayNext

LEMMA ArrayInitially == ArrayInit => ArrayInv
<1> SUFFICES ASSUME ArrayInit PROVE ArrayInv
  OBVIOUS
<1>1. <<>> \in Seq(Values) /\ Len(<<>>) = 0
  BY EmptySeq
<1>2. ideal = [elements |-> <<>>, known |-> TRUE, it |-> no_iterator]
  BY DEF ArrayInit
<1>3. no_iterator \in Iterator
  BY DEF no_iterator, Iterator
<1>4. ideal \in [elements : Seq(Values), known : BOOLEAN, it : Iterator]
  BY <1>1, <1>2, <1>3
<1>5. ideal.elements = <<>> /\ ideal.it.dir = 0
  BY <1>2 DEF no_iterator
<1>6. object = no_array /\ object.length = 0 /\ subject \in Arrays
  BY DEF ArrayInit, no_array, Arrays
<1>7. \A i \in 1 .. object.length : object.slots[i - 1] = ideal.elements[i]
  BY <1>6
<1> QED BY <1>1, <1>4, <1>5, <1>6, <1>7, NoArray DEF ArrayInv

\* An array holds the sequence that the calls on it made.
THEOREM ArrayHoldsSequence == ArraySpec => []ArrayIsSequence
<1>1. ArrayInv => ArrayIsSequence
  BY DEF ArrayInv, ArrayIsSequence, IsArray
<1> QED BY <1>1, ArrayInitially, ArrayStep, PTL DEF ArraySpec

LEMMA ArrayInside == ArrayInv => IteratorInside
<1> SUFFICES ASSUME ArrayInv PROVE IteratorInside
  OBVIOUS
<1>1. ideal.it \in Iterator /\ object.length \in Nat
  BY DEF ArrayInv, IsArray
<1> QED BY <1>1 DEF ArrayInv, IteratorInside, Iterator, darray_iterator_end

\* An iterator that is not at its end points to an element, unless the array
\* became shorter under it.
THEOREM IteratorStaysInside == ArraySpec => []IteratorInside
<1> QED BY ArrayInside, ArrayInitially, ArrayStep, PTL DEF ArraySpec

-----------------------------------------------------------------------------
\* The ring queue.

RingBlocks == {nullptr} \cup UNION {[0 .. n - 1 -> Content] : n \in Nat}

Around(i) == IF i < object.capacity THEN i ELSE i - object.capacity

\* The fields have their types, and a block is as long as the queue says.
RingType ==
  /\ subject = "ring"
  /\ object \in [length : Nat, capacity : Nat, head : Int, tail : Int,
                 block : RingBlocks, owns_memory : BOOLEAN]
  /\ object.block # nullptr => object.block \in [0 .. object.capacity - 1 -> Content]
  /\ object.length > 0 => object.block \in [0 .. object.capacity - 1 -> Content]

\* The place after the tail is length places after the head.
HeadMeetsTail ==
  /\ object.length <= object.capacity
  /\ object.capacity > 0 =>
       /\ object.head \in 0 .. object.capacity - 1
       /\ object.tail \in -1 .. object.capacity - 1
       /\ IF object.tail + 1 = object.capacity
          THEN Around(object.head + object.length) = 0
          ELSE Around(object.head + object.length) = object.tail + 1

RingInv == RingType /\ HeadMeetsTail

-----------------------------------------------------------------------------
LEMMA Modulo ==
  ASSUME NEW c \in Nat \ {0}, NEW i \in -1 .. c - 1
  PROVE  (i + 1) % c = IF i + 1 = c THEN 0 ELSE i + 1
<1>1. CASE i + 1 = c
  BY <1>1, SMT
<1>2. CASE i + 1 # c
  BY <1>2, SMT
<1> QED BY <1>1, <1>2

\* An empty or a fresh queue, whatever its block.
LEMMA FreshQueue ==
  ASSUME RingType', object'.length = 0, object'.head = 0,
         object'.capacity > 0 => object'.tail = -1
  PROVE  RingInv'
<1> QED BY DEF RingInv, RingType, HeadMeetsTail, Around

LEMMA InitRing ==
  ASSUME RingInit PROVE RingInv
<1>1. object = no_ring_queue /\ nullptr \in RingBlocks
  BY DEF RingInit, RingBlocks
<1> QED BY <1>1 DEF RingInit, no_ring_queue, RingInv, RingType, HeadMeetsTail, Around

LEMMA CreateRing ==
  ASSUME NEW c \in RingCapacities, NEW memory \in BOOLEAN, ring_queue_create(c, memory)
  PROVE  RingInv'
<1>1. c \in Nat
  BY RingAssumption
<1>2. PICK block \in {[i \in 0 .. c - 1 |-> unwritten]} \cup {nullptr} :
        object' = [length |-> 0, capacity |-> c, head |-> 0, tail |-> -1,
                   block |-> block, owns_memory |-> ~memory]
  BY DEF ring_queue_create
<1>3. [i \in 0 .. c - 1 |-> unwritten] \in [0 .. c - 1 -> Content]
  BY DEF Content
<1>4. block \in RingBlocks /\ (block # nullptr => block \in [0 .. c - 1 -> Content])
  BY <1>1, <1>2, <1>3 DEF RingBlocks
<1>5. RingType'
  BY <1>1, <1>2, <1>4 DEF ring_queue_create, Calls, RingType
<1> QED BY <1>2, <1>5, FreshQueue

LEMMA DestroyRing ==
  ASSUME RingInv, ring_queue_destroy PROVE RingInv'
<1>1. object' = no_ring_queue
  BY DEF ring_queue_destroy
<1>2. nullptr \in RingBlocks
  BY DEF RingBlocks
<1>3. RingType'
  BY <1>1, <1>2 DEF RingInv, RingType, no_ring_queue, ring_queue_destroy
<1> QED BY <1>1, <1>3, FreshQueue DEF no_ring_queue

\* What an enqueue that takes its value does to the struct.
LEMMA EnqueueStep ==
  ASSUME RingInv, NEW v \in Values, object.length < object.capacity,
         object.block # nullptr,
         object' = [object EXCEPT !.length = @ + 1, !.tail = Following(object.tail),
                      !.block[Following(object.tail)] = v],
         subject' = subject
  PROVE  /\ RingInv'
         /\ Following(object.tail) = Around(object.head + object.length)
         /\ Following(object.tail) \in 0 .. object.capacity - 1
         /\ object' = [object EXCEPT !.length = object.length + 1,
                         !.tail = Following(object.tail),
                         !.block = [object.block EXCEPT ![Following(object.tail)] = v]]
<1> DEFINE t == Following(object.tail)
<1>1. object.capacity \in Nat \ {0} /\ object.tail \in -1 .. object.capacity - 1
  BY DEF RingInv, RingType, HeadMeetsTail
<1>2. t = IF object.tail + 1 = object.capacity THEN 0 ELSE object.tail + 1
  BY <1>1, Modulo DEF Following
<1>3. t \in 0 .. object.capacity - 1 /\ t = Around(object.head + object.length)
  BY <1>1, <1>2 DEF RingInv, RingType, HeadMeetsTail, Around
<1> HIDE DEF t
<1>4. object' = [object EXCEPT !.length = object.length + 1, !.tail = t,
                   !.block = [object.block EXCEPT ![t] = v]]
  BY DEF RingInv, RingType, t
<1>5. object.block \in [0 .. object.capacity - 1 -> Content] /\ v \in Content
  BY DEF RingInv, RingType, Content
<1>6. [object.block EXCEPT ![t] = v] \in [0 .. object.capacity - 1 -> Content]
  BY <1>5
<1>7. [object.block EXCEPT ![t] = v] \in RingBlocks
  BY <1>1, <1>6 DEF RingBlocks
<1>8. /\ object'.length = object.length + 1
      /\ object'.tail = t
      /\ object'.head = object.head
      /\ object'.capacity = object.capacity
      /\ object'.owns_memory = object.owns_memory
      /\ object'.block = [object.block EXCEPT ![t] = v]
  BY <1>4 DEF RingInv, RingType
<1>9. RingType'
  <2>1. object' \in [length : Nat, capacity : Nat, head : Int, tail : Int,
                     block : RingBlocks, owns_memory : BOOLEAN]
    <3>1. object' = [length |-> object.length + 1, capacity |-> object.capacity,
                     head |-> object.head, tail |-> t,
                     block |-> [object.block EXCEPT ![t] = v],
                     owns_memory |-> object.owns_memory]
      BY <1>4 DEF RingInv, RingType
    <3>2. /\ object.length + 1 \in Nat /\ object.capacity \in Nat /\ object.head \in Int
          /\ t \in Int /\ object.owns_memory \in BOOLEAN
      BY <1>1, <1>3 DEF RingInv, RingType
    <3> QED BY <1>7, <3>1, <3>2
  <2> QED BY <1>6, <1>8, <2>1 DEF RingInv, RingType
<1>10. HeadMeetsTail'
  BY <1>1, <1>2, <1>3, <1>8 DEF RingInv, RingType, HeadMeetsTail, Around, t
<1> QED BY <1>3, <1>4, <1>9, <1>10 DEF RingInv, t

LEMMA EnqueueRing ==
  ASSUME RingInv, NEW v \in Values, ring_queue_enqueue(v) PROVE RingInv'
<1>1. CASE object' = object
  BY <1>1 DEF RingInv, RingType, HeadMeetsTail, Around, ring_queue_enqueue
<1>2. CASE /\ object.length < object.capacity /\ object.block # nullptr
           /\ object' = [object EXCEPT !.length = @ + 1, !.tail = Following(object.tail),
                           !.block[Following(object.tail)] = v]
  BY <1>2, EnqueueStep DEF ring_queue_enqueue
<1> QED BY <1>1, <1>2 DEF ring_queue_enqueue, Returns, Crash, Ends

\* What a dequeue that finds a value does to the struct.
LEMMA DequeueStep ==
  ASSUME RingInv, object.length > 0, subject' = subject,
         object' = [object EXCEPT !.length = @ - 1, !.head = Following(object.head)]
  PROVE  /\ RingInv'
         /\ Following(object.head) = Around(object.head + 1)
         /\ object' = [object EXCEPT !.length = object.length - 1, !.head = Following(object.head)]
<1> DEFINE h == Following(object.head)
<1>1. object.capacity \in Nat \ {0} /\ object.head \in 0 .. object.capacity - 1
  BY DEF RingInv, RingType, HeadMeetsTail
<1>2. h = IF object.head + 1 = object.capacity THEN 0 ELSE object.head + 1
  BY <1>1, Modulo DEF Following
<1>3. h \in 0 .. object.capacity - 1 /\ h = Around(object.head + 1)
  BY <1>1, <1>2 DEF Around
<1> HIDE DEF h
<1>4. object' = [object EXCEPT !.length = object.length - 1, !.head = h]
  BY DEF RingInv, RingType, h
<1>5. /\ object'.length = object.length - 1
      /\ object'.tail = object.tail
      /\ object'.head = h
      /\ object'.capacity = object.capacity
      /\ object'.block = object.block
  BY <1>4 DEF RingInv, RingType
<1>6. RingType'
  <2>1. object' = [length |-> object.length - 1, capacity |-> object.capacity,
                   head |-> h, tail |-> object.tail, block |-> object.block,
                   owns_memory |-> object.owns_memory]
    BY <1>4 DEF RingInv, RingType
  <2>2. /\ object.length - 1 \in Nat /\ object.capacity \in Nat /\ h \in Int
        /\ object.tail \in Int /\ object.block \in RingBlocks /\ object.owns_memory \in BOOLEAN
        /\ object.block \in [0 .. object.capacity - 1 -> Content]
    BY <1>1, <1>3 DEF RingInv, RingType
  <2> QED BY <1>5, <2>1, <2>2 DEF RingInv, RingType
<1>7. HeadMeetsTail'
  BY <1>1, <1>2, <1>3, <1>5 DEF RingInv, RingType, HeadMeetsTail, Around, h
<1> QED BY <1>3, <1>4, <1>6, <1>7 DEF RingInv, h

LEMMA DequeueRing ==
  ASSUME RingInv, ring_queue_dequeue PROVE RingInv'
<1>1. CASE object' = object
  BY <1>1 DEF RingInv, RingType, HeadMeetsTail, Around, ring_queue_dequeue
<1>2. CASE /\ object.length > 0
           /\ object' = [object EXCEPT !.length = @ - 1, !.head = Following(object.head)]
  BY <1>2, DequeueStep DEF ring_queue_dequeue
<1>3. object' = object \/ object' = [object EXCEPT !.length = @ - 1, !.head = Following(object.head)]
  BY DEF ring_queue_dequeue, Returns, RingInv, RingType
<1> QED BY <1>1, <1>2, <1>3 DEF ring_queue_dequeue, Returns

LEMMA RingStep ==
  ASSUME RingInv, [RingNext]_vars PROVE RingInv'
<1>1. ASSUME NEW c \in RingCapacities, NEW memory \in BOOLEAN, ring_queue_create(c, memory)
      PROVE  RingInv'
  BY <1>1, CreateRing
<1>2. CASE ring_queue_destroy
  BY <1>2, DestroyRing
<1>3. ASSUME NEW v \in Values, ring_queue_enqueue(v) PROVE RingInv'
  BY <1>3, EnqueueRing
<1>4. CASE ring_queue_dequeue
  BY <1>4, DequeueRing
<1>5. CASE ring_queue_peek \/ UNCHANGED vars
  BY <1>5 DEF ring_queue_peek, Returns, vars, RingInv, RingType, HeadMeetsTail, Around
<1> QED BY <1>1, <1>2, <1>3, <1>4, <1>5 DEF RingNext

\* Head, tail and length of a ring queue agree at all times.
THEOREM RingConsistent == RingSpec => []RingInv
<1>1. RingInit => RingInv
  BY InitRing
<1>2. RingInv /\ [RingNext]_vars => RingInv'
  BY RingStep
<1> QED BY <1>1, <1>2, PTL DEF RingSpec

-----------------------------------------------------------------------------
(***************************************************************************)
(* Each step of a ring queue is a step of a bounded queue.                 *)
(***************************************************************************)
LEMMA ContentsType ==
  ASSUME RingInv
  PROVE  /\ Contents \in Seq(Content)
         /\ Len(Contents) = object.length
         /\ object.length \in Nat /\ object.capacity \in Nat
         /\ \A i \in 1 .. object.length : Place(i) \in 0 .. object.capacity - 1
<1>1. object.length \in Nat /\ object.capacity \in Nat
  BY DEF RingInv, RingType
<1>2. ASSUME NEW i \in 1 .. object.length
      PROVE  Place(i) \in 0 .. object.capacity - 1 /\ object.block[Place(i)] \in Content
  <2>1. Place(i) \in 0 .. object.capacity - 1
    BY <1>1, <1>2 DEF RingInv, HeadMeetsTail, Place
  <2> QED BY <1>1, <1>2, <2>1 DEF RingInv, RingType
<1>3. Contents \in [1 .. object.length -> Content]
  BY <1>2 DEF Contents
<1> QED BY <1>1, <1>2, <1>3

LEMMA ContentsTypeNext ==
  ASSUME RingInv'
  PROVE  Contents' \in Seq(Content) /\ Len(Contents') = object'.length
<1>1. object'.length \in Nat /\ object'.capacity \in Nat
  BY DEF RingInv, RingType
<1>2. ASSUME NEW i \in 1 .. object'.length
      PROVE  object'.block[Place(i)'] \in Content
  <2>1. Place(i)' \in 0 .. object'.capacity - 1
    BY <1>1, <1>2 DEF RingInv, HeadMeetsTail, Place
  <2> QED BY <1>1, <1>2, <2>1 DEF RingInv, RingType
<1>3. Contents' \in [1 .. object'.length -> Content]
  BY <1>2 DEF Contents
<1> QED BY <1>1, <1>3

LEMMA EmptyContents ==
  ASSUME object.length = 0 PROVE Contents = <<>>
<1>1. 1 .. object.length = {}
  OBVIOUS
<1> QED BY <1>1 DEF Contents

LEMMA AppendIs ==
  ASSUME NEW S, NEW s \in Seq(S), NEW v \in S, NEW t \in Seq(S),
         Len(t) = Len(s) + 1, t[Len(s) + 1] = v,
         \A i \in 1 .. Len(s) : t[i] = s[i]
  PROVE  t = Append(s, v)
  OBVIOUS

LEMMA TailIs ==
  ASSUME NEW S, NEW s \in Seq(S), NEW t \in Seq(S), s # <<>>,
         Len(t) = Len(s) - 1, \A i \in 1 .. Len(t) : t[i] = s[i + 1]
  PROVE  t = Tail(s)
  OBVIOUS

LEMMA EnqueueIsEnqueue ==
  ASSUME RingInv, NEW v \in Values, ring_queue_enqueue(v)
  PROVE  Fifo!Next
<1>1. CASE object.length = object.capacity /\ Returns("refused")
  <2>1. Contents' = Contents /\ object'.capacity = object.capacity
    BY <1>1 DEF Returns, Contents, Place
  <2> QED BY <1>1, <2>1, ContentsType DEF Returns, Fifo!Next, Fifo!Refuse
<1>2. CASE Crash
  <2>1. Contents' = Contents /\ object'.capacity = object.capacity
    BY <1>2 DEF Crash, Ends, Contents, Place
  <2> QED BY <1>2, <2>1 DEF Crash, Ends, Fifo!Next, Fifo!Break
<1>3. CASE /\ object.length < object.capacity /\ object.block # nullptr
           /\ object' = [object EXCEPT !.length = @ + 1, !.tail = Following(object.tail),
                           !.block[Following(object.tail)] = v]
           /\ answer' = "done"
  <2> DEFINE t == Following(object.tail)
  <2>1. /\ RingInv'
        /\ t = Around(object.head + object.length) /\ t \in 0 .. object.capacity - 1
        /\ object' = [object EXCEPT !.length = object.length + 1, !.tail = t,
                        !.block = [object.block EXCEPT ![t] = v]]
    BY <1>3, EnqueueStep DEF ring_queue_enqueue
  <2> HIDE DEF t
  <2>2. /\ object'.length = object.length + 1 /\ object'.head = object.head
        /\ object'.capacity = object.capacity
        /\ object'.block = [object.block EXCEPT ![t] = v]
    BY <2>1 DEF RingInv, RingType
  <2>3. object.block \in [0 .. object.capacity - 1 -> Content]
    BY <1>3 DEF RingInv, RingType
  <2>4. ASSUME NEW i \in 1 .. object.length
        PROVE  Contents'[i] = Contents[i]
    <3>1. /\ object.length \in Nat /\ object.capacity \in Nat
          /\ object.head \in 0 .. object.capacity - 1
      BY <1>3 DEF RingInv, RingType, HeadMeetsTail
    <3>2. Place(i)' = Place(i) /\ Place(i) # t /\ Place(i) \in 0 .. object.capacity - 1
      BY <1>3, <2>1, <2>2, <2>4, <3>1 DEF Place, Around
    <3>3. i \in 1 .. object'.length
      BY <2>2, <3>1
    <3> QED BY <2>2, <2>3, <3>2, <3>3 DEF Contents
  <2>5. Contents'[object.length + 1] = v
    <3>1. /\ object.length \in Nat /\ object.capacity \in Nat
          /\ object.head \in 0 .. object.capacity - 1
      BY <1>3 DEF RingInv, RingType, HeadMeetsTail
    <3>2. PICK n \in Nat : n = object.length
      BY <3>1
    <3>3. Place(n + 1)' = t
      BY <2>1, <2>2, <3>1, <3>2 DEF Place, Around
    <3>4. n + 1 \in 1 .. object'.length
      BY <2>2, <3>2
    <3> QED BY <2>1, <2>2, <2>3, <3>2, <3>3, <3>4 DEF Contents
  <2>6. /\ Contents \in Seq(Content) /\ Len(Contents) = object.length
        /\ object.length \in Nat /\ object.capacity \in Nat
    BY ContentsType
  <2>7. Contents' \in Seq(Content) /\ Len(Contents') = object.length + 1
    BY <2>1, <2>2, ContentsTypeNext
  <2>8. Contents' = Append(Contents, v)
    <3>1. v \in Content
      BY DEF Content
    <3> HIDE DEF Contents
    <3> QED BY <2>4, <2>5, <2>6, <2>7, <3>1, AppendIs
  <2>9. Len(Contents) < object.capacity
    BY <1>3, <2>6
  <2> QED BY <1>3, <2>2, <2>8, <2>9 DEF Fifo!Next, Fifo!Enqueue
<1> QED BY <1>1, <1>2, <1>3 DEF ring_queue_enqueue

LEMMA OldestIsHead ==
  ASSUME RingInv, object.length > 0
  PROVE  Contents # <<>> /\ Head(Contents) = object.block[object.head]
<1>1. object.length \in Nat /\ object.head \in 0 .. object.capacity - 1 /\ object.capacity \in Nat
  BY DEF RingInv, RingType, HeadMeetsTail
<1>2. Place(1) = object.head
  BY <1>1 DEF Place
<1>3. Contents[1] = object.block[object.head]
  BY <1>1, <1>2 DEF Contents
<1>4. Contents \in Seq(Content) /\ Len(Contents) = object.length
  BY ContentsType
<1> HIDE DEF Contents
<1> QED BY <1>1, <1>3, <1>4

LEMMA DequeueIsDequeue ==
  ASSUME RingInv, ring_queue_dequeue PROVE Fifo!Next
<1>1. CASE object.length = 0 /\ Returns("refused")
  <2>1. Contents' = Contents /\ object'.capacity = object.capacity
    BY <1>1 DEF Returns, Contents, Place
  <2> QED BY <1>1, <2>1, EmptyContents DEF Returns, Fifo!Next, Fifo!Refuse
<1>2. CASE /\ object.length > 0
           /\ answer' = object.block[object.head]
           /\ object' = [object EXCEPT !.length = @ - 1, !.head = Following(object.head)]
  <2> DEFINE h == Following(object.head)
  <2>1. /\ RingInv'
        /\ h = Around(object.head + 1)
        /\ object' = [object EXCEPT !.length = object.length - 1, !.head = h]
    BY <1>2, DequeueStep DEF ring_queue_dequeue
  <2> HIDE DEF h
  <2>2. /\ object'.length = object.length - 1 /\ object'.head = h
        /\ object'.capacity = object.capacity /\ object'.block = object.block
    BY <2>1 DEF RingInv, RingType
  <2>3. ASSUME NEW i \in 1 .. object'.length
        PROVE  Contents'[i] = Contents[i + 1]
    <3>1. /\ object.length \in Nat /\ object.capacity \in Nat
          /\ object.head \in 0 .. object.capacity - 1
          /\ object.length <= object.capacity
      BY <1>2 DEF RingInv, RingType, HeadMeetsTail
    <3>2. Place(i)' = Place(i + 1) /\ i + 1 \in 1 .. object.length
      BY <2>1, <2>2, <2>3, <3>1 DEF Place, Around
    <3> QED BY <2>2, <2>3, <3>2 DEF Contents
  <2>4. Contents \in Seq(Content) /\ Len(Contents) = object.length /\ object.length \in Nat
    BY ContentsType
  <2>5. Contents' \in Seq(Content) /\ Len(Contents') = object.length - 1
    BY <2>1, <2>2, ContentsTypeNext
  <2>6. Contents # <<>> /\ Head(Contents) = object.block[object.head]
    BY <1>2, OldestIsHead
  <2>7. Contents' = Tail(Contents)
    <3>1. \A i \in 1 .. Len(Contents') : Contents'[i] = Contents[i + 1]
      BY <2>2, <2>3, <2>5
    <3> HIDE DEF Contents
    <3> QED BY <2>4, <2>5, <2>6, <3>1, TailIs
  <2> QED BY <1>2, <2>2, <2>6, <2>7 DEF Fifo!Next, Fifo!Dequeue
<1> QED BY <1>1, <1>2 DEF ring_queue_dequeue

LEMMA RingStepIsFifoStep ==
  ASSUME RingInv, RingNext PROVE Fifo!Next
<1>1. ASSUME NEW c \in RingCapacities, NEW memory \in BOOLEAN, ring_queue_create(c, memory)
      PROVE  Fifo!Next
  <2>1. object'.length = 0 /\ object'.capacity = c /\ c \in Nat
    BY <1>1, RingAssumption DEF ring_queue_create
  <2>2. Contents' = <<>>
    BY <2>1, EmptyContents, 1 .. object'.length = {} DEF Contents
  <2> QED BY <1>1, <2>1, <2>2 DEF ring_queue_create, Fifo!Next, Fifo!Open
<1>2. CASE ring_queue_destroy
  <2>1. object'.length = 0 /\ object'.capacity = 0 /\ answer' = "done"
    BY <1>2 DEF ring_queue_destroy, no_ring_queue
  <2>2. Contents' = <<>>
    BY <2>1, 1 .. object'.length = {} DEF Contents
  <2> QED BY <2>1, <2>2 DEF Fifo!Next, Fifo!Open
<1>3. ASSUME NEW v \in Values, ring_queue_enqueue(v) PROVE Fifo!Next
  BY <1>3, EnqueueIsEnqueue
<1>4. CASE ring_queue_dequeue
  BY <1>4, DequeueIsDequeue
<1>5. CASE ring_queue_peek
  <2>1. Contents' = Contents /\ object'.capacity = object.capacity
    BY <1>5 DEF ring_queue_peek, Returns, Contents, Place
  <2>2. CASE object.length = 0 /\ Returns("refused")
    BY <2>1, <2>2, EmptyContents DEF Returns, Fifo!Next, Fifo!Refuse
  <2>3. CASE object.length > 0 /\ Returns(object.block[object.head])
    BY <2>1, <2>3, OldestIsHead DEF Returns, Fifo!Next, Fifo!Peek
  <2> QED BY <1>5, <2>2, <2>3 DEF ring_queue_peek
<1> QED BY <1>1, <1>2, <1>3, <1>4, <1>5 DEF RingNext

\* Whatever its capacity, a ring queue does only what a bounded queue does.
THEOREM RingIsFifo == RingSpec => RingImplementsFifo
<1>1. RingInit => RingInv
  BY InitRing
<1>2. RingInv /\ [RingNext]_vars => RingInv'
  BY RingStep
<1>3. RingInv /\ [RingNext]_vars => [subject = "ring" => Fifo!Next]_vars
  BY RingStepIsFifoStep
<1> QED BY <1>1, <1>2, <1>3, PTL DEF RingSpec, RingImplementsFifo

\* And it begins as one: ring_queue.c implements BoundedFifo.
THEOREM RingRefinesFifo == RingSpec => Fifo!Spec
<1>1. RingInit => RingInv /\ Fifo!Init
  <2>1. ASSUME RingInit PROVE Fifo!Init
    <3>1. object.length = 0 /\ object.capacity = 0 /\ answer = "none"
      BY <2>1 DEF RingInit, no_ring_queue
    <3> QED BY <3>1, EmptyContents DEF Fifo!Init
  <2> QED BY <2>1, InitRing
<1>2. RingInv /\ [RingNext]_vars => RingInv' /\ [Fifo!Next]_(Fifo!vars)
  <2>1. ASSUME RingInv, UNCHANGED vars PROVE UNCHANGED Fifo!vars
    BY <2>1 DEF vars, Fifo!vars, Contents, Place
  <2> QED BY <2>1, RingStep, RingStepIsFifoStep
<1> QED BY <1>1, <1>2, PTL DEF RingSpec, Fifo!Spec

-----------------------------------------------------------------------------
\* The linear allocator: blocks apart, unless the sum of a request wraps.

LinearBlock == [at : Nat, size : Nat]

LinearType ==
  /\ subject = "linear"
  /\ object \in [total_size : 0 .. Word - 1, allocated : Nat,
                 memory : {nullptr, "block"}, owns_memory : BOOLEAN]
  /\ ideal \subseteq LinearBlock

LinearInv ==
  /\ LinearType
  /\ object.allocated <= object.total_size
  /\ ~Wrapped =>
       /\ \A b \in ideal : End(b) <= object.allocated
       /\ \A b, c \in ideal : b = c \/ Apart(b, c)

\* A sum that fits its word is itself.
LEMMA NoWrap ==
  ASSUME NEW w \in Nat \ {0}, NEW x \in 0 .. w - 1 PROVE x % w = x
  OBVIOUS

LEMMA Remainder ==
  ASSUME NEW w \in Nat \ {0}, NEW x \in Nat PROVE x % w \in 0 .. w - 1
  OBVIOUS

LEMMA UnchangedLinear ==
  ASSUME LinearInv, UNCHANGED <<subject, object, ideal>> PROVE LinearInv'
  BY DEF LinearInv, LinearType, Wrapped, End, Apart

\* An allocator without blocks.
LEMMA NoBlocks ==
  ASSUME LinearType', ideal' = {}, object'.allocated <= object'.total_size
  PROVE  LinearInv'
  BY DEF LinearInv

LEMMA AllocateLinear ==
  ASSUME LinearInv, NEW size \in RequestSizes, linear_allocator_allocate(size)
  PROVE  LinearInv'
<1> DEFINE end == (object.allocated + size) % Word
           block == [at |-> object.allocated, size |-> size]
<1>1. CASE UNCHANGED <<subject, object, ideal>>
  BY <1>1, UnchangedLinear
<1>2. CASE /\ end <= object.total_size
           /\ object' = [object EXCEPT !.allocated = end]
           /\ ideal' = ideal \cup {block}
           /\ subject' = subject
  <2>1. /\ Word \in Nat \ {0} /\ size \in Nat /\ object.allocated \in Nat
        /\ object.total_size \in 0 .. Word - 1
    BY LinearAssumption DEF LinearInv, LinearType
  <2>2. end \in 0 .. Word - 1
    BY <2>1, Remainder
  <2>3. block \in LinearBlock /\ End(block) = object.allocated + size
    BY <2>1 DEF LinearBlock, End
  <2>4. object'.allocated = end /\ object'.total_size = object.total_size
    BY <1>2 DEF LinearInv, LinearType
  <2>5. LinearType'
    <3>1. ideal' \subseteq LinearBlock
      BY <1>2, <2>3 DEF LinearInv, LinearType
    <3> HIDE DEF end, block
    <3> QED BY <1>2, <2>2, <3>1 DEF LinearInv, LinearType
  <2>6. ASSUME ~Wrapped'
        PROVE  /\ \A b \in ideal' : End(b) <= object'.allocated
               /\ \A b, c \in ideal' : b = c \/ Apart(b, c)
    <3>1. ~Wrapped /\ ~(End(block) >= Word)
      BY <1>2, <2>6 DEF Wrapped, End
    <3>2. object.allocated + size \in 0 .. Word - 1
      BY <2>1, <2>3, <3>1
    <3>3. end = object.allocated + size
      BY <2>1, <3>2, NoWrap
    <3>4. \A b \in ideal : b \in LinearBlock /\ End(b) <= object.allocated
      BY <3>1 DEF LinearInv, LinearType
    <3>5. \A b \in ideal : End(b) \in Nat
      BY <3>4 DEF LinearBlock, End
    <3> HIDE DEF end
    <3>6. \A b \in ideal' : End(b) <= object'.allocated
      BY <1>2, <2>1, <2>3, <2>4, <3>3, <3>4, <3>5
    <3>7. \A b \in ideal : Apart(b, block) /\ Apart(block, b)
      BY <2>1, <3>4 DEF Apart
    <3> HIDE DEF block
    <3>8. \A b, c \in ideal' : b = c \/ Apart(b, c)
      BY <1>2, <3>1, <3>7 DEF LinearInv
    <3> QED BY <3>6, <3>8
  <2>7. object'.allocated <= object'.total_size
    BY <1>2, <2>4
  <2> QED BY <2>5, <2>6, <2>7 DEF LinearInv
<1> QED BY <1>1, <1>2 DEF linear_allocator_allocate, Returns

LEMMA LinearStep ==
  ASSUME LinearInv, [LinearNext]_vars PROVE LinearInv'
<1>1. ASSUME NEW n \in TotalSizes, NEW given \in BOOLEAN, linear_allocator_create(n, given)
      PROVE  LinearInv'
  <2>1. n \in 0 .. Word - 1
    BY LinearAssumption
  <2>2. PICK memory \in {nullptr, "block"} :
          object' = [total_size |-> n, allocated |-> 0, memory |-> memory,
                     owns_memory |-> ~given]
    BY <1>1 DEF linear_allocator_create
  <2>3. LinearType' /\ ideal' = {} /\ object'.allocated <= object'.total_size
    BY <1>1, <2>1, <2>2 DEF linear_allocator_create, LinearInv, LinearType
  <2> QED BY <2>3, NoBlocks
<1>2. CASE linear_allocator_destroy
  <2>1. /\ Word \in Nat \ {0} /\ object.allocated \in Nat
        /\ object.owns_memory \in BOOLEAN /\ object.memory \in {nullptr, "block"}
    BY LinearAssumption DEF LinearInv, LinearType
  <2>2. object' = [total_size |-> 0, allocated |-> 0,
                   memory |-> IF object.owns_memory THEN nullptr ELSE object.memory,
                   owns_memory |-> object.owns_memory /\ object.memory = nullptr]
    BY <1>2 DEF linear_allocator_destroy, LinearInv, LinearType
  <2>3. LinearType' /\ ideal' = {} /\ object'.allocated <= object'.total_size
    <3> DEFINE m == IF object.owns_memory THEN nullptr ELSE object.memory
               o == object.owns_memory /\ object.memory = nullptr
    <3>1. m \in {nullptr, "block"} /\ o \in BOOLEAN /\ 0 \in 0 .. Word - 1
      BY <2>1
    <3>2. object' = [total_size |-> 0, allocated |-> 0, memory |-> m, owns_memory |-> o]
      BY <2>2
    <3> HIDE DEF m, o
    <3>3. object' \in [total_size : 0 .. Word - 1, allocated : Nat,
                       memory : {nullptr, "block"}, owns_memory : BOOLEAN]
      BY <3>1, <3>2
    <3>4. ideal' = {} /\ subject' = "linear"
      BY <1>2 DEF linear_allocator_destroy, LinearInv, LinearType
    <3> QED BY <3>2, <3>3, <3>4 DEF LinearType
  <2> QED BY <2>3, NoBlocks
<1>3. ASSUME NEW n \in RequestSizes, linear_allocator_allocate(n) PROVE LinearInv'
  BY <1>3, AllocateLinear
<1>4. CASE linear_allocator_free_all
  <2>1. CASE object.memory = nullptr
    <3>1. object' = object
      BY <1>4, <2>1 DEF linear_allocator_free_all, LinearInv, LinearType
    <3> QED BY <1>4, <2>1, <3>1, UnchangedLinear DEF linear_allocator_free_all
  <2>2. CASE object.memory # nullptr
    <3>1. object' = [object EXCEPT !.allocated = 0] /\ ideal' = {} /\ subject' = subject
      BY <1>4, <2>2 DEF linear_allocator_free_all
    <3>2. LinearType' /\ object'.allocated <= object'.total_size
      BY <3>1, LinearAssumption DEF LinearInv, LinearType
    <3> QED BY <3>1, <3>2, NoBlocks
  <2> QED BY <2>1, <2>2
<1>5. CASE UNCHANGED vars
  BY <1>5, UnchangedLinear DEF vars
<1> QED BY <1>1, <1>2, <1>3, <1>4, <1>5 DEF LinearNext

\* Blocks do not overlap and lie inside the memory, unless a sum wraps.
LEMMA LinearInitially == LinearInit => LinearInv
<1>1. 0 \in 0 .. Word - 1
  BY LinearAssumption
<1> QED BY <1>1 DEF LinearInit, no_linear_allocator, LinearInv, LinearType, Wrapped

\* The blocks of a linear allocator lie apart, unless the sum of a request wraps.
THEOREM LinearApart == LinearSpec => []LinearBlocksApart
<1>1. LinearInv /\ [LinearNext]_vars => LinearInv'
  BY LinearStep
<1>2. LinearInv => LinearBlocksApart
  BY DEF LinearInv, LinearBlocksApart
<1> QED BY LinearInitially, <1>1, <1>2, PTL DEF LinearSpec

-----------------------------------------------------------------------------
\* The queue and the stack.

\* A block of the size the struct says.
IsElements(o) ==
  /\ o = [count |-> o.count, memory |-> o.memory, allocated |-> o.allocated]
  /\ o.count \in Nat
  /\ o.allocated \in Nat
  /\ \/ o.memory = nullptr
     \/ o.allocated \in BlockSizes /\ o.memory \in [0 .. o.allocated - 1 -> Content]
  /\ o.count >= 1 => o.memory # nullptr /\ Scale * (o.count - 1) < o.allocated

\* The first element of a block is the first of s; of a queue that holds two
\* the second is where the second push wrote it, of a stack nothing else is
\* written below it.
Holds(o, s, peak) ==
  /\ subject = "queue" /\ peak <= 2 =>
       /\ o.count >= 1 => o.memory[0] = s[1]
       /\ o.count = 2 => o.memory[Scale] = s[2]
  /\ subject = "stack" =>
       /\ o.count >= 1 => o.memory[0] = s[1]
       /\ o.memory # nullptr =>
            \A i \in 1 .. Scale - 1 : i < o.allocated => o.memory[i] = unwritten

ElementInv ==
  /\ subject \in {"queue", "stack"}
  /\ IsElements(object)
  /\ ideal \in [pushed : Seq(Values), peak : Nat]
  /\ object.count = Len(ideal.pushed)
  /\ object.count <= ideal.peak
  /\ object.count = 0 => ideal.peak = 0
  /\ Holds(object, ideal.pushed, ideal.peak)
  /\ answer = "overrun" => object.count >= 1

LEMMA BlockSizeFacts ==
  /\ BlockSizes \subseteq Nat /\ 1 \in BlockSizes /\ Reserves \subseteq BlockSizes
  /\ \A n \in Nat : n < MaxElements => n + 1 \in BlockSizes
  /\ \A n \in BlockSizes : nullptr \notin [0 .. n - 1 -> Content]
  BY ElementAssumption DEF BlockSizes, Content

\* What a block that was made large enough holds.
LEMMA EnsuredElements ==
  ASSUME NEW o, IsElements(o), NEW n \in BlockSizes, NEW e \in Ensured(o, n)
  PROVE  /\ IsElements(e)
         /\ e.count = o.count
         /\ e.allocated >= n
         /\ o.memory # nullptr =>
              /\ e.memory # nullptr
              /\ o.allocated <= e.allocated
              /\ \A i \in 0 .. o.allocated - 1 : e.memory[i] = o.memory[i]
         /\ e.memory # nullptr => \A i \in 0 .. e.allocated - 1 :
              \/ o.memory # nullptr /\ i < o.allocated
              \/ e.memory[i] = unwritten
<1> DEFINE grown == [i \in 0 .. n - 1 |->
             IF o.memory # nullptr /\ i < o.allocated THEN o.memory[i] ELSE unwritten]
<1>1. /\ o.count \in Nat /\ o.allocated \in Nat /\ n \in Nat
      /\ o = [count |-> o.count, memory |-> o.memory, allocated |-> o.allocated]
  BY BlockSizeFacts DEF IsElements
<1>2. CASE o.allocated >= n
  <2>1. e = o
    BY <1>2 DEF Ensured
  <2> QED BY <1>1, <1>2, <2>1
<1>3. CASE ~(o.allocated >= n)
  <2>1. \/ e = [o EXCEPT !.allocated = n, !.memory = grown]
        \/ o.memory = nullptr /\ e = [o EXCEPT !.allocated = n]
    BY <1>3 DEF Ensured
  <2> HIDE DEF grown
  <2>2. [o EXCEPT !.allocated = n] =
          [count |-> o.count, memory |-> o.memory, allocated |-> n]
    BY <1>1
  <2>3. [o EXCEPT !.allocated = n, !.memory = grown] =
          [count |-> o.count, memory |-> grown, allocated |-> n]
    <3> DEFINE p == [count |-> o.count, memory |-> o.memory, allocated |-> n]
    <3>1. [p EXCEPT !.memory = grown] =
            [count |-> o.count, memory |-> grown, allocated |-> n]
      OBVIOUS
    <3>2. [o EXCEPT !.allocated = n, !.memory = grown] =
            [[o EXCEPT !.allocated = n] EXCEPT !.memory = grown]
      OBVIOUS
    <3> HIDE DEF p
    <3>3. [o EXCEPT !.allocated = n] = p
      BY <2>2 DEF p
    <3> QED BY <3>1, <3>2, <3>3
  <2>4. CASE e = [count |-> o.count, memory |-> grown, allocated |-> n]
    <3>1. \A i \in 0 .. n - 1 : grown[i] =
            IF o.memory # nullptr /\ i < o.allocated THEN o.memory[i] ELSE unwritten
      BY DEF grown
    <3>2. grown \in [0 .. n - 1 -> Content]
      <4>1. ASSUME NEW i \in 0 .. n - 1, o.memory # nullptr, i < o.allocated
            PROVE  o.memory[i] \in Content
        <5>1. o.memory \in [0 .. o.allocated - 1 -> Content] /\ i \in 0 .. o.allocated - 1
          BY <1>1, <4>1 DEF IsElements
        <5> QED BY <5>1
      <4>2. unwritten \in Content
        BY DEF Content
      <4> QED BY <4>1, <4>2 DEF grown
    <3>3. grown # nullptr
      BY <3>2, BlockSizeFacts
    <3>4. o.allocated <= n /\ (o.count >= 1 => Scale * (o.count - 1) < n)
      BY <1>1, <1>3 DEF IsElements, Scale
    <3>5. IsElements(e)
      BY <1>1, <2>4, <3>2, <3>3, <3>4 DEF IsElements
    <3>6. \A i \in 0 .. o.allocated - 1 : o.memory # nullptr => grown[i] = o.memory[i]
      <4>1. \A i \in 0 .. o.allocated - 1 : i \in 0 .. n - 1 /\ i < o.allocated
        BY <1>1, <3>4
      <4> QED BY <3>1, <4>1
    <3>7. \A i \in 0 .. n - 1 : \/ o.memory # nullptr /\ i < o.allocated
                                \/ grown[i] = unwritten
      BY <3>1
    <3> QED BY <1>1, <2>4, <3>3, <3>4, <3>5, <3>6, <3>7
  <2>5. CASE o.memory = nullptr /\ e = [count |-> o.count, memory |-> o.memory, allocated |-> n]
    <3>1. ~(o.count >= 1)
      BY <2>5 DEF IsElements
    <3> QED BY <1>1, <2>5, <3>1 DEF IsElements
  <2> QED BY <2>1, <2>2, <2>3, <2>4, <2>5
<1> QED BY <1>2, <1>3

LEMMA ElementThere ==
  ASSUME ElementInv
  PROVE  /\ object = [count |-> object.count, memory |-> object.memory,
                      allocated |-> object.allocated]
         /\ object.count \in Nat /\ object.allocated \in Nat
         /\ ideal = [pushed |-> ideal.pushed, peak |-> ideal.peak]
         /\ ideal.pushed \in Seq(Values) /\ ideal.peak \in Nat
         /\ object.count = Len(ideal.pushed)
  BY DEF ElementInv, IsElements

LEMMA UnchangedElements ==
  ASSUME ElementInv, UNCHANGED <<subject, object, ideal>>,
         answer' = "overrun" => object.count >= 1
  PROVE  ElementInv'
  BY DEF ElementInv, IsElements, Holds

\* What is pushed is believed to be s.
LEMMA BelievedFacts ==
  ASSUME ElementInv, NEW s \in Seq(Values), Believed(s)
  PROVE  /\ ideal' \in [pushed : Seq(Values), peak : Nat]
         /\ ideal'.pushed = s
         /\ s = <<>> => ideal'.peak = 0
         /\ s # <<>> => ideal'.peak >= Len(s) /\ ideal'.peak >= ideal.peak
<1> DEFINE peak == CASE s = <<>> -> 0
                     [] Len(s) > ideal.peak -> Len(s)
                     [] OTHER -> ideal.peak
<1>1. Len(s) \in Nat /\ ideal.peak \in Nat /\ (s = <<>> => Len(s) = 0)
  BY ElementThere, LenProperties, EmptySeq
<1>2. ideal' = [pushed |-> s, peak |-> peak]
  BY DEF Believed
<1>3. /\ peak \in Nat /\ (s = <<>> => peak = 0)
      /\ s # <<>> => peak >= Len(s) /\ peak >= ideal.peak
  <2>1. CASE s = <<>>
    <3>1. peak = 0
      BY <1>1, <2>1
    <3> HIDE DEF peak
    <3> QED BY <2>1, <3>1
  <2>2. CASE s # <<>> /\ Len(s) > ideal.peak
    <3>1. peak = Len(s)
      BY <2>2
    <3> HIDE DEF peak
    <3> QED BY <1>1, <2>2, <3>1
  <2>3. CASE s # <<>> /\ ~(Len(s) > ideal.peak)
    <3>1. peak = ideal.peak
      BY <2>3
    <3> HIDE DEF peak
    <3> QED BY <1>1, <2>3, <3>1
  <2> QED BY <2>1, <2>2, <2>3
<1> HIDE DEF peak
<1> QED BY <1>2, <1>3

\* The block becomes another one that holds the same elements.
LEMMA ReblockStep ==
  ASSUME ElementInv, NEW n \in BlockSizes, NEW e \in Ensured(object, n),
         object' = e, answer' = "done", UNCHANGED <<subject, ideal>>
  PROVE  ElementInv'
<1>1. /\ IsElements(object) /\ object.count \in Nat /\ object.allocated \in Nat
      /\ object.count >= 1 => object.memory # nullptr /\ Scale * (object.count - 1) < object.allocated
  BY DEF ElementInv, IsElements
<1>2. /\ IsElements(e)
      /\ e.count = object.count
      /\ object.memory # nullptr =>
           /\ e.memory # nullptr
           /\ \A i \in 0 .. object.allocated - 1 : e.memory[i] = object.memory[i]
      /\ e.memory # nullptr => \A i \in 0 .. e.allocated - 1 :
           \/ object.memory # nullptr /\ i < object.allocated
           \/ e.memory[i] = unwritten
  BY <1>1, EnsuredElements
<1>3. object.count >= 1 => e.memory[0] = object.memory[0]
  <2>1. ASSUME object.count >= 1 PROVE 0 \in 0 .. object.allocated - 1
    BY <1>1, <2>1 DEF Scale
  <2> QED BY <1>1, <1>2, <2>1
<1>4. object.count = 2 => e.memory[Scale] = object.memory[Scale]
  <2>1. ASSUME object.count = 2 PROVE Scale \in 0 .. object.allocated - 1
    BY <1>1, <2>1 DEF Scale
  <2> QED BY <1>1, <1>2, <2>1
<1>5. ASSUME subject = "stack", e.memory # nullptr, NEW i \in 1 .. Scale - 1, i < e.allocated
      PROVE  e.memory[i] = unwritten
  <2>1. i \in 0 .. e.allocated - 1 /\ e.allocated \in Nat
    BY <1>2, <1>5 DEF Scale, IsElements
  <2>2. CASE object.memory # nullptr /\ i < object.allocated
    <3>1. i \in 0 .. object.allocated - 1
      BY <1>1, <2>2 DEF Scale
    <3> QED BY <1>2, <1>5, <2>2, <3>1 DEF ElementInv, Holds
  <2> QED BY <1>2, <1>5, <2>1, <2>2
<1>6. Holds(e, ideal.pushed, ideal.peak)
  BY <1>2, <1>3, <1>4, <1>5 DEF ElementInv, Holds
<1> QED BY <1>2, <1>6 DEF ElementInv, Holds

LEMMA CreateStep == ASSUME ElementInv, Create PROVE ElementInv'
<1>1. PICK e \in Ensured(object, 1) : object' = e
  BY DEF Create
<1> QED BY <1>1, BlockSizeFacts, ReblockStep DEF Create

LEMMA DestroyStep == ASSUME ElementInv, Destroy PROVE ElementInv'
<1>1. <<>> \in Seq(Values) /\ Len(<<>>) = 0
  BY EmptySeq
<1>2. /\ ideal' \in [pushed : Seq(Values), peak : Nat]
      /\ ideal'.pushed = <<>> /\ ideal'.peak = 0
  BY <1>1, BelievedFacts DEF Destroy
<1>3. IsElements(no_elements) /\ no_elements.count = 0 /\ no_elements.memory = nullptr
  BY DEF IsElements, no_elements
<1>4. object' = no_elements /\ subject' = subject /\ answer' = "done"
  BY DEF Destroy
<1>5. Holds(no_elements, <<>>, 0)
  BY <1>3 DEF Holds
<1>6. Holds(object, ideal.pushed, ideal.peak)'
  BY <1>2, <1>4, <1>5 DEF Holds
<1> QED BY <1>1, <1>2, <1>3, <1>4, <1>6 DEF ElementInv, IsElements

LEMMA ReserveStep ==
  ASSUME ElementInv, NEW n \in Reserves, Reserve(n) PROVE ElementInv'
<1>1. CASE Crash /\ UNCHANGED subject
  BY <1>1, UnchangedElements DEF Crash, Ends
<1>2. CASE object' \in Ensured(object, n) /\ answer' = "done" /\ UNCHANGED <<subject, ideal>>
  <2>1. PICK e \in Ensured(object, n) : object' = e
    BY <1>2
  <2> QED BY <1>2, <2>1, BlockSizeFacts, ReblockStep
<1> QED BY <1>1, <1>2 DEF Reserve

LEMMA PushElementStep ==
  ASSUME ElementInv, NEW v \in Values, Push(v) PROVE ElementInv'
<1> DEFINE n == object.count
           s == Append(ideal.pushed, v)
<1>1. CASE Crash /\ UNCHANGED subject
  BY <1>1, UnchangedElements DEF Crash, Ends
<1>2. ASSUME NEW e \in Ensured(object, n + 1), n < MaxElements,
             e.memory # nullptr, Scale * e.count >= e.allocated,
             Ends("overrun"), UNCHANGED subject
      PROVE  ElementInv'
  <2>1. n + 1 \in BlockSizes /\ n \in Nat
    BY <1>2, BlockSizeFacts, ElementThere
  <2>2. e.count = n /\ e.allocated >= n + 1 /\ e.allocated \in Nat
    BY <2>1, EnsuredElements DEF ElementInv, IsElements
  <2>3. n >= 1
    BY <1>2, <2>1, <2>2 DEF Scale
  <2> QED BY <1>2, <2>3, UnchangedElements DEF Ends
<1>3. ASSUME NEW e \in Ensured(object, n + 1), n < MaxElements,
             e.memory # nullptr, Scale * e.count < e.allocated,
             object' = [e EXCEPT !.count = @ + 1, !.memory[Scale * e.count] = v],
             Believed(s), answer' = "done", UNCHANGED subject
      PROVE  ElementInv'
  <2>1. /\ n + 1 \in BlockSizes /\ n \in Nat /\ object.allocated \in Nat
        /\ ideal.pushed \in Seq(Values) /\ n = Len(ideal.pushed) /\ ideal.peak \in Nat
        /\ n <= ideal.peak /\ IsElements(object)
    BY <1>3, BlockSizeFacts, ElementThere DEF ElementInv
  <2>2. /\ IsElements(e) /\ e.count = n
        /\ object.memory # nullptr =>
             \A i \in 0 .. object.allocated - 1 : e.memory[i] = object.memory[i]
        /\ \A i \in 0 .. e.allocated - 1 :
             \/ object.memory # nullptr /\ i < object.allocated
             \/ e.memory[i] = unwritten
    BY <1>3, <2>1, EnsuredElements
  <2>3. /\ e = [count |-> n, memory |-> e.memory, allocated |-> e.allocated]
        /\ e.allocated \in BlockSizes /\ e.allocated \in Nat
        /\ e.memory \in [0 .. e.allocated - 1 -> Content]
    BY <1>3, <2>2 DEF IsElements
  <2> DEFINE put == [e.memory EXCEPT ![Scale * n] = v]
             o == [count |-> n + 1, memory |-> put, allocated |-> e.allocated]
  <2>4. object' = o
    <3> DEFINE p == [count |-> n + 1, memory |-> e.memory, allocated |-> e.allocated]
    <3>1. [e EXCEPT !.count = @ + 1] = p
      BY <2>3
    <3>2. object' = [[e EXCEPT !.count = @ + 1] EXCEPT !.memory[Scale * n] = v]
      BY <1>3, <2>2
    <3>3. [p EXCEPT !.memory[Scale * n] = v] = o
      OBVIOUS
    <3> HIDE DEF p, o
    <3> QED BY <3>1, <3>2, <3>3
  <2>5. /\ put \in [0 .. e.allocated - 1 -> Content]
        /\ \A i \in 0 .. e.allocated - 1 : put[i] = IF i = Scale * n THEN v ELSE e.memory[i]
    BY <2>3 DEF Content
  <2> HIDE DEF put
  <2>6. put # nullptr
    BY <2>3, <2>5, BlockSizeFacts
  <2>7. Scale * n < e.allocated /\ Scale * n \in 0 .. e.allocated - 1
    BY <1>3, <2>1, <2>2, <2>3 DEF Scale
  <2>8. IsElements(o)
    BY <2>1, <2>3, <2>5, <2>6, <2>7 DEF IsElements
  <2>9. /\ s \in Seq(Values) /\ Len(s) = n + 1
        /\ \A i \in 1 .. n + 1 : s[i] = IF i = n + 1 THEN v ELSE ideal.pushed[i]
    BY <2>1, AppendFacts
  <2>10. s # <<>>
    BY <2>1, AppendProperties
  <2>11. /\ ideal' \in [pushed : Seq(Values), peak : Nat] /\ ideal'.pushed = s
         /\ ideal'.peak >= n + 1 /\ ideal'.peak >= ideal.peak
    BY <1>3, <2>9, <2>10, BelievedFacts
  <2> HIDE DEF s
  <2>12. ASSUME subject = "stack" \/ ideal'.peak <= 2 PROVE put[0] = s[1]
    <3>1. CASE n = 0
      <4>1. 0 = Scale * n /\ 0 \in 0 .. e.allocated - 1
        BY <2>1, <2>7, <3>1 DEF Scale
      <4>2. s[1] = v
        BY <2>9, <3>1
      <4> QED BY <2>5, <4>1, <4>2
    <3>2. CASE n # 0
      <4>1. /\ n >= 1 /\ 0 # Scale * n /\ 0 \in 0 .. e.allocated - 1
            /\ object.memory # nullptr /\ 0 \in 0 .. object.allocated - 1
        BY <2>1, <2>3, <2>7, <3>2 DEF IsElements, Scale
      <4>2. put[0] = object.memory[0]
        BY <2>2, <2>5, <4>1
      <4>3. subject = "stack" \/ (subject = "queue" /\ ideal.peak <= 2)
        BY <2>1, <2>11, <2>12 DEF ElementInv
      <4>4. object.memory[0] = ideal.pushed[1]
        BY <4>1, <4>3 DEF ElementInv, Holds
      <4>5. 1 \in 1 .. n + 1 /\ 1 # n + 1
        BY <2>1, <3>2
      <4> QED BY <2>9, <4>2, <4>4, <4>5
    <3> QED BY <3>1, <3>2
  <2>13. ASSUME n + 1 = 2 PROVE put[Scale] = s[2]
    <3>1. Scale = Scale * n /\ 2 = n + 1 /\ 2 \in 1 .. n + 1
      BY <2>1, <2>13 DEF Scale
    <3> QED BY <2>5, <2>7, <2>9, <3>1
  <2>14. ASSUME subject = "stack", NEW i \in 1 .. Scale - 1, i < e.allocated
         PROVE  put[i] = unwritten
    <3>1. i # Scale * n /\ i \in 0 .. e.allocated - 1
      BY <2>1, <2>3, <2>14 DEF Scale
    <3>2. CASE object.memory # nullptr /\ i < object.allocated
      <4>1. i \in 0 .. object.allocated - 1
        BY <2>1, <3>2 DEF Scale
      <4>2. object.memory[i] = unwritten
        BY <2>14, <3>2 DEF ElementInv, Holds
      <4> QED BY <2>2, <2>5, <3>1, <3>2, <4>1, <4>2
    <3> QED BY <2>2, <2>5, <3>1, <3>2
  <2>15. Holds(o, s, ideal'.peak)
    BY <2>12, <2>13, <2>14 DEF Holds
  <2> DEFINE peak == ideal'.peak
  <2>16. /\ o.count = n + 1 /\ Len(s) = n + 1 /\ n + 1 <= peak /\ n + 1 # 0
    BY <2>1, <2>9, <2>11
  <2> HIDE DEF o
  <2>17. Holds(object, ideal.pushed, ideal.peak)'
    BY <1>3, <2>4, <2>11, <2>15 DEF Holds
  <2>18. IsElements(object)'
    BY <2>4, <2>8 DEF IsElements
  <2> QED BY <1>3, <2>4, <2>11, <2>16, <2>17, <2>18 DEF ElementInv
<1> QED BY <1>1, <1>2, <1>3 DEF Push

LEMMA TailFacts ==
  ASSUME NEW V, NEW s \in Seq(V), Len(s) > 0
  PROVE  /\ Tail(s) \in Seq(V)
         /\ Len(Tail(s)) = Len(s) - 1
         /\ \A i \in 1 .. Len(s) - 1 : Tail(s)[i] = s[i + 1]
<1>1. s # <<>>
  BY EmptySeq
<1>2. Tail(s) \in Seq(V) /\ Len(Tail(s)) = Len(s) - 1
  BY <1>1, HeadTailProperties
<1>3. \A i \in 1 .. Len(Tail(s)) : Tail(s)[i] = s[i + 1]
  BY <1>1, HeadTailProperties
<1> QED BY <1>2, <1>3

\* Of the elements s is left, in a block of the same size.
LEMMA FewerElements ==
  ASSUME ElementInv, object.count >= 1,
         NEW memory \in [0 .. object.allocated - 1 -> Content],
         object' = [count |-> object.count - 1, memory |-> memory,
                    allocated |-> object.allocated],
         NEW s \in Seq(Values), Len(s) = object.count - 1, Believed(s),
         UNCHANGED subject,
         subject = "queue" /\ object.count = 2 /\ ideal.peak <= 2 => memory[0] = s[1],
         subject = "stack" => memory = object.memory /\ (object.count >= 2 => s[1] = ideal.pushed[1]),
         answer' = "overrun" => object.count >= 2
  PROVE  ElementInv'
<1> DEFINE n == object.count
           o == [count |-> n - 1, memory |-> memory, allocated |-> object.allocated]
<1>1. /\ n \in Nat /\ n >= 1 /\ object.allocated \in BlockSizes /\ object.allocated \in Nat
      /\ Scale * (n - 1) < object.allocated /\ object.memory # nullptr
      /\ n <= ideal.peak /\ ideal.peak \in Nat
  BY DEF ElementInv, IsElements
<1>2. /\ ideal' \in [pushed : Seq(Values), peak : Nat] /\ ideal'.pushed = s
      /\ s = <<>> => ideal'.peak = 0
      /\ s # <<>> => ideal'.peak >= Len(s) /\ ideal'.peak >= ideal.peak
  BY BelievedFacts
<1>3. s = <<>> <=> n - 1 = 0
  <2>1. s = <<>> => Len(s) = 0
    BY EmptySeq
  <2>2. s # <<>> => Len(s) # 0
    BY EmptySeq
  <2> QED BY <2>1, <2>2
<1>4. memory # nullptr
  BY <1>1, BlockSizeFacts
<1>5. IsElements(o)
  BY <1>1, <1>4 DEF IsElements, Scale
<1>6. Holds(o, s, ideal'.peak)
  <2>1. ASSUME subject = "queue", ideal'.peak <= 2, n - 1 >= 1 PROVE memory[0] = s[1]
    <3>1. ideal.peak <= 2 /\ n = 2
      BY <1>1, <1>2, <1>3, <2>1
    <3> QED BY <2>1, <3>1
  <2>2. ASSUME subject = "queue", ideal'.peak <= 2 PROVE n - 1 # 2
    <3>1. n - 1 = 2 => ideal'.peak >= ideal.peak
      BY <1>2, <1>3
    <3> QED BY <1>1, <1>2, <2>2, <3>1
  <2>3. ASSUME subject = "stack", n - 1 >= 1 PROVE memory[0] = s[1]
    <3>1. n >= 2 /\ n >= 1
      BY <1>1, <2>3
    <3> QED BY <2>3, <3>1 DEF ElementInv, Holds
  <2>4. ASSUME subject = "stack", NEW i \in 1 .. Scale - 1, i < object.allocated
        PROVE  memory[i] = unwritten
    BY <1>1, <2>4 DEF ElementInv, Holds
  <2> QED BY <2>1, <2>2, <2>3, <2>4 DEF Holds
<1>7. /\ o.count = Len(s) /\ o.count <= ideal'.peak /\ (o.count = 0 => ideal'.peak = 0)
      /\ answer' = "overrun" => o.count >= 1
  BY <1>1, <1>2, <1>3
<1>8. object' = o
  OBVIOUS
<1> HIDE DEF o
<1>9. Holds(object, ideal.pushed, ideal.peak)'
  BY <1>2, <1>6, <1>8 DEF Holds
<1>10. IsElements(object)'
  BY <1>5, <1>8 DEF IsElements
<1> QED BY <1>2, <1>7, <1>8, <1>9, <1>10 DEF ElementInv

\* What a call gives back is not taken for the end of the program.
LEMMA ContentIsNoEnd ==
  "overrun" \notin Content /\ "crash" \notin Content
  BY ValuesAssumption DEF Content

LEMMA FilledFacts ==
  ASSUME ElementInv, object.count >= 1
  PROVE  /\ object.memory \in [0 .. object.allocated - 1 -> Content]
         /\ object.allocated \in Nat /\ object.count \in Nat
         /\ object.count - 1 \in 0 .. object.allocated - 1
         /\ 0 \in 0 .. object.allocated - 1
         /\ Scale * (object.count - 1) < object.allocated
  BY DEF ElementInv, IsElements, Scale

LEMMA QueuePopStep == ASSUME ElementInv, queue_pop PROVE ElementInv'
<1> DEFINE n == object.count
           moved == [i \in DOMAIN object.memory |->
             IF i < n - 1 THEN object.memory[Scale + i] ELSE object.memory[i]]
           s == Tail(ideal.pushed)
<1>1. CASE object.count < 1 /\ Returns("refused") /\ UNCHANGED subject
  BY <1>1, UnchangedElements DEF Returns
<1>2. CASE /\ subject = "queue" /\ object.count >= 1
           /\ object' = [object EXCEPT !.count = @ - 1, !.memory = moved]
           /\ answer' = object.memory[0] /\ Believed(s) /\ UNCHANGED subject
  <2> DEFINE c == object.allocated
  <2>1. /\ object.memory \in [0 .. c - 1 -> Content] /\ c \in Nat /\ n \in Nat /\ n >= 1
        /\ 0 \in 0 .. c - 1 /\ Scale * (n - 1) < c
    BY <1>2, FilledFacts
  <2>2. /\ ideal.pushed \in Seq(Values) /\ Len(ideal.pushed) = n
        /\ object = [count |-> n, memory |-> object.memory, allocated |-> c]
    BY ElementThere
  <2>3. moved \in [0 .. c - 1 -> Content]
    <3>1. \A i \in 0 .. c - 1 : i < n - 1 => Scale + i \in 0 .. c - 1
      BY <2>1 DEF Scale
    <3> QED BY <2>1, <3>1
  <2>4. /\ s \in Seq(Values) /\ Len(s) = n - 1
        /\ \A i \in 1 .. n - 1 : s[i] = ideal.pushed[i + 1]
    BY <2>1, <2>2, TailFacts
  <2>5. ASSUME n = 2, ideal.peak <= 2 PROVE moved[0] = s[1]
    <3>1. moved[0] = object.memory[Scale + 0] /\ Scale + 0 = Scale
      BY <2>1, <2>5 DEF Scale
    <3>2. object.memory[Scale] = ideal.pushed[2]
      BY <1>2, <2>5 DEF ElementInv, Holds
    <3>3. s[1] = ideal.pushed[2]
      BY <2>4, <2>5
    <3> QED BY <3>1, <3>2, <3>3
  <2> HIDE DEF moved, s
  <2>6. object' = [count |-> n - 1, memory |-> moved, allocated |-> c]
    <3> DEFINE p == [count |-> n - 1, memory |-> object.memory, allocated |-> c]
    <3>1. [object EXCEPT !.count = @ - 1] = p
      BY <2>2
    <3>2. object' = [[object EXCEPT !.count = @ - 1] EXCEPT !.memory = moved]
      BY <1>2
    <3>3. [p EXCEPT !.memory = moved] = [count |-> n - 1, memory |-> moved, allocated |-> c]
      OBVIOUS
    <3> HIDE DEF p
    <3> QED BY <3>1, <3>2, <3>3
  <2>7. answer' # "overrun"
    BY <1>2, <2>1, ContentIsNoEnd
  <2> QED BY <1>2, <2>3, <2>4, <2>5, <2>6, <2>7, FewerElements
<1> QED BY <1>1, <1>2 DEF queue_pop, Calls

LEMMA StackPopStep == ASSUME ElementInv, stack_pop PROVE ElementInv'
<1> DEFINE n == object.count
           s == Front(ideal.pushed)
<1>1. CASE object.count < 1 /\ Returns("refused") /\ UNCHANGED subject
  BY <1>1, UnchangedElements DEF Returns
<1>2. CASE /\ subject = "stack" /\ object.count >= 1
           /\ object' = [object EXCEPT !.count = @ - 1]
           /\ answer' = Top /\ Believed(s) /\ UNCHANGED subject
  <2> DEFINE c == object.allocated
  <2>1. /\ object.memory \in [0 .. c - 1 -> Content] /\ c \in Nat /\ n \in Nat /\ n >= 1
        /\ n - 1 \in 0 .. c - 1
    BY <1>2, FilledFacts
  <2>2. /\ ideal.pushed \in Seq(Values) /\ Len(ideal.pushed) = n
        /\ object = [count |-> n, memory |-> object.memory, allocated |-> c]
    BY ElementThere
  <2>3. /\ s \in Seq(Values) /\ Len(s) = n - 1
        /\ \A i \in 1 .. n - 1 : s[i] = ideal.pushed[i]
    BY <2>1, <2>2, FrontFacts
  <2> HIDE DEF s
  <2>4. object' = [count |-> n - 1, memory |-> object.memory, allocated |-> c]
    BY <1>2, <2>2
  <2>5. n >= 2 => s[1] = ideal.pushed[1]
    BY <2>1, <2>3
  <2>6. answer' # "overrun"
    BY <1>2, <2>1, ContentIsNoEnd DEF Top
  <2> QED BY <1>2, <2>1, <2>3, <2>4, <2>5, <2>6, FewerElements
<1> QED BY <1>1, <1>2 DEF stack_pop, Calls

LEMMA ElementStep == ASSUME ElementInv, [ElementNext]_vars PROVE ElementInv'
<1>1. CASE QueueNext
  <2>1. CASE queue_peek
    <3>1. object.count < 1 \/ object.count >= 1
      BY ElementThere
    <3> QED BY <2>1, <3>1, UnchangedElements DEF queue_peek, Returns
  <2> QED BY <1>1, <2>1, CreateStep, DestroyStep, ReserveStep, PushElementStep, QueuePopStep
          DEF QueueNext, queue_create, queue_destroy, queue_reserve, queue_push
<1>2. CASE StackNext
  <2>1. CASE stack_peek
    BY <2>1, UnchangedElements DEF stack_peek, Returns
  <2> QED BY <1>2, <2>1, CreateStep, DestroyStep, ReserveStep, PushElementStep, StackPopStep
          DEF StackNext, stack_create, stack_destroy, stack_reserve, stack_push
<1>3. CASE UNCHANGED vars
  BY <1>3, UnchangedElements DEF vars, ElementInv
<1> QED BY <1>1, <1>2, <1>3 DEF ElementNext

LEMMA ElementInitially == ElementInit => ElementInv
<1> SUFFICES ASSUME ElementInit PROVE ElementInv
  OBVIOUS
<1>1. <<>> \in Seq(Values) /\ Len(<<>>) = 0
  BY EmptySeq
<1>2. /\ subject \in {"queue", "stack"} /\ object = no_elements /\ answer = "none"
      /\ ideal = [pushed |-> <<>>, peak |-> 0]
  BY DEF ElementInit, QueueInit, StackInit, InitAs
<1> QED BY <1>1, <1>2 DEF ElementInv, IsElements, Holds, no_elements

LEMMA ElementsInOrder == ElementInv => FewElementsKeepOrder
<1>1. ASSUME ElementInv PROVE FewElementsKeepOrder
  <2>1. ASSUME subject = "queue", ideal.peak \in 1 .. 2
        PROVE  object.memory[0] = Head(ideal.pushed)
    <3>1. object.count >= 1
      BY <1>1, <2>1, ElementThere DEF ElementInv
    <3>2. object.memory[0] = ideal.pushed[1]
      BY <1>1, <2>1, <3>1 DEF ElementInv, Holds
    <3>3. Head(ideal.pushed) = ideal.pushed[1]
      <4>1. ideal.pushed \in Seq(Values) /\ Len(ideal.pushed) >= 1
        BY <1>1, <3>1, ElementThere
      <4> QED BY <4>1
    <3> QED BY <3>2, <3>3
  <2>2. ASSUME subject = "stack", object.count >= 1
        PROVE  /\ object.memory[0] = ideal.pushed[1]
               /\ object.count \in 2 .. Scale => Top = unwritten
    <3>1. object.count \in 2 .. Scale =>
            /\ object.count - 1 \in 1 .. Scale - 1
            /\ object.count - 1 < object.allocated
      BY <1>1, <2>2, FilledFacts DEF Scale
    <3>2. object.memory # nullptr
      BY <1>1, <2>2 DEF ElementInv, IsElements
    <3> QED BY <1>1, <2>2, <3>1, <3>2 DEF ElementInv, Holds, Top
  <2> QED BY <1>1, <2>1, <2>2 DEF FewElementsKeepOrder, QueueKeepsOrder, StackReadsBottom, ElementInv
<1> QED BY <1>1

\* A queue and a stack give back what was put in, in their order, as long as they
\* have held few elements.
THEOREM FewElementsInOrder == ElementSpec => []FewElementsKeepOrder
<1> QED BY ElementsInOrder, ElementInitially, ElementStep, PTL DEF ElementSpec

-----------------------------------------------------------------------------
\* The hash table.

Rest == 0 .. HashWord - 1

\* One round of the hash's loop.
Round(hash, byte) == (hash * multiplier + byte) % HashWord

LEMMA RoundType ==
  ASSUME NEW h \in Rest, NEW b \in 0 .. 255
  PROVE  Round(h, b) \in Rest
<1>1. HashWord \in Nat /\ HashWord > 0 /\ multiplier \in Nat
  BY HashtableAssumption DEF multiplier
<1> DEFINE x == h * multiplier + b
<1>2. x \in Int
  BY <1>1 DEF Rest
<1> HIDE DEF x
<1>3. x % HashWord \in 0 .. HashWord - 1
  BY <1>1, <1>2
<1> QED BY <1>3 DEF x, Rest, Round

\* The hash of a string is one of the values of a u64.
LEMMA FoldType ==
  ASSUME NEW k \in Seq(0 .. 255)
  PROVE  FoldLeft(LAMBDA hash, us : (hash * multiplier + us) % HashWord, 0, k) \in Rest
<1> DEFINE S == DOMAIN k
           Is(f, s) == f[s] = IF s = {} THEN 0 ELSE Round(f[s \ {Max(s)}], k[Max(s)])
           iter == CHOOSE f : f = [s \in SUBSET S |->
                     IF s = {} THEN 0
                     ELSE (f[s \ {Max(s)}] * multiplier + k[Max(s)]) % HashWord]
           step == [s \in SUBSET S |-> [h \in Rest |-> Round(h, k[Max(s)])]]
           pick == [s \in SUBSET S |-> Max(s)]
<1>1. Len(k) \in Nat /\ S = 1 .. Len(k) /\ \A i \in S : k[i] \in 0 .. 255
  <2>1. Len(k) \in Nat /\ DOMAIN k = 1 .. Len(k) /\ k \in [1 .. Len(k) -> 0 .. 255]
    BY LenProperties
  <2> QED BY <2>1
<1>2. IsFiniteSet(S)
  BY <1>1, FS_Interval
<1>3. ASSUME NEW s \in SUBSET S, s # {} PROVE Max(s) \in s
  <2>1. s \subseteq 0 .. Len(k)
    BY <1>1
  <2>2. \E x \in s : \A y \in s : x >= y
    BY <1>1, <1>3, <2>1, LargestNatural
  <2> QED BY <2>2 DEF Max
<1>4. 0 \in Rest
  BY HashtableAssumption DEF Rest
<1> HIDE DEF S
<1>5. \A s \in SUBSET S, h \in Rest : s # {} => Round(h, k[Max(s)]) \in Rest
  BY <1>1, <1>3, RoundType
<1>6. \E f : f \in [SUBSET S -> Rest] /\ Folds(f, S, 0, pick, step)
  <2>1. \A s \in SUBSET S : s # {} => pick[s] \in s
    BY <1>3
  <2>2. \A s \in SUBSET S, v \in Rest : s # {} => step[s][v] \in Rest
    BY <1>5
  <2> HIDE DEF step, pick, S, Is, iter
  <2> QED BY <1>2, <1>4, <2>1, <2>2, SubsetRecursion
<1>7. PICK f : /\ f \in [SUBSET S -> Rest]
              /\ \A s \in SUBSET S : f[s] = IF s = {} THEN 0 ELSE step[s][f[s \ {pick[s]}]]
  BY <1>6 DEF Folds
<1>8. f = [s \in SUBSET S |-> IF s = {} THEN 0
             ELSE (f[s \ {Max(s)}] * multiplier + k[Max(s)]) % HashWord]
  <2>1. ASSUME NEW s \in SUBSET S, s # {}
        PROVE f[s] = (f[s \ {Max(s)}] * multiplier + k[Max(s)]) % HashWord
    <3>1. s \ {Max(s)} \in SUBSET S
      OBVIOUS
    <3>2. f[s \ {Max(s)}] \in Rest
      BY <1>7, <3>1
    <3>3. f[s] = step[s][f[s \ {Max(s)}]]
      BY <1>7, <2>1
    <3>4. f[s] = Round(f[s \ {Max(s)}], k[Max(s)])
      BY <3>2, <3>3
    <3> QED BY <3>4 DEF Round
  <2>2. f[{}] = 0
    BY <1>7
  <2> HIDE DEF step, pick
  <2> QED BY <1>7, <2>1, <2>2
<1>9. iter = [s \in SUBSET S |-> IF s = {} THEN 0
                ELSE (iter[s \ {Max(s)}] * multiplier + k[Max(s)]) % HashWord]
  BY <1>8
<1>10. FoldLeft(LAMBDA hash, us : (hash * multiplier + us) % HashWord, 0, k) = iter[S]
  BY DEF FoldLeft, MapThenFoldSet, S
<1> HIDE DEF iter
<1> DEFINE T == {s \in SUBSET S : iter[s] \in Rest}
<1>11. ASSUME NEW s \in SUBSET S, \A x \in s : s \ {x} \in T PROVE s \in T
  <2>1. CASE s = {}
    BY <1>4, <1>9, <2>1
  <2>2. CASE s # {}
    <3>1. Max(s) \in s
      BY <1>3, <2>2
    <3>2. iter[s \ {Max(s)}] \in Rest /\ k[Max(s)] \in 0 .. 255
      BY <1>1, <1>11, <3>1
    <3>3. iter[s] = Round(iter[s \ {Max(s)}], k[Max(s)])
      BY <1>9, <2>2 DEF Round
    <3>4. Round(iter[s \ {Max(s)}], k[Max(s)]) \in Rest
      BY <3>2, RoundType
    <3> QED BY <3>3, <3>4
  <2> QED BY <2>1, <2>2
<1>12. S \in T
  <2> HIDE DEF T
  <2>1. \A s \in SUBSET S : (\A x \in s : s \ {x} \in T) => s \in T
    BY <1>11
  <2>2. SUBSET S \subseteq T
    BY <1>2, <2>1, AllSubsets, Zenon
  <2> QED BY <2>2
<1> QED BY <1>10, <1>12

LEMMA HashInside ==
  ASSUME NEW k \in Keys, NEW n \in Nat, n > 0
  PROVE  hash_key(k, n) \in 0 .. n - 1
<1> DEFINE h == FoldLeft(LAMBDA hash, us : (hash * multiplier + us) % HashWord, 0, k)
<1>1. h \in Rest
  BY HashtableAssumption, FoldType
<1>2. hash_key(k, n) = h % n
  BY DEF hash_key
<1> HIDE DEF h
<1>3. h \in Int
  BY <1>1 DEF Rest
<1> QED BY <1>2, <1>3

\* A table has slots, and each of them holds a value.
TableOf(n) ==
  /\ object = [is_pointer_type |-> object.is_pointer_type, memory |-> object.memory]
  /\ object.memory \in [0 .. n - 1 -> Values \cup {unwritten}]

TableInv ==
  subject = "hashtable" =>
    /\ \/ object = no_hashtable
       \/ \E n \in Nat \ {0} : TableOf(n)
    /\ ideal \in [Keys -> Values \cup {unwritten}]
    /\ HashtableLosesOnlyCollisions

LEMMA TableSize ==
  ASSUME NEW n \in Nat \ {0}
  PROVE  Cardinality(0 .. n - 1) = n
<1>1. Cardinality(0 .. n - 1) = (n - 1) - 0 + 1
  BY FS_Interval
<1> QED BY <1>1

LEMMA SlotOf ==
  ASSUME NEW n \in Nat \ {0}, TableOf(n)
  PROVE  Slots = 0 .. n - 1 /\ \A k \in Keys : Slot(k) = hash_key(k, n) /\ Slot(k) \in 0 .. n - 1
<1>1. Slots = 0 .. n - 1
  BY DEF Slots, TableOf
<1>3. \A k \in Keys : Slot(k) = hash_key(k, n)
  BY <1>1, TableSize DEF Slot
<1> QED BY <1>1, <1>3, HashInside

LEMMA TableInit == HashtableInit => TableInv
<1> SUFFICES ASSUME HashtableInit PROVE TableInv
  OBVIOUS
<1>1. object = no_hashtable /\ object.memory = nullptr
  BY DEF HashtableInit, no_hashtable
<1>2. ideal \in [Keys -> Values \cup {unwritten}]
  BY DEF HashtableInit
<1> QED BY <1>1, <1>2 DEF TableInv, HashtableLosesOnlyCollisions

\* A table all of whose slots hold what all keys were given holds what each was.
LEMMA TableFilled ==
  ASSUME subject' = "hashtable", NEW n \in Nat \ {0}, NEW v \in Values \cup {unwritten},
         object' = [is_pointer_type |-> object'.is_pointer_type,
                    memory |-> [i \in 0 .. n - 1 |-> v]],
         ideal' = [k \in Keys |-> v]
  PROVE  TableInv'
<1>1. TableOf(n)'
  BY DEF TableOf
<1>2. ASSUME NEW k \in Keys
      PROVE  Slot(k)' \in 0 .. n - 1
  <2>1. Slots' = 0 .. n - 1
    BY <1>1 DEF Slots, TableOf
  <2>2. Slot(k)' = hash_key(k, n)
    BY <2>1, TableSize DEF Slot
  <2> QED BY <2>2, HashInside
<1>3. ASSUME NEW k \in Keys
      PROVE  object'.memory[Slot(k)'] = v /\ ideal'[k] = v
  BY <1>2
<1>4. HashtableLosesOnlyCollisions'
  BY <1>3 DEF HashtableLosesOnlyCollisions
<1>5. ideal' \in [Keys -> Values \cup {unwritten}]
  OBVIOUS
<1> QED BY <1>1, <1>4, <1>5 DEF TableInv

LEMMA TableSets ==
  ASSUME TableInv, CallsTable, UNCHANGED subject,
         NEW key \in Keys, NEW v \in Values \cup {unwritten}, Sets(key, v)
  PROVE  TableInv'
<1>1. subject = "hashtable" /\ subject' = "hashtable" /\ object.memory # nullptr
  BY DEF CallsTable, Calls
<1>2. PICK n \in Nat \ {0} : TableOf(n)
  BY <1>1 DEF TableInv, no_hashtable
<1> DEFINE m == object.memory
           W == Values \cup {unwritten}
           s == Slot(key)
           written == [m EXCEPT ![s] = v]
<1>3. s \in 0 .. n - 1 /\ \A k \in Keys : Slot(k) = hash_key(k, n) /\ Slot(k) \in 0 .. n - 1
  BY <1>2, SlotOf
<1>4. m \in [0 .. n - 1 -> W]
  BY <1>2 DEF TableOf
<1>5. object' = [object EXCEPT !.memory = written]
  BY DEF Sets
<1>6. ideal' = [ideal EXCEPT ![key] = v] /\ ideal \in [Keys -> W]
  BY <1>1 DEF Sets, TableInv
<1> HIDE DEF s
<1>7. written \in [0 .. n - 1 -> W] /\ written[s] = v
      /\ \A i \in 0 .. n - 1 : i # s => written[i] = m[i]
  BY <1>3, <1>4
<1> HIDE DEF m, W, written
<1>8. object'.memory = written /\ object' = [is_pointer_type |-> object'.is_pointer_type, memory |-> written]
  BY <1>2, <1>5 DEF TableOf
<1>9. TableOf(n)'
  BY <1>7, <1>8 DEF TableOf, W
<1>10. \A k \in Keys : Slot(k)' = Slot(k)
  <2>1. Slots' = 0 .. n - 1
    BY <1>9 DEF Slots, TableOf
  <2>2. \A k \in Keys : Slot(k)' = hash_key(k, n)
    BY <2>1, TableSize DEF Slot
  <2> QED BY <1>3, <2>2
<1>11. ideal' \in [Keys -> W] /\ ideal'[key] = v /\ \A k \in Keys : k # key => ideal'[k] = ideal[k]
  BY <1>6 DEF W
<1>12. \A k \in Keys : \E j \in Keys : Slot(j) = Slot(k) /\ m[Slot(k)] = ideal[j]
  BY <1>1 DEF TableInv, HashtableLosesOnlyCollisions, m
<1>13. ASSUME NEW k \in Keys
       PROVE  \E j \in Keys : Slot(j)' = Slot(k)' /\ object'.memory[Slot(k)'] = ideal'[j]
  <2>1. CASE Slot(k) = s
    BY <1>7, <1>8, <1>10, <1>11, <2>1 DEF s
  <2>2. CASE Slot(k) # s
    <3>1. PICK j \in Keys : Slot(j) = Slot(k) /\ m[Slot(k)] = ideal[j]
      BY <1>12
    <3>2. j # key
      BY <2>2, <3>1 DEF s
    <3>3. written[Slot(k)] = m[Slot(k)] /\ ideal'[j] = ideal[j]
      BY <1>3, <1>7, <1>11, <2>2, <3>2
    <3> QED BY <1>8, <1>10, <3>1, <3>3
  <2> QED BY <2>1, <2>2
<1>14. HashtableLosesOnlyCollisions'
  BY <1>13 DEF HashtableLosesOnlyCollisions
<1> QED BY <1>9, <1>11, <1>14 DEF TableInv, W

LEMMA TableStep ==
  ASSUME TableInv, [HashtableNext]_vars
  PROVE  TableInv'
<1>1. ASSUME UNCHANGED <<subject, object, ideal>> PROVE TableInv'
  BY <1>1 DEF TableInv, TableOf, HashtableLosesOnlyCollisions, Slot, Slots
<1>2. ASSUME NEW n \in element_counts, NEW p \in BOOLEAN, hashtable_create(n, p)
      PROVE  TableInv'
  <2>1. CASE Returns("refused")
    BY <1>1, <1>2, <2>1 DEF hashtable_create, Returns
  <2>2. CASE ~ Returns("refused")
    <3>1. /\ n > 0 /\ subject' = "hashtable"
          /\ object' = [is_pointer_type |-> p, memory |-> [i \in 0 .. n - 1 |-> unwritten]]
          /\ ideal' = [k \in Keys |-> unwritten]
      BY <1>2, <2>2 DEF hashtable_create, Calls
    <3>2. n \in Nat \ {0}
      BY <3>1, HashtableAssumption
    <3>3. object'.is_pointer_type = p
      BY <3>1
    <3> QED BY <3>1, <3>2, <3>3, TableFilled
  <2> QED BY <2>1, <2>2
<1>3. CASE hashtable_destroy
  <2>1. object' = no_hashtable /\ object'.memory = nullptr /\ UNCHANGED <<subject, ideal>>
    BY <1>3 DEF hashtable_destroy, no_hashtable
  <2> QED BY <2>1 DEF TableInv, HashtableLosesOnlyCollisions
<1>4. ASSUME NEW k \in Keys, NEW v \in Values, hashtable_set(k, v) PROVE TableInv'
  BY <1>1, <1>4, TableSets DEF hashtable_set, Returns
<1>5. ASSUME NEW k \in Keys, NEW v \in Values \cup {unwritten}, hashtable_set_ptr(k, v)
      PROVE  TableInv'
  BY <1>1, <1>5, TableSets DEF hashtable_set_ptr, Returns
<1>6. ASSUME NEW k \in Keys, hashtable_get(k) PROVE TableInv'
  BY <1>1, <1>6 DEF hashtable_get, Returns
<1>7. ASSUME NEW k \in Keys, hashtable_get_ptr(k) PROVE TableInv'
  BY <1>1, <1>7 DEF hashtable_get_ptr, Returns
<1>8. ASSUME NEW v \in Values, hashtable_fill(v) PROVE TableInv'
  <2>1. CASE Returns("refused")
    BY <1>1, <1>8, <2>1 DEF hashtable_fill, Returns
  <2>2. CASE ~ Returns("refused")
    <3>1. /\ subject = "hashtable" /\ subject' = "hashtable" /\ object.memory # nullptr
          /\ object' = [object EXCEPT !.memory = [i \in Slots |-> v]]
          /\ ideal' = [k \in Keys |-> v]
      BY <1>8, <2>2 DEF hashtable_fill, CallsTable, Calls
    <3>2. PICK n \in Nat \ {0} : TableOf(n)
      BY <3>1 DEF TableInv, no_hashtable
    <3>3. object' = [is_pointer_type |-> object'.is_pointer_type,
                     memory |-> [i \in 0 .. n - 1 |-> v]]
      <4>1. Slots = 0 .. n - 1
        BY <3>2, SlotOf
      <4> QED BY <3>1, <3>2, <4>1 DEF TableOf
    <3> QED BY <3>1, <3>3, TableFilled
  <2> QED BY <2>1, <2>2
<1>9. CASE UNCHANGED vars
  BY <1>1, <1>9 DEF vars
<1> QED BY <1>2, <1>3, <1>4, <1>5, <1>6, <1>7, <1>8, <1>9 DEF HashtableNext

\* What a hash table lost was overwritten through a key of the same slot.
THEOREM OnlyCollisionsAreLost == HashtableSpec => []HashtableLosesOnlyCollisions
<1>1. TableInv => HashtableLosesOnlyCollisions
  BY DEF TableInv, HashtableLosesOnlyCollisions
<1> QED BY <1>1, TableInit, TableStep, PTL DEF HashtableSpec

-----------------------------------------------------------------------------
(***************************************************************************)
(* The binary search tree.  Its places are paths, compared step by step.   *)
(***************************************************************************)
Side == {"left", "right"}
Path == Seq(Side)

\* The first n steps of a path.
Start(p, n) == SubSeq(p, 1, n)

LEMMA LenOf == ASSUME NEW p \in Path PROVE Len(p) \in Nat
BY LenProperties DEF Path

LEMMA StartFacts ==
  ASSUME NEW p \in Path, NEW n \in 0 .. Len(p)
  PROVE  /\ Start(p, n) \in Path /\ Len(Start(p, n)) = n
         /\ \A i \in 1 .. n : Start(p, n)[i] = p[i]
<1>1. Len(p) \in Nat /\ n \in Nat
  BY LenOf
<1>2. \A i \in 1 .. n : p[i] \in Side
  BY <1>1, ElementOfSeq DEF Path
<1> QED BY <1>1, <1>2, SubSeqProperties DEF Path, Start

LEMMA SamePath ==
  ASSUME NEW p \in Path, NEW q \in Path, Len(p) = Len(q),
         \A i \in 1 .. Len(p) : p[i] = q[i]
  PROVE  p = q
BY SeqEqual DEF Path

LEMMA PrefixIs ==
  ASSUME NEW p \in Path, NEW q \in Path
  PROVE  IsPrefix(p, q) <=> Len(p) <= Len(q) /\ \A i \in 1 .. Len(p) : p[i] = q[i]
<1>1. Len(p) \in Nat /\ Len(q) \in Nat
  BY LenOf
<1>2. CASE Len(p) <= Len(q)
  <2>1. /\ Start(p, Len(p)) \in Path /\ Len(Start(p, Len(p))) = Len(p)
        /\ \A i \in 1 .. Len(p) : Start(p, Len(p))[i] = p[i]
    BY <1>1, StartFacts
  <2>2. /\ Start(q, Len(p)) \in Path /\ Len(Start(q, Len(p))) = Len(p)
        /\ \A i \in 1 .. Len(p) : Start(q, Len(p))[i] = q[i]
    BY <1>1, <1>2, StartFacts
  <2>3. ASSUME \A i \in 1 .. Len(p) : p[i] = q[i] PROVE Start(p, Len(p)) = Start(q, Len(p))
    <3>1. \A i \in 1 .. Len(Start(p, Len(p))) : Start(p, Len(p))[i] = Start(q, Len(p))[i]
      BY <2>1, <2>2, <2>3
    <3> QED BY <2>1, <2>2, <3>1, SamePath
  <2> QED BY <1>2, <2>1, <2>2, <2>3 DEF IsPrefix, Start
<1>3. CASE ~ (Len(p) <= Len(q))
  BY <1>3 DEF IsPrefix
<1> QED BY <1>2, <1>3

\* The next step on the way from p to q, when it is not there yet.
Goes(p, q, side) ==
  /\ Len(p) < Len(q)
  /\ \A i \in 1 .. Len(p) : p[i] = q[i]
  /\ q[Len(p) + 1] = side

LEMMA ChildFacts ==
  ASSUME NEW p \in Path
  PROVE  /\ Left(p) \in Path /\ Len(Left(p)) = Len(p) + 1 /\ Goes(p, Left(p), "left")
         /\ Right(p) \in Path /\ Len(Right(p)) = Len(p) + 1 /\ Goes(p, Right(p), "right")
         /\ Start(Left(p), Len(p)) = p /\ Start(Right(p), Len(p)) = p
<1>1. Len(p) \in Nat
  BY LenOf
<1>2. /\ Left(p) \in Path /\ Len(Left(p)) = Len(p) + 1
      /\ \A i \in 1 .. Len(p) + 1 : Left(p)[i] = IF i = Len(p) + 1 THEN "left" ELSE p[i]
  BY AppendFacts DEF Left, Path, Side
<1>3. /\ Right(p) \in Path /\ Len(Right(p)) = Len(p) + 1
      /\ \A i \in 1 .. Len(p) + 1 : Right(p)[i] = IF i = Len(p) + 1 THEN "right" ELSE p[i]
  BY AppendFacts DEF Right, Path, Side
<1>4. Goes(p, Left(p), "left") /\ Goes(p, Right(p), "right")
  BY <1>1, <1>2, <1>3 DEF Goes
<1>5. Start(Left(p), Len(p)) = p /\ Start(Right(p), Len(p)) = p
  <2>1. Len(p) \in 0 .. Len(Left(p)) /\ Len(p) \in 0 .. Len(Right(p))
    BY <1>1, <1>2, <1>3
  <2>2. /\ Start(Left(p), Len(p)) \in Path /\ Len(Start(Left(p), Len(p))) = Len(p)
        /\ \A i \in 1 .. Len(p) : Start(Left(p), Len(p))[i] = Left(p)[i]
    BY <1>2, <2>1, StartFacts
  <2>3. /\ Start(Right(p), Len(p)) \in Path /\ Len(Start(Right(p), Len(p))) = Len(p)
        /\ \A i \in 1 .. Len(p) : Start(Right(p), Len(p))[i] = Right(p)[i]
    BY <1>3, <2>1, StartFacts
  <2>4. Start(Left(p), Len(p)) = p
    <3>1. \A i \in 1 .. Len(p) : Start(Left(p), Len(p))[i] = p[i]
      BY <1>1, <1>2, <2>2
    <3> QED BY <2>2, <3>1, SamePath
  <2>5. Start(Right(p), Len(p)) = p
    <3>1. \A i \in 1 .. Len(p) : Start(Right(p), Len(p))[i] = p[i]
      BY <1>1, <1>3, <2>3
    <3> QED BY <2>3, <3>1, SamePath
  <2> QED BY <2>4, <2>5
<1> QED BY <1>2, <1>3, <1>4, <1>5

LEMMA SubtreeIs ==
  ASSUME NEW p \in Path, NEW q \in Path
  PROVE  /\ InLeft(q, p) <=> Goes(p, q, "left")
         /\ InRight(q, p) <=> Goes(p, q, "right")
<1>1. Len(p) \in Nat /\ Len(q) \in Nat
  BY LenOf
<1>2. /\ Left(p) \in Path /\ Len(Left(p)) = Len(p) + 1
      /\ \A i \in 1 .. Len(p) : Left(p)[i] = p[i]
      /\ Left(p)[Len(p) + 1] = "left"
  BY ChildFacts DEF Goes
<1>3. /\ Right(p) \in Path /\ Len(Right(p)) = Len(p) + 1
      /\ \A i \in 1 .. Len(p) : Right(p)[i] = p[i]
      /\ Right(p)[Len(p) + 1] = "right"
  BY ChildFacts DEF Goes
<1>4. InLeft(q, p) <=> Len(Left(p)) <= Len(q) /\ \A i \in 1 .. Len(Left(p)) : Left(p)[i] = q[i]
  BY <1>2, PrefixIs DEF InLeft
<1>5. InRight(q, p) <=> Len(Right(p)) <= Len(q) /\ \A i \in 1 .. Len(Right(p)) : Right(p)[i] = q[i]
  BY <1>3, PrefixIs DEF InRight
<1>6. InLeft(q, p) <=> Goes(p, q, "left")
  BY <1>1, <1>2, <1>4 DEF Goes
<1>7. InRight(q, p) <=> Goes(p, q, "right")
  BY <1>1, <1>3, <1>5 DEF Goes
<1> QED BY <1>6, <1>7

\* Two paths part at the end of one of them or where they turn to different sides.
PartAt(d, p, q) ==
  /\ d \in Path
  /\ \/ d = p /\ (InLeft(q, d) \/ InRight(q, d))
     \/ d = q /\ (InLeft(p, d) \/ InRight(p, d))
     \/ InLeft(p, d) /\ InRight(q, d)
     \/ InRight(p, d) /\ InLeft(q, d)

LEMMA PathsPart ==
  ASSUME NEW p \in Path, NEW q \in Path, p # q
  PROVE  \E d : PartAt(d, p, q)
<1> DEFINE m == IF Len(p) <= Len(q) THEN Len(p) ELSE Len(q)
           D == {i \in 1 .. m : p[i] # q[i]}
<1>1. Len(p) \in Nat /\ Len(q) \in Nat /\ m \in Nat /\ m <= Len(p) /\ m <= Len(q)
  BY LenOf
<1>2. \A i \in 1 .. Len(p) : p[i] = "left" \/ p[i] = "right"
  BY ElementOfSeq DEF Path, Side
<1>3. \A i \in 1 .. Len(q) : q[i] = "left" \/ q[i] = "right"
  BY ElementOfSeq DEF Path, Side
<1>4. CASE D = {}
  <2>1. \A i \in 1 .. m : p[i] = q[i]
    BY <1>4
  <2>2. CASE Len(p) = Len(q)
    BY <1>1, <2>1, <2>2, SamePath
  <2>3. CASE Len(p) < Len(q)
    <3>1. Goes(p, q, q[Len(p) + 1])
      BY <1>1, <2>1, <2>3 DEF Goes
    <3>2. InLeft(q, p) \/ InRight(q, p)
      BY <1>1, <1>3, <2>3, <3>1, SubtreeIs
    <3> QED BY <3>2 DEF PartAt
  <2>4. CASE Len(q) < Len(p)
    <3>1. Goes(q, p, p[Len(q) + 1])
      BY <1>1, <2>1, <2>4 DEF Goes
    <3>2. InLeft(p, q) \/ InRight(p, q)
      BY <1>1, <1>2, <2>4, <3>1, SubtreeIs
    <3> QED BY <3>2 DEF PartAt
  <2> QED BY <1>1, <2>2, <2>3, <2>4
<1>5. CASE D # {}
  <2>1. D \subseteq Nat
    BY <1>1
  <2>2. PICK k \in D : \A j \in D : k <= j
    BY <1>5, <2>1, LeastNatural
  <2> DEFINE n == k - 1
             d == Start(p, n)
  <2>3. k \in 1 .. m /\ p[k] # q[k] /\ n \in 0 .. Len(p) /\ n < Len(q) /\ n < Len(p) /\ n + 1 = k
    BY <1>1, <2>2
  <2>4. \A i \in 1 .. n : p[i] = q[i]
    <3>1. ASSUME NEW i \in 1 .. n PROVE p[i] = q[i]
      <4>1. i \in 1 .. m /\ ~ (k <= i)
        BY <1>1, <2>3
      <4> QED BY <2>2, <4>1
    <3> QED BY <3>1
  <2>5. d \in Path /\ Len(d) = n /\ \A i \in 1 .. n : d[i] = p[i]
    BY <2>3, StartFacts
  <2> HIDE DEF n, d
  <2>6. Goes(d, p, p[k]) /\ Goes(d, q, q[k])
    BY <2>3, <2>4, <2>5 DEF Goes
  <2>7. k \in 1 .. Len(p) /\ k \in 1 .. Len(q)
    BY <1>1, <2>3
  <2>8. CASE p[k] = "left"
    <3>1. q[k] = "right"
      BY <1>3, <2>3, <2>7, <2>8
    <3> QED BY <2>5, <2>6, <2>8, <3>1, SubtreeIs DEF PartAt
  <2>9. CASE p[k] = "right"
    <3>1. q[k] = "left"
      BY <1>3, <2>3, <2>7, <2>9
    <3> QED BY <2>5, <2>6, <2>9, <3>1, SubtreeIs DEF PartAt
  <2> QED BY <1>2, <2>7, <2>8, <2>9
<1> QED BY <1>4, <1>5

(***************************************************************************)
(* A tree hangs together: every place on the way to a node is a node's,    *)
(* and it has a depth.  It is ordered but for the node at place hole (none *)
(* when hole is no node's).                                                *)
(***************************************************************************)
Depth(t, n) == \A p \in DOMAIN t : Len(p) <= n

Rooted(t) ==
  /\ DOMAIN t \subseteq Path
  /\ \A p \in DOMAIN t, n \in Nat : n <= Len(p) => Start(p, n) \in DOMAIN t
  /\ \E n \in Nat : Depth(t, n)

IsNode(node) == node = [key |-> node.key, value |-> node.value] /\ node.key \in Nat

IsTree(t) == Rooted(t) /\ \A p \in DOMAIN t : IsNode(t[p])

InOrder(t, S) ==
  \A p, q \in S :
    /\ InLeft(q, p) => t[q].key < t[p].key
    /\ InRight(q, p) => t[q].key > t[p].key

Ordered(t) == InOrder(t, DOMAIN t)

LEMMA AncestorIsThere ==
  ASSUME NEW t, Rooted(t), NEW p \in Path, NEW q \in DOMAIN t,
         IsPrefix(p, q) \/ InLeft(q, p) \/ InRight(q, p)
  PROVE  p \in DOMAIN t
<1>1. q \in Path
  BY DEF Rooted
<1>2. Len(p) \in Nat /\ Len(q) \in Nat /\ Len(p) <= Len(q) /\ \A i \in 1 .. Len(p) : p[i] = q[i]
  BY <1>1, LenOf, PrefixIs, SubtreeIs DEF Goes
<1>3. /\ Start(q, Len(p)) \in Path /\ Len(Start(q, Len(p))) = Len(p)
      /\ \A i \in 1 .. Len(p) : Start(q, Len(p))[i] = q[i]
  BY <1>1, <1>2, StartFacts
<1>4. Start(q, Len(p)) = p
  <2>1. \A i \in 1 .. Len(p) : Start(q, Len(p))[i] = p[i]
    BY <1>2, <1>3
  <2> QED BY <1>3, <2>1, SamePath
<1> QED BY <1>2, <1>4 DEF Rooted

LEMMA ChildIsThere ==
  ASSUME NEW t, Rooted(t), NEW p \in Path, NEW q \in DOMAIN t
  PROVE  /\ InLeft(q, p) => Left(p) \in DOMAIN t
         /\ InRight(q, p) => Right(p) \in DOMAIN t
<1>1. Left(p) \in Path /\ Right(p) \in Path
  BY ChildFacts
<1> QED BY <1>1, AncestorIsThere DEF InLeft, InRight

\* A set of places of a tree has a deepest one.
LEMMA Deepest ==
  ASSUME NEW t, Rooted(t), NEW S \in SUBSET DOMAIN t, S # {}
  PROVE  \E p \in S : \A q \in S : Len(q) <= Len(p)
<1>1. PICK n \in Nat : \A p \in DOMAIN t : Len(p) <= n
  BY DEF Rooted, Depth
<1> DEFINE L == {Len(p) : p \in S}
<1>2. L \subseteq 0 .. n /\ L # {}
  <2>1. \A p \in S : Len(p) \in Nat /\ Len(p) <= n
    BY <1>1, LenOf DEF Rooted
  <2>2. \A p \in S : Len(p) \in 0 .. n
    BY <2>1
  <2> QED BY <2>2
<1> HIDE DEF L
<1>3. PICK l \in L : \A k \in L : l >= k
  BY <1>2, LargestNatural
<1>4. PICK p \in S : l = Len(p)
  BY DEF L
<1>5. ASSUME NEW q \in S PROVE Len(q) <= Len(p)
  <2>1. Len(q) \in L
    BY DEF L
  <2> QED BY <1>2, <1>3, <1>4, <2>1
<1> QED BY <1>5

\* No two nodes of an ordered tree have the same key.
LEMMA KeysDiffer ==
  ASSUME NEW t, Rooted(t), NEW S \in SUBSET DOMAIN t, InOrder(t, S), NEW p \in S, NEW q \in S,
         \A d \in DOMAIN t : t[d].key \in Nat, \A d : PartAt(d, p, q) => d \in S,
         t[p].key = t[q].key
  PROVE  p = q
<1> SUFFICES ASSUME p # q PROVE FALSE
  OBVIOUS
<1>1. p \in Path /\ q \in Path
  BY DEF Rooted
<1>2. PICK d : PartAt(d, p, q)
  BY <1>1, PathsPart
<1>3. d \in S /\ t[p].key \in Nat /\ t[q].key \in Nat /\ t[d].key \in Nat
  BY <1>2
<1>4. CASE d = p /\ (InLeft(q, d) \/ InRight(q, d))
  BY <1>3, <1>4 DEF InOrder
<1>5. CASE d = q /\ (InLeft(p, d) \/ InRight(p, d))
  BY <1>3, <1>5 DEF InOrder
<1>6. CASE InLeft(p, d) /\ InRight(q, d)
  BY <1>3, <1>6 DEF InOrder
<1>7. CASE InRight(p, d) /\ InLeft(q, d)
  BY <1>3, <1>7 DEF InOrder
<1> QED BY <1>2, <1>4, <1>5, <1>6, <1>7 DEF PartAt

\* The place where two nodes' paths part is a node's.
LEMMA PartIsThere ==
  ASSUME NEW t, Rooted(t), NEW p \in DOMAIN t, NEW q \in DOMAIN t, NEW d, PartAt(d, p, q)
  PROVE  d \in DOMAIN t
BY AncestorIsThere DEF PartAt

LEMMA KeyIsUnique ==
  ASSUME NEW t, IsTree(t), Ordered(t), NEW p \in DOMAIN t, NEW q \in DOMAIN t,
         t[p].key = t[q].key
  PROVE  p = q
<1>1. Rooted(t) /\ \A d \in DOMAIN t : t[d].key \in Nat
  BY DEF IsTree, IsNode
<1>2. \A d : PartAt(d, p, q) => d \in DOMAIN t
  BY <1>1, PartIsThere
<1> QED BY <1>1, <1>2, KeysDiffer DEF Ordered

-----------------------------------------------------------------------------
\* The search for a key ends at a place.
LEMMA SearchEnds ==
  ASSUME NEW t, IsTree(t), NEW key \in Nat
  PROVE  /\ Search(t, key) \in Places(t) /\ Visits(t, key, Search(t, key))
         /\ Search(t, key) \in DOMAIN t => t[Search(t, key)].key = key
<1> DEFINE S == {p \in DOMAIN t : Visits(t, key, p)}
           Stops(p) == Visits(t, key, p) /\ (p \in DOMAIN t => t[p].key = key)
<1>0. Rooted(t) /\ \A d \in DOMAIN t : t[d].key \in Nat
  BY DEF IsTree, IsNode
<1>1. <<>> \in Path /\ Len(<<>>) = 0 /\ Visits(t, key, <<>>)
  BY EmptySeq DEF Path, Visits
<1>2. \E p \in Places(t) : Stops(p)
  <2>1. CASE S = {}
    <3>1. <<>> \in Places(t)
      BY DEF Places
    <3> QED BY <1>1, <2>1, <3>1
  <2>2. CASE S # {}
    <3>1. PICK p \in S : \A q \in S : Len(q) <= Len(p)
      <4> HIDE DEF S
      <4>1. S \in SUBSET DOMAIN t
        BY DEF S
      <4> QED BY <1>0, <2>2, <4>1, Deepest
    <3>2. p \in DOMAIN t /\ p \in Path /\ Visits(t, key, p) /\ t[p].key \in Nat /\ Len(p) \in Nat
      BY <1>0, LenOf DEF Rooted
    <3>3. CASE t[p].key = key
      <4>1. p \in Places(t)
        <5>1. CASE Len(p) = 0
          <6>1. p = <<>>
            BY <1>1, <3>2, <5>1, SamePath
          <6> QED BY <6>1 DEF Places
        <5>2. CASE Len(p) > 0
          <6> DEFINE n == Len(p) - 1
                     d == Start(p, n)
          <6>1. n \in Nat /\ n <= Len(p) /\ n \in 0 .. Len(p) /\ Len(p) = n + 1
            BY <3>2, <5>2
          <6>2. d \in DOMAIN t /\ d \in Path /\ Len(d) = n /\ \A i \in 1 .. n : d[i] = p[i]
            BY <1>0, <3>2, <6>1, StartFacts DEF Rooted
          <6>3. p[n + 1] = "left" \/ p[n + 1] = "right"
            BY <3>2, <6>1, ElementOfSeq DEF Path, Side
          <6> HIDE DEF n, d
          <6>4. CASE p[n + 1] = "left"
            <7>1. Left(d) \in Path /\ Len(Left(d)) = Len(p) /\ \A i \in 1 .. Len(p) : Left(d)[i] = p[i]
              BY <6>1, <6>2, <6>4, ChildFacts DEF Goes
            <7>2. Left(d) = p
              BY <3>2, <7>1, SamePath
            <7> QED BY <6>2, <7>2 DEF Places
          <6>5. CASE p[n + 1] = "right"
            <7>1. Right(d) \in Path /\ Len(Right(d)) = Len(p) /\ \A i \in 1 .. Len(p) : Right(d)[i] = p[i]
              BY <6>1, <6>2, <6>5, ChildFacts DEF Goes
            <7>2. Right(d) = p
              BY <3>2, <7>1, SamePath
            <7> QED BY <6>2, <7>2 DEF Places
          <6> QED BY <6>3, <6>4, <6>5
        <5> QED BY <3>2, <5>1, <5>2
      <4> QED BY <3>2, <3>3, <4>1
    <3>4. CASE t[p].key # key
      <4> DEFINE c == IF t[p].key < key THEN Right(p) ELSE Left(p)
                 side == IF t[p].key < key THEN "right" ELSE "left"
      <4>1. c \in Path /\ Len(c) = Len(p) + 1 /\ Goes(p, c, side) /\ Start(c, Len(p)) = p
        BY <3>2, ChildFacts
      <4>2. c \in Places(t)
        BY <3>2 DEF Places
      <4>3. Visits(t, key, c)
        <5> SUFFICES ASSUME NEW i \in 1 .. Len(c)
                     PROVE  /\ t[Start(c, i - 1)].key # key
                            /\ c[i] = IF t[Start(c, i - 1)].key < key THEN "right" ELSE "left"
          BY DEF Visits, Start
        <5>1. CASE i = Len(p) + 1
          <6>1. i - 1 = Len(p)
            BY <3>2, <5>1
          <6> QED BY <3>4, <4>1, <5>1, <6>1 DEF Goes
        <5>2. CASE i # Len(p) + 1
          <6> HIDE DEF c
          <6>1. i \in 1 .. Len(p) /\ i - 1 \in 0 .. Len(p) /\ i - 1 \in 0 .. Len(c)
            BY <3>2, <4>1, <5>2
          <6>2. Start(c, i - 1) = Start(p, i - 1)
            <7> DEFINE k == i - 1
            <7>0. k \in 0 .. Len(p) /\ k \in 0 .. Len(c) /\ k \in Nat
              BY <6>1, <3>2
            <7> HIDE DEF k
            <7>1. Start(c, k) \in Path /\ Len(Start(c, k)) = k /\ \A j \in 1 .. k : Start(c, k)[j] = c[j]
              BY <4>1, <7>0, StartFacts
            <7>2. Start(p, k) \in Path /\ Len(Start(p, k)) = k /\ \A j \in 1 .. k : Start(p, k)[j] = p[j]
              BY <3>2, <7>0, StartFacts
            <7>3. \A j \in 1 .. k : Start(c, k)[j] = Start(p, k)[j]
              BY <3>2, <4>1, <7>0, <7>1, <7>2 DEF Goes
            <7>4. Start(c, k) = Start(p, k)
              BY <7>1, <7>2, <7>3, SamePath
            <7> QED BY <7>4 DEF k
          <6>3. c[i] = p[i]
            BY <4>1, <6>1 DEF Goes
          <6> QED BY <3>2, <6>1, <6>2, <6>3 DEF Visits, Start
        <5> QED BY <5>1, <5>2
      <4>4. c \notin DOMAIN t
        <5> HIDE DEF c
        <5> SUFFICES ASSUME c \in DOMAIN t PROVE FALSE
          OBVIOUS
        <5>1. c \in S
          BY <4>3
        <5> QED BY <3>1, <3>2, <4>1, <5>1
      <4> QED BY <4>2, <4>3, <4>4
    <3> QED BY <3>3, <3>4
  <2> QED BY <2>1, <2>2
<1>3. Search(t, key) = CHOOSE p \in Places(t) : Stops(p)
  BY DEF Search
<1>4. Search(t, key) \in Places(t) /\ Stops(Search(t, key))
  <2> HIDE DEF Stops
  <2> QED BY <1>2, <1>3
<1> QED BY <1>4

LEMMA PlacesArePaths == ASSUME NEW t, Rooted(t) PROVE Places(t) \subseteq Path
<1>1. <<>> \in Path
  BY EmptySeq DEF Path
<1>2. \A p \in DOMAIN t : Left(p) \in Path /\ Right(p) \in Path
  BY ChildFacts DEF Rooted
<1> QED BY <1>1, <1>2 DEF Places

\* Below a node that a search passed it went to the side of its key.
LEMMA VisitTurns ==
  ASSUME NEW t, NEW key \in Nat, NEW e \in Path, Visits(t, key, e),
         NEW d \in Path, t[d].key \in Nat
  PROVE  /\ InLeft(e, d) => key < t[d].key
         /\ InRight(e, d) => key > t[d].key
<1>1. Len(e) \in Nat /\ Len(d) \in Nat
  BY LenOf
<1>2. ASSUME NEW side, Goes(d, e, side)
      PROVE  t[d].key # key /\ side = IF t[d].key < key THEN "right" ELSE "left"
  <2> DEFINE i == Len(d) + 1
  <2>1. Len(d) < Len(e) /\ e[Len(d) + 1] = side /\ \A j \in 1 .. Len(d) : d[j] = e[j]
    BY <1>2 DEF Goes
  <2>2. i \in 1 .. Len(e) /\ i - 1 = Len(d) /\ Len(d) \in 0 .. Len(e)
    BY <1>1, <2>1
  <2>3. /\ Start(e, Len(d)) \in Path /\ Len(Start(e, Len(d))) = Len(d)
        /\ \A j \in 1 .. Len(d) : Start(e, Len(d))[j] = e[j]
    BY <2>2, StartFacts
  <2>4. Start(e, Len(d)) = d
    <3>1. \A j \in 1 .. Len(d) : Start(e, Len(d))[j] = d[j]
      BY <2>1, <2>3
    <3> QED BY <2>3, <3>1, SamePath
  <2>5. SubSeq(e, 1, i - 1) = d
    BY <2>2, <2>4 DEF Start
  <2> QED BY <2>1, <2>2, <2>5 DEF Visits
<1>3. ASSUME InLeft(e, d) PROVE key < t[d].key
  <2>1. Goes(d, e, "left")
    BY <1>3, SubtreeIs
  <2> QED BY <1>2, <2>1
<1>4. ASSUME InRight(e, d) PROVE key > t[d].key
  <2>1. Goes(d, e, "right")
    BY <1>4, SubtreeIs
  <2> QED BY <1>2, <2>1
<1> QED BY <1>3, <1>4

\* The search for the key of a node finds the node.
LEMMA SearchFinds ==
  ASSUME NEW t, IsTree(t), Ordered(t), NEW q \in DOMAIN t
  PROVE  Search(t, t[q].key) = q
<1> DEFINE key == t[q].key
           e == Search(t, key)
<1>1. Rooted(t) /\ (\A d \in DOMAIN t : t[d].key \in Nat) /\ key \in Nat
  BY DEF IsTree, IsNode
<1>2. e \in Places(t) /\ Visits(t, key, e) /\ (e \in DOMAIN t => t[e].key = key)
  BY <1>1, SearchEnds
<1>3. e \in Path /\ q \in Path
  BY <1>1, <1>2, PlacesArePaths DEF Rooted
<1> SUFFICES ASSUME e # q PROVE FALSE
  OBVIOUS
<1> HIDE DEF e
<1>4. e \notin DOMAIN t
  BY <1>2, KeyIsUnique
<1>5. PICK d : PartAt(d, e, q)
  BY <1>3, PathsPart
<1>6. d \in Path
  BY <1>5 DEF PartAt
<1>7. CASE d = e /\ (InLeft(q, d) \/ InRight(q, d))
  BY <1>1, <1>3, <1>4, <1>7, AncestorIsThere
<1>8. CASE d = q /\ (InLeft(e, d) \/ InRight(e, d))
  BY <1>1, <1>2, <1>3, <1>8, VisitTurns
<1>9. CASE InLeft(e, d) /\ InRight(q, d)
  <2>1. d \in DOMAIN t
    BY <1>1, <1>6, <1>9, AncestorIsThere
  <2>2. key < t[d].key /\ t[d].key \in Nat
    BY <1>1, <1>2, <1>3, <1>6, <1>9, <2>1, VisitTurns
  <2>3. key > t[d].key
    BY <1>9, <2>1 DEF Ordered, InOrder
  <2> QED BY <1>1, <2>2, <2>3
<1>10. CASE InRight(e, d) /\ InLeft(q, d)
  <2>1. d \in DOMAIN t
    BY <1>1, <1>6, <1>10, AncestorIsThere
  <2>2. key > t[d].key /\ t[d].key \in Nat
    BY <1>1, <1>2, <1>3, <1>6, <1>10, <2>1, VisitTurns
  <2>3. key < t[d].key
    BY <1>10, <2>1 DEF Ordered, InOrder
  <2> QED BY <1>1, <2>2, <2>3
<1> QED BY <1>5, <1>7, <1>8, <1>9, <1>10 DEF PartAt

LEMMA NotFound ==
  ASSUME NEW t, IsTree(t), NEW key \in Nat, \A p \in DOMAIN t : t[p].key # key
  PROVE  Search(t, key) \notin DOMAIN t
BY SearchEnds

\* u is t with a node for key where its search ends.
IsPlanted(u, t, key, value) ==
  /\ IsTree(u) /\ Ordered(u)
  /\ DOMAIN u = DOMAIN t \cup {Search(t, key)}
  /\ \A q \in DOMAIN t : u[q] = t[q]
  /\ u[Search(t, key)].key = key
  /\ Search(t, key) \notin DOMAIN t => u[Search(t, key)] = node_create(key, value)

\* A tree with the key added, when it was not there, is an ordered tree.
LEMMA Planted ==
  ASSUME NEW t, IsTree(t), Ordered(t), NEW key \in Nat, NEW value,
         NEW u, u = u64_bst_insert(t, key, value)
  PROVE  IsPlanted(u, t, key, value)
<1> DEFINE e == Search(t, key)
<1>1. Rooted(t) /\ (\A d \in DOMAIN t : IsNode(t[d]) /\ t[d].key \in Nat)
  BY DEF IsTree, IsNode
<1>2. e \in Places(t) /\ Visits(t, key, e) /\ (e \in DOMAIN t => t[e].key = key)
  BY SearchEnds
<1>3. e \in Path /\ Len(e) \in Nat
  BY <1>1, <1>2, PlacesArePaths, LenOf
<1>4. u = [q \in DOMAIN t \cup {e} |-> IF q \in DOMAIN t THEN t[q] ELSE node_create(key, value)]
  BY DEF u64_bst_insert
<1> HIDE DEF e
<1>5. /\ DOMAIN u = DOMAIN t \cup {e} /\ \A q \in DOMAIN t : u[q] = t[q]
      /\ e \notin DOMAIN t => u[e] = node_create(key, value)
  BY <1>4
<1>6. u[e].key = key /\ IsNode(u[e])
  BY <1>1, <1>2, <1>5 DEF node_create, IsNode
<1>7. \A q \in DOMAIN u : IsNode(u[q]) /\ u[q].key \in Nat
  BY <1>1, <1>5, <1>6 DEF IsNode
<1>8. Rooted(u)
  <2>1. DOMAIN u \subseteq Path
    BY <1>1, <1>3, <1>5 DEF Rooted
  <2>2. ASSUME NEW n \in Nat, n <= Len(e) PROVE Start(e, n) \in DOMAIN u
    <3>1. CASE n = Len(e)
      <4>1. Start(e, n) = e
        <5>1. n \in 0 .. Len(e)
          BY <1>3, <3>1
        <5>2. Start(e, n) \in Path /\ Len(Start(e, n)) = n /\ \A i \in 1 .. n : Start(e, n)[i] = e[i]
          BY <1>3, <5>1, StartFacts
        <5> QED BY <1>3, <3>1, <5>2, SamePath
      <4> QED BY <1>5, <4>1
    <3>2. CASE n < Len(e)
      <4>1. e # <<>>
        BY <3>2, EmptySeq
      <4>2. PICK p \in DOMAIN t : e = Left(p) \/ e = Right(p)
        BY <1>2, <4>1 DEF Places
      <4>3. p \in Path /\ Len(p) \in Nat
        BY <1>1, LenOf DEF Rooted
      <4>4. Len(e) = Len(p) + 1 /\ \A i \in 1 .. Len(p) : e[i] = p[i]
        BY <4>2, <4>3, ChildFacts DEF Goes
      <4>5. n <= Len(p) /\ n \in 0 .. Len(p) /\ n \in 0 .. Len(e)
        BY <3>2, <4>3, <4>4
      <4>6. Start(e, n) \in Path /\ Len(Start(e, n)) = n /\ \A i \in 1 .. n : Start(e, n)[i] = e[i]
        BY <1>3, <4>5, StartFacts
      <4>7. Start(p, n) \in Path /\ Len(Start(p, n)) = n /\ \A i \in 1 .. n : Start(p, n)[i] = p[i]
        BY <4>3, <4>5, StartFacts
      <4>8. Start(e, n) = Start(p, n)
        <5>1. \A i \in 1 .. n : Start(e, n)[i] = Start(p, n)[i]
          BY <4>3, <4>4, <4>5, <4>6, <4>7
        <5> QED BY <4>6, <4>7, <5>1, SamePath
      <4>9. Start(p, n) \in DOMAIN t
        BY <1>1, <4>5 DEF Rooted
      <4> QED BY <1>5, <4>8, <4>9
    <3> QED BY <1>3, <2>2, <3>1, <3>2
  <2>3. \A p \in DOMAIN u, n \in Nat : n <= Len(p) => Start(p, n) \in DOMAIN u
    BY <1>1, <1>5, <2>2 DEF Rooted
  <2>4. \E n \in Nat : Depth(u, n)
    <3>1. PICK n \in Nat : Depth(t, n)
      BY <1>1 DEF Rooted
    <3>2. \A p \in DOMAIN t : Len(p) \in Nat /\ Len(p) <= n
      BY <1>1, <3>1, LenOf DEF Rooted, Depth
    <3>3. Depth(u, n + Len(e)) /\ n + Len(e) \in Nat
      BY <1>3, <1>5, <3>2 DEF Depth
    <3> QED BY <3>3
  <2> QED BY <2>1, <2>3, <2>4 DEF Rooted
<1>9. ASSUME NEW p \in DOMAIN u, NEW q \in DOMAIN u
      PROVE  /\ InLeft(q, p) => u[q].key < u[p].key
             /\ InRight(q, p) => u[q].key > u[p].key
  <2>1. CASE p \in DOMAIN t /\ q \in DOMAIN t
    BY <1>5, <2>1 DEF Ordered, InOrder
  <2>2. CASE p \in DOMAIN t /\ q = e
    BY <1>1, <1>2, <1>3, <1>5, <1>6, <2>2, VisitTurns DEF Rooted
  <2>3. CASE p = e /\ q \in DOMAIN t /\ e \notin DOMAIN t
    BY <1>1, <1>3, <2>3, AncestorIsThere
  <2>4. CASE p = e /\ q = e
    <3>1. ~ InLeft(e, e) /\ ~ InRight(e, e)
      BY <1>3, SubtreeIs DEF Goes
    <3> QED BY <2>4, <3>1
  <2> QED BY <1>5, <2>1, <2>2, <2>3, <2>4
<1>10. Ordered(u)
  BY <1>9 DEF Ordered, InOrder
<1> QED BY <1>5, <1>6, <1>7, <1>8, <1>10 DEF IsPlanted, IsTree, e

-----------------------------------------------------------------------------
\* Where left children lead to from a node: to the smallest of its subtree.
LEMMA SmallestFacts ==
  ASSUME NEW t, IsTree(t), Ordered(t), NEW p \in DOMAIN t,
         NEW m, m = find_min(t, p)
  PROVE  /\ m \in DOMAIN t /\ IsPrefix(p, m)
         /\ \A r \in DOMAIN t : IsPrefix(p, r) => t[m].key <= t[r].key
<1> DEFINE OnLeft(q) == IsPrefix(p, q) /\ \A i \in Len(p) + 1 .. Len(q) : q[i] = "left"
           S == {q \in DOMAIN t : OnLeft(q)}
<1>1. Rooted(t) /\ (\A d \in DOMAIN t : t[d].key \in Nat /\ d \in Path /\ Len(d) \in Nat)
  BY LenOf DEF IsTree, IsNode, Rooted
<1>2. p \in S
  <2>1. IsPrefix(p, p) /\ \A i \in Len(p) + 1 .. Len(p) : p[i] = "left"
    BY <1>1, PrefixIs
  <2> QED BY <2>1
<1>3. PICK q \in S : \A r \in S : Len(r) <= Len(q)
  <2> HIDE DEF S
  <2>1. S \in SUBSET DOMAIN t /\ S # {}
    BY <1>2 DEF S
  <2> QED BY <1>1, <2>1, Deepest
<1>4. Left(q) \notin DOMAIN t
  <2> SUFFICES ASSUME Left(q) \in DOMAIN t PROVE FALSE
    OBVIOUS
  <2>1. q \in DOMAIN t /\ q \in Path /\ Len(q) \in Nat /\ Len(p) \in Nat /\ p \in Path
    BY <1>1
  <2>2. Len(Left(q)) = Len(q) + 1 /\ Left(q) \in Path /\ Goes(q, Left(q), "left")
    BY <2>1, ChildFacts
  <2>3. Len(p) <= Len(q) /\ \A i \in 1 .. Len(p) : p[i] = q[i]
    BY <2>1, PrefixIs
  <2>4. IsPrefix(p, Left(q))
    <3>1. Len(p) <= Len(Left(q)) /\ \A i \in 1 .. Len(p) : p[i] = Left(q)[i]
      BY <2>1, <2>2, <2>3 DEF Goes
    <3> QED BY <2>1, <2>2, <3>1, PrefixIs
  <2>5. \A i \in Len(p) + 1 .. Len(Left(q)) : Left(q)[i] = "left"
    <3> SUFFICES ASSUME NEW i \in Len(p) + 1 .. Len(Left(q)) PROVE Left(q)[i] = "left"
      OBVIOUS
    <3>1. CASE i = Len(q) + 1
      BY <2>2, <3>1 DEF Goes
    <3>2. CASE i # Len(q) + 1
      <4>1. i \in Len(p) + 1 .. Len(q) /\ i \in 1 .. Len(q)
        BY <2>1, <2>2, <3>2
      <4> QED BY <2>2, <4>1 DEF Goes
    <3> QED BY <3>1, <3>2
  <2>6. Left(q) \in S
    BY <2>4, <2>5
  <2> QED BY <1>3, <2>1, <2>2, <2>6
<1>5. /\ m \in DOMAIN t /\ IsPrefix(p, m)
      /\ \A i \in Len(p) + 1 .. Len(m) : m[i] = "left"
      /\ Left(m) \notin DOMAIN t
  <2>1. m = CHOOSE r \in DOMAIN t : OnLeft(r) /\ Left(r) \notin DOMAIN t
    BY DEF find_min
  <2>2. q \in DOMAIN t /\ OnLeft(q) /\ Left(q) \notin DOMAIN t
    BY <1>4
  <2>3. m \in DOMAIN t /\ OnLeft(m) /\ Left(m) \notin DOMAIN t
    <3> HIDE DEF OnLeft
    <3> QED BY <2>1, <2>2
  <2> QED BY <2>3
<1>6. /\ m \in Path /\ p \in Path /\ Len(m) \in Nat /\ Len(p) \in Nat
      /\ Len(p) <= Len(m) /\ \A i \in 1 .. Len(p) : p[i] = m[i]
  BY <1>1, <1>5, PrefixIs
<1>7. ASSUME NEW d \in Path, NEW r \in Path, IsPrefix(p, r), InRight(m, d)
      PROVE  ~ InLeft(r, d) /\ d # r
  <2>1. Goes(d, m, "right") /\ Len(d) \in Nat /\ Len(r) \in Nat
    BY <1>6, <1>7, SubtreeIs, LenOf
  <2>2. Len(p) <= Len(r) /\ \A i \in 1 .. Len(p) : p[i] = r[i]
    BY <1>6, <1>7, PrefixIs
  <2>3. Len(d) + 1 <= Len(p)
    <3> SUFFICES ASSUME ~ (Len(d) + 1 <= Len(p)) PROVE FALSE
      OBVIOUS
    <3>1. Len(d) + 1 \in Len(p) + 1 .. Len(m)
      BY <1>6, <2>1 DEF Goes
    <3> QED BY <1>5, <2>1, <3>1 DEF Goes
  <2>4. r[Len(d) + 1] = "right"
    BY <1>6, <2>1, <2>2, <2>3 DEF Goes
  <2>5. ~ Goes(d, r, "left")
    BY <2>4 DEF Goes
  <2> QED BY <1>7, <2>1, <2>2, <2>3, <2>5, SubtreeIs
<1>8. ASSUME NEW r \in DOMAIN t, IsPrefix(p, r), r # m PROVE t[m].key <= t[r].key
  <2>1. PICK d : PartAt(d, m, r)
    BY <1>1, <1>6, <1>8, PathsPart
  <2>2. d \in Path /\ d \in DOMAIN t /\ r \in Path
    BY <1>1, <1>5, <2>1, PartIsThere
  <2>3. t[d].key \in Nat /\ t[m].key \in Nat /\ t[r].key \in Nat
    BY <1>1, <1>5, <2>2
  <2>4. CASE d = m /\ (InLeft(r, d) \/ InRight(r, d))
    <3>1. ~ InLeft(r, m)
      BY <1>1, <1>5, <1>6, ChildIsThere
    <3>2. t[r].key > t[m].key
      BY <1>5, <2>4, <3>1 DEF Ordered, InOrder
    <3> QED BY <2>3, <3>2
  <2>5. CASE d = r /\ (InLeft(m, d) \/ InRight(m, d))
    <3>1. InLeft(m, r)
      BY <1>7, <1>8, <2>2, <2>5
    <3>2. t[m].key < t[r].key
      BY <1>5, <3>1 DEF Ordered, InOrder
    <3> QED BY <2>3, <3>2
  <2>6. CASE InLeft(m, d) /\ InRight(r, d)
    <3>1. t[m].key < t[d].key /\ t[r].key > t[d].key
      BY <1>5, <2>2, <2>6 DEF Ordered, InOrder
    <3> QED BY <2>3, <3>1
  <2>7. CASE InRight(m, d) /\ InLeft(r, d)
    BY <1>7, <1>8, <2>2, <2>7
  <2> QED BY <2>1, <2>4, <2>5, <2>6, <2>7 DEF PartAt
<1>9. ASSUME NEW r \in DOMAIN t, IsPrefix(p, r) PROVE t[m].key <= t[r].key
  BY <1>1, <1>5, <1>8, <1>9
<1> QED BY <1>5, <1>9

\* What lies below a node lies on the side of every ancestor where the node does.
LEMMA BelowIsBelow ==
  ASSUME NEW d \in Path, NEW p \in Path, NEW q \in Path, InRight(q, p)
  PROVE  /\ InLeft(p, d) => InLeft(q, d)
         /\ InRight(p, d) => InRight(q, d)
<1>1. Len(d) \in Nat /\ Len(p) \in Nat /\ Len(q) \in Nat
  BY LenOf
<1>2. Goes(p, q, "right")
  BY SubtreeIs
<1>3. ASSUME NEW side, Goes(d, p, side) PROVE Goes(d, q, side)
  BY <1>1, <1>2, <1>3 DEF Goes
<1> QED BY <1>3, SubtreeIs

\* The smallest node to the right of a node has the next larger key of the tree.
LEMMA ReplacementIsNext ==
  ASSUME NEW t, IsTree(t), Ordered(t), NEW p \in DOMAIN t, Right(p) \in DOMAIN t,
         NEW m, m = Replacement(t, p)
  PROVE  /\ m \in DOMAIN t /\ Len(m) > Len(p) /\ t[m].key > t[p].key
         /\ \A r \in DOMAIN t : t[r].key > t[p].key => t[r].key >= t[m].key
<1>1. Rooted(t) /\ (\A d \in DOMAIN t : t[d].key \in Nat /\ d \in Path /\ Len(d) \in Nat)
  BY LenOf DEF IsTree, IsNode, Rooted
<1>2. /\ m \in DOMAIN t /\ InRight(m, p)
      /\ \A r \in DOMAIN t : InRight(r, p) => t[m].key <= t[r].key
  BY SmallestFacts DEF Replacement, InRight
<1>3. Len(m) > Len(p) /\ t[m].key > t[p].key
  BY <1>1, <1>2, SubtreeIs DEF Goes, Ordered, InOrder
<1>4. ASSUME NEW r \in DOMAIN t, t[r].key > t[p].key PROVE t[r].key >= t[m].key
  <2>1. r # p /\ r \in Path /\ p \in Path /\ m \in Path
    BY <1>1, <1>2, <1>4
  <2>2. PICK d : PartAt(d, p, r)
    BY <2>1, PathsPart
  <2>3. d \in Path /\ d \in DOMAIN t
    BY <1>1, <2>2, PartIsThere
  <2>4. t[d].key \in Nat /\ t[m].key \in Nat /\ t[r].key \in Nat /\ t[p].key \in Nat
    BY <1>1, <1>2, <2>3
  <2>5. CASE d = p /\ (InLeft(r, d) \/ InRight(r, d))
    <3>1. CASE InLeft(r, p)
      BY <1>4, <2>4, <3>1 DEF Ordered, InOrder
    <3>2. CASE InRight(r, p)
      BY <1>2, <2>4, <3>2
    <3> QED BY <2>5, <3>1, <3>2
  <2>6. CASE d = r /\ (InLeft(p, d) \/ InRight(p, d))
    <3>1. CASE InLeft(p, r)
      <4>1. InLeft(m, r)
        BY <1>2, <2>1, <3>1, BelowIsBelow
      <4> QED BY <1>2, <2>4, <4>1 DEF Ordered, InOrder
    <3>2. CASE InRight(p, r)
      BY <1>4, <2>4, <3>2 DEF Ordered, InOrder
    <3> QED BY <2>6, <3>1, <3>2
  <2>7. CASE InLeft(p, d) /\ InRight(r, d)
    <3>1. InLeft(m, d)
      BY <1>2, <2>1, <2>3, <2>7, BelowIsBelow
    <3>2. t[m].key < t[d].key /\ t[r].key > t[d].key
      BY <1>2, <2>3, <2>7, <3>1 DEF Ordered, InOrder
    <3> QED BY <2>4, <3>2
  <2>8. CASE InRight(p, d) /\ InLeft(r, d)
    <3>1. t[p].key > t[d].key /\ t[r].key < t[d].key
      BY <2>3, <2>8 DEF Ordered, InOrder
    <3> QED BY <1>4, <2>4, <3>1
  <2> QED BY <2>2, <2>5, <2>6, <2>7, <2>8 DEF PartAt
<1> QED BY <1>2, <1>3, <1>4

\* A set with the node at p and with each node's replacement has all that are deleted.
LEMMA DeletedIn ==
  ASSUME NEW t, NEW p, NEW D \in SUBSET DOMAIN t, p \in D,
         \A d \in D : Right(d) \in DOMAIN t => Replacement(t, d) \in D
  PROVE  Deleted(t, p) \subseteq D
BY DEF Deleted

LEMMA DeletedFacts ==
  ASSUME NEW t, IsTree(t), Ordered(t), NEW p \in DOMAIN t
  PROVE  /\ Deleted(t, p) \subseteq DOMAIN t /\ p \in Deleted(t, p)
         /\ \A d \in Deleted(t, p) :
              /\ Right(d) \in DOMAIN t => Replacement(t, d) \in Deleted(t, p)
              /\ t[d].key >= t[p].key
              /\ d # p => \E c \in Deleted(t, p) :
                             Right(c) \in DOMAIN t /\ Replacement(t, c) = d
<1> DEFINE D == Deleted(t, p)
<1>1. Rooted(t) /\ (\A d \in DOMAIN t : t[d].key \in Nat)
  BY DEF IsTree, IsNode
<1>2. \A d \in DOMAIN t : Right(d) \in DOMAIN t =>
        Replacement(t, d) \in DOMAIN t /\ t[Replacement(t, d)].key > t[d].key
  BY ReplacementIsNext
<1>3. D \subseteq DOMAIN t /\ p \in D
  BY DEF Deleted
<1>4. ASSUME NEW d \in D, Right(d) \in DOMAIN t PROVE Replacement(t, d) \in D
  BY <1>2, <1>3, <1>4 DEF Deleted
<1> HIDE DEF D
<1>5. ASSUME NEW d \in D PROVE t[d].key >= t[p].key
  <2> DEFINE E == {x \in DOMAIN t : t[x].key >= t[p].key}
  <2>1. p \in E /\ E \in SUBSET DOMAIN t
    BY <1>1
  <2>2. ASSUME NEW x \in E, Right(x) \in DOMAIN t PROVE Replacement(t, x) \in E
    BY <1>1, <1>2, <2>2
  <2> HIDE DEF E
  <2>3. D \subseteq E
    BY <2>1, <2>2, DeletedIn DEF D
  <2> QED BY <2>3 DEF E
<1>6. ASSUME NEW d \in D, d # p PROVE \E c \in D : Right(c) \in DOMAIN t /\ Replacement(t, c) = d
  <2> DEFINE E == {x \in D : x = p \/ \E c \in D : Right(c) \in DOMAIN t /\ Replacement(t, c) = x}
  <2>1. p \in E /\ E \in SUBSET DOMAIN t
    BY <1>3
  <2>2. ASSUME NEW x \in E, Right(x) \in DOMAIN t PROVE Replacement(t, x) \in E
    BY <1>4, <2>2
  <2> HIDE DEF E
  <2>3. D \subseteq E
    BY <2>1, <2>2, DeletedIn DEF D
  <2> QED BY <1>6, <2>3 DEF E
<1> QED BY <1>3, <1>4, <1>5, <1>6 DEF D

\* The calls end at the deleted node with the largest key, the only one that has
\* no right child.
LEMMA FreedFacts ==
  ASSUME NEW t, IsTree(t), Ordered(t), NEW p \in DOMAIN t, NEW f, f = Freed(t, p)
  PROVE  /\ f \in Deleted(t, p) /\ Right(f) \notin DOMAIN t
         /\ \A d \in Deleted(t, p) : d # f => Right(d) \in DOMAIN t
<1> DEFINE D == Deleted(t, p)
<1>1. Rooted(t) /\ (\A d \in DOMAIN t : t[d].key \in Nat /\ Len(d) \in Nat)
  BY LenOf DEF IsTree, IsNode, Rooted
<1>2. /\ D \subseteq DOMAIN t /\ p \in D
      /\ \A d \in D : /\ Right(d) \in DOMAIN t => Replacement(t, d) \in D
                      /\ t[d].key >= t[p].key
  BY DeletedFacts
<1>3. \A d \in DOMAIN t : Right(d) \in DOMAIN t =>
        /\ Replacement(t, d) \in DOMAIN t /\ Len(Replacement(t, d)) > Len(d)
        /\ t[Replacement(t, d)].key > t[d].key
        /\ \A r \in DOMAIN t : t[r].key > t[d].key => t[r].key >= t[Replacement(t, d)].key
  BY ReplacementIsNext
<1>4. f \in D /\ Right(f) \notin DOMAIN t
  <2> HIDE DEF D
  <2>1. PICK q \in D : \A r \in D : Len(r) <= Len(q)
    BY <1>1, <1>2, Deepest
  <2>2. Right(q) \notin DOMAIN t
    <3> SUFFICES ASSUME Right(q) \in DOMAIN t PROVE FALSE
      OBVIOUS
    <3>1. Replacement(t, q) \in D /\ Len(Replacement(t, q)) > Len(q) /\ q \in DOMAIN t
      BY <1>2, <1>3
    <3> QED BY <1>1, <1>2, <2>1, <3>1
  <2> QED BY <2>1, <2>2 DEF Freed, D
<1>5. ASSUME NEW x \in D, Right(x) \notin DOMAIN t PROVE \A d \in D : t[d].key <= t[x].key
  <2> DEFINE E == {y \in DOMAIN t : t[y].key <= t[x].key}
  <2> HIDE DEF D
  <2>1. p \in E /\ E \in SUBSET DOMAIN t
    BY <1>1, <1>2
  <2>2. ASSUME NEW y \in E, Right(y) \in DOMAIN t PROVE Replacement(t, y) \in E
    <3>1. x \in DOMAIN t /\ y \in DOMAIN t /\ x # y /\ t[y].key <= t[x].key
      BY <1>2, <1>5, <2>2
    <3>2. t[y].key # t[x].key
      BY <3>1, KeyIsUnique
    <3>3. t[x].key > t[y].key
      BY <1>1, <3>1, <3>2
    <3> QED BY <1>3, <2>2, <3>1, <3>3, <1>1
  <2> HIDE DEF E
  <2>3. D \subseteq E
    BY <2>1, <2>2, DeletedIn DEF D
  <2> QED BY <2>3 DEF E
<1>6. ASSUME NEW d \in D, d # f PROVE Right(d) \in DOMAIN t
  <2> SUFFICES ASSUME Right(d) \notin DOMAIN t PROVE FALSE
    OBVIOUS
  <2> HIDE DEF D
  <2>1. t[f].key <= t[d].key /\ t[d].key <= t[f].key /\ f \in DOMAIN t /\ d \in DOMAIN t
    BY <1>2, <1>4, <1>5
  <2>2. t[f].key = t[d].key
    BY <1>1, <2>1
  <2> QED BY <1>6, <2>1, <2>2, KeyIsUnique
<1> QED BY <1>4, <1>6

\* The keys copied up leave the tree in order, without the deleted one, all but
\* the node that is freed.
IsRekeyed(u, t, p, f) ==
  /\ IsTree(u) /\ DOMAIN u = DOMAIN t /\ InOrder(u, DOMAIN t \ {f})
  /\ f \in DOMAIN t /\ Right(f) \notin DOMAIN t
  /\ {u[q].key : q \in DOMAIN t \ {f}} = {t[q].key : q \in DOMAIN t} \ {t[p].key}
  /\ \A q \in DOMAIN t \ {f} :
       \/ u[q] = t[q] /\ t[q].key # t[p].key
       \/ u[q].key \in {t[d].key : d \in Deleted(t, p)} \ {t[p].key}

LEMMA RekeyedFacts ==
  ASSUME NEW t, IsTree(t), Ordered(t), NEW p \in DOMAIN t,
         NEW f, f = Freed(t, p), NEW u, u = Rekeyed(t, p)
  PROVE  IsRekeyed(u, t, p, f)
<1> DEFINE D == Deleted(t, p)
           M(q) == Replacement(t, q)
           X == DOMAIN t \ {f}
<1>1. Rooted(t) /\ (\A d \in DOMAIN t : IsNode(t[d]) /\ t[d].key \in Nat)
  BY DEF IsTree, IsNode
<1>2. /\ D \subseteq DOMAIN t /\ p \in D
      /\ \A d \in D : /\ Right(d) \in DOMAIN t => M(d) \in D
                      /\ t[d].key >= t[p].key
                      /\ d # p => \E c \in D : Right(c) \in DOMAIN t /\ M(c) = d
  BY DeletedFacts
<1>3. f \in D /\ Right(f) \notin DOMAIN t /\ \A d \in D : d # f => Right(d) \in DOMAIN t
  BY FreedFacts
<1>4. \A d \in DOMAIN t : Right(d) \in DOMAIN t =>
        /\ M(d) \in DOMAIN t /\ t[M(d)].key > t[d].key
        /\ \A r \in DOMAIN t : t[r].key > t[d].key => t[r].key >= t[M(d)].key
  BY ReplacementIsNext
<1>5. DOMAIN u = DOMAIN t
  BY DEF Rekeyed
<1>6. ASSUME NEW q \in DOMAIN t PROVE
        /\ q \in D /\ q # f => u[q] = [key |-> t[M(q)].key, value |-> t[q].value]
        /\ ~ (q \in D /\ q # f) => u[q] = t[q]
  <2>1. u[q] = IF q \in D /\ Right(q) \in DOMAIN t
               THEN [t[q] EXCEPT !.key = t[M(q)].key] ELSE t[q]
    BY DEF Rekeyed
  <2>2. q \in D => (q # f <=> Right(q) \in DOMAIN t)
    BY <1>3
  <2>3. t[q] = [key |-> t[q].key, value |-> t[q].value]
    BY <1>1 DEF IsNode
  <2>4. [t[q] EXCEPT !.key = t[M(q)].key] = [key |-> t[M(q)].key, value |-> t[q].value]
    BY <2>3
  <2> HIDE DEF D, M
  <2> QED BY <2>1, <2>2, <2>4
<1> HIDE DEF D, M
<1>7. ASSUME NEW q \in DOMAIN t PROVE
        /\ IsNode(u[q])
        /\ q \in D /\ q # f => u[q].key = t[M(q)].key
        /\ ~ (q \in D /\ q # f) => u[q].key = t[q].key
  <2>1. CASE q \in D /\ q # f
    <3>1. u[q] = [key |-> t[M(q)].key, value |-> t[q].value] /\ t[M(q)].key \in Nat
      BY <1>1, <1>3, <1>4, <1>6, <2>1
    <3> QED BY <2>1, <3>1 DEF IsNode
  <2>2. CASE ~ (q \in D /\ q # f)
    BY <1>1, <1>6, <2>2
  <2> QED BY <2>1, <2>2
<1>8. IsTree(u)
  <2>1. Rooted(u)
    BY <1>1, <1>5 DEF Rooted, Depth
  <2> QED BY <1>5, <1>7, <2>1 DEF IsTree
<1>9. ASSUME NEW q \in X, NEW r \in X, t[q].key < t[r].key PROVE u[q].key < u[r].key
  <2>0. q \in DOMAIN t /\ r \in DOMAIN t /\ q # f /\ r # f /\ f \in DOMAIN t
    BY <1>2, <1>3
  <2>1. t[q].key \in Nat /\ t[r].key \in Nat
    BY <1>1
  <2>2. r \in D => u[r].key > t[r].key /\ u[r].key \in Nat /\ u[r].key = t[M(r)].key
    BY <1>1, <1>3, <1>4, <1>7, <2>0
  <2>3. r \notin D => u[r].key = t[r].key
    BY <1>7, <2>0
  <2>4. CASE q \in D
    <3>1. u[q].key = t[M(q)].key /\ M(q) \in D /\ M(q) \in DOMAIN t /\ t[r].key >= t[M(q)].key
          /\ t[M(q)].key \in Nat
      <4>1. Right(q) \in DOMAIN t
        BY <1>3, <2>0, <2>4
      <4>2. M(q) \in D /\ M(q) \in DOMAIN t
        BY <1>2, <1>4, <2>0, <2>4, <4>1
      <4>3. u[q].key = t[M(q)].key
        BY <1>7, <2>0, <2>4
      <4>4. t[r].key >= t[M(q)].key
        <5>1. \A x \in DOMAIN t : t[x].key > t[q].key => t[x].key >= t[M(q)].key
          BY <1>4, <2>0, <4>1
        <5>2. t[r].key > t[q].key
          BY <1>9, <2>1
        <5> QED BY <2>0, <5>1, <5>2
      <4> QED BY <1>1, <4>2, <4>3, <4>4
    <3>2. CASE r \in D
      BY <2>1, <2>2, <3>1, <3>2
    <3>3. CASE r \notin D
      <4>1. t[r].key # t[M(q)].key
        BY <2>0, <3>1, <3>3, KeyIsUnique
      <4> QED BY <2>1, <2>3, <3>1, <3>3, <4>1
    <3> QED BY <3>2, <3>3
  <2>5. CASE q \notin D
    <3>1. u[q].key = t[q].key
      BY <1>7, <2>0, <2>5
    <3> QED BY <1>9, <2>1, <2>2, <2>3, <3>1
  <2> QED BY <2>4, <2>5
<1>10. InOrder(u, X)
  <2> SUFFICES ASSUME NEW a \in X, NEW b \in X
               PROVE  /\ InLeft(b, a) => u[b].key < u[a].key
                      /\ InRight(b, a) => u[b].key > u[a].key
    BY DEF InOrder
  <2>1. InLeft(b, a) => t[b].key < t[a].key
    BY DEF Ordered, InOrder
  <2>2. InRight(b, a) => t[a].key < t[b].key /\ t[b].key > t[a].key
    BY <1>1 DEF Ordered, InOrder
  <2>3. u[a].key \in Nat /\ u[b].key \in Nat
    BY <1>7 DEF IsNode
  <2>4. InLeft(b, a) => u[b].key < u[a].key
    BY <1>9, <2>1
  <2>5. InRight(b, a) => u[a].key < u[b].key
    BY <1>9, <2>2
  <2> HIDE DEF X
  <2> QED BY <2>3, <2>4, <2>5
<1>11. ASSUME NEW q \in X
       PROVE  \/ u[q] = t[q] /\ t[q].key # t[p].key /\ q \notin D
              \/ /\ q \in D /\ M(q) \in D /\ M(q) \in DOMAIN t /\ u[q].key = t[M(q)].key
                 /\ t[M(q)].key # t[p].key
  <2>0. q \in DOMAIN t /\ q # f
    OBVIOUS
  <2>1. CASE q \in D
    <3>1. M(q) \in D /\ u[q].key = t[M(q)].key /\ t[M(q)].key > t[q].key /\ M(q) \in DOMAIN t
      <4>1. Right(q) \in DOMAIN t
        BY <1>3, <2>0, <2>1
      <4>2. M(q) \in D /\ M(q) \in DOMAIN t /\ t[M(q)].key > t[q].key
        BY <1>2, <1>4, <2>0, <2>1, <4>1
      <4>3. u[q].key = t[M(q)].key
        BY <1>7, <2>0, <2>1
      <4> QED BY <4>2, <4>3
    <3>2. t[q].key >= t[p].key /\ t[q].key \in Nat /\ t[p].key \in Nat /\ t[M(q)].key \in Nat
      <4>1. t[q].key >= t[p].key
        BY <1>2, <2>1
      <4> QED BY <1>1, <2>0, <3>1, <4>1
    <3>3. t[M(q)].key # t[p].key
      BY <3>1, <3>2
    <3> QED BY <2>1, <3>1, <3>3
  <2>2. CASE q \notin D
    <3>1. q # p
      BY <1>2, <2>2
    <3>2. t[q].key # t[p].key
      BY <2>0, <3>1, KeyIsUnique
    <3> QED BY <1>6, <2>0, <2>2, <3>2
  <2> QED BY <2>1, <2>2
<1>12. {u[q].key : q \in X} \subseteq {t[q].key : q \in DOMAIN t} \ {t[p].key}
  <2> SUFFICES ASSUME NEW q \in X
               PROVE  u[q].key # t[p].key /\ \E r \in DOMAIN t : u[q].key = t[r].key
    OBVIOUS
  <2>1. CASE u[q] = t[q] /\ t[q].key # t[p].key
    BY <2>1
  <2>2. CASE M(q) \in DOMAIN t /\ u[q].key = t[M(q)].key /\ t[M(q)].key # t[p].key
    BY <2>2
  <2> QED BY <1>11, <2>1, <2>2
<1>13. ASSUME NEW r \in DOMAIN t, t[r].key # t[p].key PROVE \E q \in X : t[r].key = u[q].key
  <2>1. CASE r \in D
    <3>1. PICK c \in D : Right(c) \in DOMAIN t /\ M(c) = r
      <4>1. r # p
        BY <1>13
      <4> QED BY <1>2, <2>1, <4>1
    <3>2. c # f /\ c \in X /\ u[c].key = t[r].key
      BY <1>2, <1>3, <1>7, <3>1
    <3> QED BY <3>2
  <2>2. CASE r \notin D
    <3>1. r \in X /\ u[r].key = t[r].key
      BY <1>3, <1>7, <2>2
    <3> QED BY <3>1
  <2> QED BY <2>1, <2>2
<1>14. {u[q].key : q \in X} = {t[q].key : q \in DOMAIN t} \ {t[p].key}
  <2> HIDE DEF X
  <2> QED BY <1>12, <1>13
<1>15. ASSUME NEW q \in X
       PROVE  \/ u[q] = t[q] /\ t[q].key # t[p].key
              \/ u[q].key \in {t[d].key : d \in D} \ {t[p].key}
  BY <1>11
<1> QED BY <1>2, <1>3, <1>5, <1>8, <1>10, <1>14, <1>15 DEF D, IsRekeyed

-----------------------------------------------------------------------------
\* r is the path that q is when the subtree that q goes through at f hangs one
\* step to the left.
LowersTo(q, f, r) ==
  IF IsPrefix(f, q)
  THEN /\ Len(r) = Len(q) + 1
       /\ \A i \in 1 .. Len(f) : r[i] = q[i]
       /\ r[Len(f) + 1] = "left"
       /\ \A i \in Len(f) + 2 .. Len(q) + 1 : r[i] = q[i - 1]
  ELSE r = q

LEMMA LoweredFacts ==
  ASSUME NEW f \in Path, NEW q \in Path
  PROVE  Lowered(q, f) \in Path /\ LowersTo(q, f, Lowered(q, f))
<1>1. Len(f) \in Nat /\ Len(q) \in Nat
  BY LenOf
<1>2. CASE IsPrefix(f, q)
  <2> DEFINE k == Len(f) + 1
             r == InsertAt(q, k, "left")
  <2>1. Lowered(q, f) = r
    BY <1>2 DEF Lowered
  <2>2. Len(f) <= Len(q)
    BY <1>2, PrefixIs
  <2>3. k \in 1 .. Len(q) + 1 /\ "left" \in Side /\ q \in Seq(Side) /\ k - 1 = Len(f) /\ k + 1 = Len(f) + 2
    BY <1>1, <2>2 DEF Path, Side
  <2> HIDE DEF k
  <2>4. /\ r \in Seq(Side) /\ Len(r) = Len(q) + 1
        /\ \A i \in 1 .. k - 1 : r[i] = q[i]
        /\ r[k] = "left"
        /\ \A i \in k + 1 .. Len(q) + 1 : r[i] = q[i - 1]
    BY <2>3, InsertFacts
  <2> HIDE DEF r
  <2>5. LowersTo(q, f, r)
    BY <1>2, <2>3, <2>4 DEF LowersTo, k
  <2> QED BY <2>1, <2>4, <2>5 DEF Path
<1>3. CASE ~ IsPrefix(f, q)
  BY <1>3 DEF Lowered, LowersTo
<1> QED BY <1>2, <1>3

LEMMA LoweredMisses ==
  ASSUME NEW f \in Path, NEW q \in Path
  PROVE  Lowered(q, f) # f
<1> DEFINE r == Lowered(q, f)
<1>1. r \in Path /\ LowersTo(q, f, r) /\ Len(f) \in Nat /\ Len(q) \in Nat
  BY LoweredFacts, LenOf
<1> HIDE DEF r
<1>2. IsPrefix(f, f)
  BY <1>1, PrefixIs
<1>3. IsPrefix(f, q) => Len(f) <= Len(q)
  BY PrefixIs
<1>4. r # f
  BY <1>1, <1>2, <1>3 DEF LowersTo
<1> QED BY <1>4 DEF r

\* Lowering keeps what lies below what, and on which side.
LEMMA LoweredOrder ==
  ASSUME NEW f \in Path, NEW a \in Path, NEW b \in Path
  PROVE  /\ InLeft(b, a) => InLeft(Lowered(b, f), Lowered(a, f))
         /\ InRight(b, a) => InRight(Lowered(b, f), Lowered(a, f))
         /\ IsPrefix(a, b) => IsPrefix(Lowered(a, f), Lowered(b, f))
<1> DEFINE x == Lowered(a, f)
           y == Lowered(b, f)
<1>1. x \in Path /\ LowersTo(a, f, x) /\ y \in Path /\ LowersTo(b, f, y)
  BY LoweredFacts
<1> HIDE DEF x, y
<1>2. /\ Len(f) \in Nat /\ Len(a) \in Nat /\ Len(b) \in Nat
      /\ Len(x) \in Nat /\ Len(y) \in Nat
  BY <1>1, LenOf
<1>3. /\ IsPrefix(f, a) <=> Len(f) <= Len(a) /\ \A i \in 1 .. Len(f) : f[i] = a[i]
      /\ IsPrefix(f, b) <=> Len(f) <= Len(b) /\ \A i \in 1 .. Len(f) : f[i] = b[i]
  BY PrefixIs
<1>4. ASSUME NEW side, Goes(a, b, side) PROVE Goes(x, y, side)
  <2>1. Len(a) < Len(b) /\ (\A i \in 1 .. Len(a) : a[i] = b[i]) /\ b[Len(a) + 1] = side
    BY <1>4 DEF Goes
  <2>2. CASE IsPrefix(f, a)
    <3>1. IsPrefix(f, b)
      <4>1. Len(f) <= Len(a) /\ \A i \in 1 .. Len(f) : f[i] = a[i]
        BY <1>3, <2>2
      <4>2. Len(f) <= Len(b) /\ \A i \in 1 .. Len(f) : f[i] = b[i]
        BY <1>2, <2>1, <4>1
      <4> QED BY <1>3, <4>2
    <3>2. /\ Len(f) <= Len(a) /\ Len(x) = Len(a) + 1 /\ Len(y) = Len(b) + 1
          /\ \A i \in 1 .. Len(f) : x[i] = a[i] /\ y[i] = b[i]
          /\ x[Len(f) + 1] = "left" /\ y[Len(f) + 1] = "left"
          /\ \A i \in Len(f) + 2 .. Len(a) + 1 : x[i] = a[i - 1]
          /\ \A i \in Len(f) + 2 .. Len(b) + 1 : y[i] = b[i - 1]
      BY <1>1, <1>3, <2>2, <3>1 DEF LowersTo
    <3>3. ASSUME NEW i \in 1 .. Len(x) PROVE x[i] = y[i]
      <4>1. CASE i <= Len(f)
        <5>1. i \in 1 .. Len(f) /\ i \in 1 .. Len(a)
          BY <1>2, <3>2, <4>1
        <5> QED BY <2>1, <3>2, <5>1
      <4>2. CASE i = Len(f) + 1
        BY <3>2, <4>2
      <4>3. CASE i > Len(f) + 1
        <5>1. i \in Len(f) + 2 .. Len(a) + 1 /\ i \in Len(f) + 2 .. Len(b) + 1 /\ i - 1 \in 1 .. Len(a)
          BY <1>2, <2>1, <3>2, <4>3
        <5>2. x[i] = a[i - 1] /\ y[i] = b[i - 1] /\ a[i - 1] = b[i - 1]
          BY <2>1, <3>2, <5>1
        <5> QED BY <5>2
      <4> QED BY <1>2, <4>1, <4>2, <4>3
    <3>4. y[Len(x) + 1] = side
      <4> DEFINE i == Len(a) + 2
      <4>1. i \in Len(f) + 2 .. Len(b) + 1 /\ i = Len(x) + 1 /\ i - 1 = Len(a) + 1
        BY <1>2, <2>1, <3>2
      <4> HIDE DEF i
      <4>2. y[i] = b[i - 1]
        BY <3>2, <4>1
      <4> QED BY <2>1, <4>1, <4>2
    <3> QED BY <1>2, <2>1, <3>2, <3>3, <3>4 DEF Goes
  <2>3. CASE ~ IsPrefix(f, a) /\ ~ IsPrefix(f, b)
    BY <1>1, <1>4, <2>3 DEF LowersTo
  <2>4. CASE ~ IsPrefix(f, a) /\ IsPrefix(f, b)
    <3>1. x = a /\ Len(f) <= Len(b) /\ \A i \in 1 .. Len(f) : f[i] = b[i]
      BY <1>1, <1>3, <2>4 DEF LowersTo
    <3>2. Len(a) < Len(f)
      <4> SUFFICES ASSUME ~ (Len(a) < Len(f)) PROVE FALSE
        OBVIOUS
      <4>1. Len(f) <= Len(a) /\ \A i \in 1 .. Len(f) : f[i] = a[i]
        BY <1>2, <2>1, <3>1
      <4> QED BY <1>3, <2>4, <4>1
    <3>3. Len(y) = Len(b) + 1 /\ \A i \in 1 .. Len(f) : y[i] = b[i]
      BY <1>1, <2>4 DEF LowersTo
    <3>4. Len(a) + 1 \in 1 .. Len(f) /\ \A i \in 1 .. Len(a) : i \in 1 .. Len(f)
      BY <1>2, <3>2
    <3>5. y[Len(a) + 1] = b[Len(a) + 1] /\ \A i \in 1 .. Len(a) : y[i] = b[i]
      BY <3>3, <3>4
    <3> QED BY <1>2, <2>1, <3>1, <3>3, <3>5 DEF Goes
  <2> QED BY <2>2, <2>3, <2>4
<1>5. InLeft(b, a) => InLeft(y, x)
  BY <1>1, <1>4, SubtreeIs
<1>6. InRight(b, a) => InRight(y, x)
  BY <1>1, <1>4, SubtreeIs
<1>7. ASSUME IsPrefix(a, b) PROVE IsPrefix(x, y)
  <2>1. CASE a = b
    <3>1. x = y
      BY <2>1 DEF x, y
    <3> QED BY <1>1, <1>2, <3>1, PrefixIs
  <2>2. CASE a # b
    <3>1. Len(a) <= Len(b) /\ \A i \in 1 .. Len(a) : a[i] = b[i]
      BY <1>7, PrefixIs
    <3>2. Len(a) # Len(b)
      BY <2>2, <3>1, SamePath
    <3>3. Goes(a, b, b[Len(a) + 1])
      BY <1>2, <3>1, <3>2 DEF Goes
    <3>4. Goes(x, y, b[Len(a) + 1])
      BY <1>4, <3>3
    <3>5. Len(x) <= Len(y) /\ \A i \in 1 .. Len(x) : x[i] = y[i]
      BY <1>2, <3>4 DEF Goes
    <3> QED BY <1>1, <3>5, PrefixIs
  <2> QED BY <2>1, <2>2
<1> QED BY <1>5, <1>6, <1>7 DEF x, y

\* Lifting undoes it for every path but f's and those to its right.
LEMMA LiftedFacts ==
  ASSUME NEW f \in Path, NEW r \in Path, r # f, ~ InRight(r, f)
  PROVE  Lifted(r, f) \in Path /\ Lowered(Lifted(r, f), f) = r /\ Len(Lifted(r, f)) <= Len(r)
<1>1. Len(f) \in Nat /\ Len(r) \in Nat
  BY LenOf
<1>2. CASE ~ IsPrefix(f, r)
  BY <1>1, <1>2 DEF Lifted, Lowered
<1>3. CASE IsPrefix(f, r)
  <2> DEFINE k == Len(f) + 1
             q == RemoveAt(r, k)
             s == Lowered(q, f)
  <2>1. Len(f) <= Len(r) /\ \A i \in 1 .. Len(f) : f[i] = r[i]
    BY <1>3, PrefixIs
  <2>2. Len(f) # Len(r)
    BY <2>1, SamePath
  <2>3. k \in 1 .. Len(r) /\ r \in Seq(Side) /\ k = Len(f) + 1
    BY <1>1, <2>1, <2>2 DEF Path
  <2>4. r[k] = "left"
    <3>1. r[k] = "left" \/ r[k] = "right"
      BY <2>3, ElementOfSeq DEF Side
    <3>2. r[k] # "right"
      <4> SUFFICES ASSUME r[k] = "right" PROVE FALSE
        OBVIOUS
      <4>1. Goes(f, r, "right")
        BY <1>1, <2>1, <2>2 DEF Goes
      <4> QED BY <4>1, SubtreeIs
    <3> QED BY <3>1, <3>2
  <2> HIDE DEF k
  <2>5. /\ q \in Seq(Side) /\ Len(q) = Len(r) - 1
        /\ \A i \in 1 .. Len(r) - 1 : q[i] = IF i < k THEN r[i] ELSE r[i + 1]
    BY <2>3, RemoveFacts
  <2>6. Lifted(r, f) = q
    BY <1>3 DEF Lifted, k
  <2> HIDE DEF q
  <2>7. q \in Path /\ IsPrefix(f, q)
    <3>1. q \in Path
      BY <2>5 DEF Path
    <3>2. Len(f) <= Len(q) /\ \A i \in 1 .. Len(f) : f[i] = q[i]
      BY <1>1, <2>1, <2>3, <2>5
    <3> QED BY <3>1, <3>2, PrefixIs
  <2>8. s \in Path /\ LowersTo(q, f, s)
    BY <2>7, LoweredFacts
  <2> HIDE DEF s
  <2>9. /\ Len(s) = Len(q) + 1
        /\ \A i \in 1 .. Len(f) : s[i] = q[i]
        /\ s[Len(f) + 1] = "left"
        /\ \A i \in Len(f) + 2 .. Len(q) + 1 : s[i] = q[i - 1]
    BY <2>7, <2>8 DEF LowersTo
  <2>10. s = r
    <3>1. Len(s) = Len(r)
      BY <1>1, <2>5, <2>9
    <3>2. ASSUME NEW i \in 1 .. Len(s) PROVE s[i] = r[i]
      <4>1. CASE i <= Len(f)
        <5>1. i \in 1 .. Len(f) /\ i \in 1 .. Len(r) - 1 /\ i < k
          BY <1>1, <2>1, <2>2, <2>3, <4>1
        <5> QED BY <2>5, <2>9, <5>1
      <4>2. CASE i = Len(f) + 1
        BY <2>3, <2>4, <2>9, <4>2
      <4>3. CASE i > Len(f) + 1
        <5> DEFINE j == i - 1
        <5>1. i \in Len(f) + 2 .. Len(q) + 1 /\ j \in 1 .. Len(r) - 1 /\ ~ (j < k) /\ j + 1 = i
          BY <1>1, <2>3, <2>5, <3>1, <4>3
        <5>2. s[i] = q[j]
          BY <2>9, <5>1
        <5> HIDE DEF j
        <5>3. q[j] = r[j + 1]
          BY <2>5, <5>1
        <5> QED BY <5>1, <5>2, <5>3
      <4> QED BY <1>1, <3>1, <4>1, <4>2, <4>3
    <3> QED BY <2>8, <3>1, <3>2, SamePath
  <2> QED BY <1>1, <2>5, <2>6, <2>7, <2>10 DEF s
<1> QED BY <1>2, <1>3

\* A tree without one node, whose left subtree takes its place, has the other
\* nodes, in their order.
LEMMA WithoutFacts ==
  ASSUME NEW t, IsTree(t), NEW f \in DOMAIN t, Right(f) \notin DOMAIN t,
         InOrder(t, DOMAIN t \ {f}), NEW u, u = Without(t, f)
  PROVE  /\ IsTree(u) /\ Ordered(u)
         /\ \A q \in DOMAIN u : \E r \in DOMAIN t \ {f} : u[q] = t[r]
         /\ \A r \in DOMAIN t \ {f} : \E q \in DOMAIN u : u[q] = t[r]
<1> DEFINE X == DOMAIN t \ {f}
           Up(r) == Lifted(r, f)
           Down(q) == Lowered(q, f)
<1>1. Rooted(t) /\ (\A d \in DOMAIN t : IsNode(t[d]) /\ d \in Path /\ Len(d) \in Nat) /\ f \in Path
  BY LenOf DEF IsTree, Rooted
<1>2. DOMAIN u = {Up(r) : r \in X} /\ \A q \in DOMAIN u : u[q] = t[Down(q)]
  BY DEF Without
<1>3. ASSUME NEW r \in X PROVE Up(r) \in Path /\ Down(Up(r)) = r /\ Len(Up(r)) <= Len(r)
  <2>1. r \in DOMAIN t /\ r # f /\ r \in Path
    BY <1>1
  <2>2. ~ InRight(r, f)
    BY <1>1, <2>1, ChildIsThere
  <2> QED BY <1>1, <2>1, <2>2, LiftedFacts
<1>4. ASSUME NEW q \in Path PROVE Down(q) \in Path /\ Down(q) # f
  BY <1>1, LoweredFacts, LoweredMisses
<1>5. ASSUME NEW q \in Path, Down(q) \in DOMAIN t PROVE q \in DOMAIN u
  <2>1. Down(q) \in X
    BY <1>4, <1>5
  <2>2. Up(Down(q)) = q
    <3> DEFINE r == Down(q)
    <3>1. Up(r) \in Path /\ Down(Up(r)) = r
      BY <1>3, <2>1
    <3>2. IsPrefix(f, q) => Len(r) = Len(q) + 1 /\ IsPrefix(f, r)
      <4>1. r \in Path /\ LowersTo(q, f, r)
        BY <1>1, LoweredFacts
      <4>2. Len(f) \in Nat /\ Len(q) \in Nat
        BY <1>1, LenOf
      <4> HIDE DEF r
      <4>3. ASSUME IsPrefix(f, q) PROVE Len(r) = Len(q) + 1 /\ IsPrefix(f, r)
        <5>1. Len(f) <= Len(q) /\ \A i \in 1 .. Len(f) : f[i] = q[i]
          BY <1>1, <4>3, PrefixIs
        <5>2. Len(r) = Len(q) + 1 /\ \A i \in 1 .. Len(f) : r[i] = q[i]
          BY <4>1, <4>3 DEF LowersTo
        <5>3. Len(f) <= Len(r) /\ \A i \in 1 .. Len(f) : f[i] = r[i]
          BY <4>2, <5>1, <5>2
        <5> QED BY <1>1, <4>1, <5>2, <5>3, PrefixIs
      <4> QED BY <4>3
    <3>3. ~ IsPrefix(f, q) => r = q
      BY DEF Lowered
    <3> QED
      <4>1. CASE ~ IsPrefix(f, q)
        BY <3>3, <4>1 DEF Lifted
      <4>2. CASE IsPrefix(f, q)
        <5> DEFINE s == Up(r)
        <5>1. IsPrefix(f, s)
          <6> SUFFICES ASSUME ~ IsPrefix(f, s) PROVE FALSE
            OBVIOUS
          <6>1. Down(s) = s
            BY DEF Lowered
          <6>2. s = r
            BY <3>1, <6>1
          <6> QED BY <3>2, <4>2, <6>2
        <5>2. s \in Path /\ LowersTo(s, f, r) /\ LowersTo(q, f, r)
          <6> HIDE DEF s
          <6>1. s \in Path /\ Down(s) = r
            BY <3>1 DEF s
          <6>2. LowersTo(s, f, Down(s)) /\ LowersTo(q, f, Down(q))
            BY <1>1, <6>1, LoweredFacts
          <6> QED BY <6>1, <6>2
        <5> HIDE DEF s, r
        <5>3. Len(f) \in Nat /\ Len(q) \in Nat /\ Len(s) \in Nat
          BY <1>1, <5>2, LenOf
        <5>4. /\ Len(r) = Len(q) + 1 /\ Len(r) = Len(s) + 1
              /\ \A i \in 1 .. Len(f) : r[i] = q[i] /\ r[i] = s[i]
              /\ \A i \in Len(f) + 2 .. Len(q) + 1 : r[i] = q[i - 1]
              /\ \A i \in Len(f) + 2 .. Len(s) + 1 : r[i] = s[i - 1]
          BY <4>2, <5>1, <5>2 DEF LowersTo
        <5>5. Len(q) = Len(s)
          BY <5>3, <5>4
        <5>6. ASSUME NEW i \in 1 .. Len(s) PROVE s[i] = q[i]
          <6>1. CASE i <= Len(f)
            <7>1. i \in 1 .. Len(f)
              BY <5>3, <6>1
            <7> QED BY <5>4, <7>1
          <6>2. CASE i > Len(f)
            <7> DEFINE j == i + 1
            <7>1. j \in Len(f) + 2 .. Len(q) + 1 /\ j \in Len(f) + 2 .. Len(s) + 1 /\ j - 1 = i
              BY <5>3, <5>5, <6>2
            <7> HIDE DEF j
            <7>2. r[j] = q[j - 1] /\ r[j] = s[j - 1]
              BY <5>4, <7>1
            <7> QED BY <7>1, <7>2
          <6> QED BY <5>3, <6>1, <6>2
        <5>7. s = q
          BY <5>2, <5>5, <5>6, SamePath
        <5> QED BY <5>7 DEF s, r
      <4> QED BY <4>1, <4>2
  <2> QED BY <1>2, <2>1, <2>2
<1>6. ASSUME NEW q \in DOMAIN u PROVE q \in Path /\ Down(q) \in X /\ u[q] = t[Down(q)]
  <2>1. PICK r \in X : q = Up(r)
    BY <1>2
  <2>2. q \in Path /\ Down(q) = r
    BY <1>3, <2>1
  <2> QED BY <1>2, <2>1, <2>2
<1> HIDE DEF Up, Down
<1>7. Rooted(u)
  <2>1. DOMAIN u \subseteq Path
    BY <1>6
  <2>2. ASSUME NEW q \in DOMAIN u, NEW n \in Nat, n <= Len(q) PROVE Start(q, n) \in DOMAIN u
    <3>1. q \in Path /\ Len(q) \in Nat /\ n \in 0 .. Len(q)
      BY <1>6, <2>2, LenOf
    <3>2. Start(q, n) \in Path /\ Len(Start(q, n)) = n /\ \A i \in 1 .. n : Start(q, n)[i] = q[i]
      BY <3>1, StartFacts
    <3>3. IsPrefix(Start(q, n), q)
      BY <3>1, <3>2, <2>2, PrefixIs
    <3>4. IsPrefix(Down(Start(q, n)), Down(q))
      BY <1>1, <3>1, <3>2, <3>3, LoweredOrder DEF Down
    <3>5. Down(Start(q, n)) \in Path /\ Down(q) \in DOMAIN t
      BY <1>4, <1>6, <3>2
    <3>6. Down(Start(q, n)) \in DOMAIN t
      BY <1>1, <3>4, <3>5, AncestorIsThere
    <3> QED BY <1>5, <3>2, <3>6
  <2>3. PICK n \in Nat : \A p \in DOMAIN t : Len(p) <= n
    BY <1>1 DEF Rooted, Depth
  <2>4. ASSUME NEW q \in DOMAIN u PROVE Len(q) <= n
    <3>1. PICK r \in X : q = Up(r)
      BY <1>2
    <3>2. q \in Path /\ Len(q) <= Len(r) /\ r \in DOMAIN t
      BY <1>3, <3>1
    <3>3. Len(q) \in Nat /\ Len(r) \in Nat /\ Len(r) <= n
      BY <1>1, <2>3, <3>2, LenOf
    <3> QED BY <3>2, <3>3
  <2> QED BY <2>1, <2>2, <2>4 DEF Rooted, Depth
<1>8. IsTree(u)
  BY <1>1, <1>6, <1>7 DEF IsTree
<1>9. ASSUME NEW a \in DOMAIN u, NEW b \in DOMAIN u
      PROVE  /\ InLeft(b, a) => u[b].key < u[a].key
             /\ InRight(b, a) => u[b].key > u[a].key
  <2>1. a \in Path /\ b \in Path /\ Down(a) \in X /\ Down(b) \in X /\ u[a] = t[Down(a)] /\ u[b] = t[Down(b)]
    BY <1>6
  <2>2. /\ InLeft(b, a) => InLeft(Down(b), Down(a))
        /\ InRight(b, a) => InRight(Down(b), Down(a))
    BY <1>1, <2>1, LoweredOrder DEF Down
  <2> QED BY <2>1, <2>2 DEF InOrder
<1>10. Ordered(u)
  BY <1>9 DEF Ordered, InOrder
<1>11. ASSUME NEW r \in X PROVE \E q \in DOMAIN u : u[q] = t[r]
  <2>1. Up(r) \in DOMAIN u
    BY <1>2
  <2>2. u[Up(r)] = t[r]
    BY <1>2, <1>3, <2>1
  <2> QED BY <2>1, <2>2
<1>12. ASSUME NEW q \in DOMAIN u PROVE \E r \in X : u[q] = t[r]
  BY <1>6
<1> QED BY <1>8, <1>10, <1>11, <1>12

KeysOf(t) == {t[p].key : p \in DOMAIN t}

\* A tree with a key deleted is an ordered tree with the other keys.
LEMMA DeleteFacts ==
  ASSUME NEW t, IsTree(t), Ordered(t), NEW key \in Nat,
         NEW u, u = u64_bst_delete(t, key)
  PROVE  /\ IsTree(u) /\ Ordered(u) /\ KeysOf(u) = KeysOf(t) \ {key}
         /\ \A q \in DOMAIN u :
              u[q].key \in Moves(t, key) \/ \E r \in DOMAIN t : u[q] = t[r]
<1> DEFINE p == Search(t, key)
           f == Freed(t, p)
           c == Rekeyed(t, p)
<1>1. p \in DOMAIN t => t[p].key = key
  BY SearchEnds
<1>2. CASE p \notin DOMAIN t
  <2>1. u = t
    BY <1>2 DEF u64_bst_delete
  <2>2. key \notin KeysOf(t)
    <3> SUFFICES ASSUME NEW q \in DOMAIN t, t[q].key = key PROVE FALSE
      BY DEF KeysOf
    <3>1. Search(t, t[q].key) = q
      BY SearchFinds
    <3> QED BY <1>2, <3>1
  <2> QED BY <2>1, <2>2
<1>3. CASE p \in DOMAIN t
  <2>1. u = Without(c, f) /\ Moves(t, key) = {t[q].key : q \in Deleted(t, p)} \ {key}
    BY <1>3 DEF u64_bst_delete, Moves
  <2> HIDE DEF p, f, c
  <2>2. f = Freed(t, p) /\ c = Rekeyed(t, p) /\ t[p].key = key
    BY <1>1, <1>3 DEF f, c
  <2>3. /\ IsTree(c) /\ DOMAIN c = DOMAIN t /\ InOrder(c, DOMAIN t \ {f})
        /\ f \in DOMAIN t /\ Right(f) \notin DOMAIN t
        /\ {c[q].key : q \in DOMAIN t \ {f}} = {t[q].key : q \in DOMAIN t} \ {t[p].key}
        /\ \A q \in DOMAIN t \ {f} :
             \/ c[q] = t[q] /\ t[q].key # t[p].key
             \/ c[q].key \in {t[d].key : d \in Deleted(t, p)} \ {t[p].key}
    <3>1. IsRekeyed(c, t, p, f)
      BY <1>3, <2>2, RekeyedFacts, Zenon
    <3> QED BY <3>1 DEF IsRekeyed
  <2>4. /\ IsTree(u) /\ Ordered(u)
        /\ \A q \in DOMAIN u : \E r \in DOMAIN t \ {f} : u[q] = c[r]
        /\ \A r \in DOMAIN t \ {f} : \E q \in DOMAIN u : u[q] = c[r]
    <3>1. f \in DOMAIN c /\ Right(f) \notin DOMAIN c /\ InOrder(c, DOMAIN c \ {f})
      BY <2>3
    <3>2. /\ IsTree(u) /\ Ordered(u)
          /\ \A q \in DOMAIN u : \E r \in DOMAIN c \ {f} : u[q] = c[r]
          /\ \A r \in DOMAIN c \ {f} : \E q \in DOMAIN u : u[q] = c[r]
      BY <2>1, <2>3, <3>1, WithoutFacts
    <3> QED BY <2>3, <3>2
  <2>5. KeysOf(u) = {c[q].key : q \in DOMAIN t \ {f}}
    BY <2>4 DEF KeysOf
  <2>6. KeysOf(u) = KeysOf(t) \ {key}
    BY <2>2, <2>3, <2>5 DEF KeysOf
  <2>7. ASSUME NEW q \in DOMAIN u
        PROVE  u[q].key \in Moves(t, key) \/ \E r \in DOMAIN t : u[q] = t[r]
    <3>1. PICK r \in DOMAIN t \ {f} : u[q] = c[r]
      BY <2>4
    <3> QED BY <2>1, <2>2, <2>3, <3>1
  <2> QED BY <2>4, <2>6, <2>7
<1> QED BY <1>2, <1>3

-----------------------------------------------------------------------------
(***************************************************************************)
(* The inductive invariant of the tree: it is an ordered tree, its keys    *)
(* are those of the map, and a node has its key's value unless a deletion  *)
(* moved the key there.  The first part is what TreeIsMap lacks: a search  *)
(* finds a key only when every node's ancestors are nodes, and in order.   *)
(***************************************************************************)
BstInv ==
  subject = "bst" =>
    /\ IsTree(object) /\ Ordered(object) /\ KeysOf(object) = DOMAIN ideal.map
    /\ ideal = [map |-> ideal.map, moved |-> ideal.moved]
    /\ \A p \in DOMAIN object :
         object[p].key \notin ideal.moved => object[p].value = ideal.map[object[p].key]

LEMMA NoTree ==
  ASSUME NEW t, t = <<>>
  PROVE  IsTree(t) /\ Ordered(t) /\ KeysOf(t) = {}
<1>1. DOMAIN t = {}
  OBVIOUS
<1>2. Rooted(t)
  <2>1. Depth(t, 0) /\ 0 \in Nat
    BY <1>1 DEF Depth
  <2> QED BY <1>1, <2>1 DEF Rooted
<1> QED BY <1>1, <1>2 DEF IsTree, Ordered, InOrder, KeysOf

LEMMA EmptyTree ==
  ASSUME object' = <<>>, ideal' = [map |-> <<>>, moved |-> {}]
  PROVE  BstInv'
<1>1. IsTree(object') /\ Ordered(object') /\ KeysOf(object') = {} /\ DOMAIN object' = {}
  BY NoTree
<1> QED BY <1>1 DEF BstInv

LEMMA TreeInit == BstInit => BstInv
<1> SUFFICES ASSUME BstInit PROVE BstInv
  OBVIOUS
<1>1. object = <<>> /\ ideal = [map |-> <<>>, moved |-> {}]
  BY DEF BstInit
<1>2. IsTree(object) /\ Ordered(object) /\ KeysOf(object) = {} /\ DOMAIN object = {}
  BY <1>1, NoTree
<1> QED BY <1>1, <1>2 DEF BstInv

LEMMA TreeInsert ==
  ASSUME BstInv, NEW key \in TreeKeys, NEW value, subject = "bst",
         object' = u64_bst_insert(object, key, value),
         ideal' = [ideal EXCEPT !.map = [k \in DOMAIN @ \cup {key} |->
                     IF k \in DOMAIN @ THEN @[k] ELSE value]]
  PROVE  BstInv'
<1> DEFINE m == ideal.map
           n == [k \in DOMAIN m \cup {key} |-> IF k \in DOMAIN m THEN m[k] ELSE value]
           e == Search(object, key)
<1>1. /\ IsTree(object) /\ Ordered(object) /\ KeysOf(object) = DOMAIN m
      /\ ideal = [map |-> m, moved |-> ideal.moved] /\ key \in Nat
      /\ \A p \in DOMAIN object :
           object[p].key \notin ideal.moved => object[p].value = m[object[p].key]
  BY TreeAssumption DEF BstInv
<1>2. ideal' = [ideal EXCEPT !.map = n]
  OBVIOUS
<1> HIDE DEF n, m
<1>3. ideal' = [map |-> n, moved |-> ideal.moved] /\ ideal'.map = n /\ ideal'.moved = ideal.moved
  BY <1>1, <1>2
<1>4. DOMAIN n = DOMAIN m \cup {key} /\ (\A k \in DOMAIN m : n[k] = m[k])
      /\ (key \notin DOMAIN m => n[key] = value)
  BY DEF n
<1>5. /\ IsTree(object') /\ Ordered(object')
      /\ DOMAIN object' = DOMAIN object \cup {e}
      /\ \A q \in DOMAIN object : object'[q] = object[q]
      /\ object'[e].key = key
      /\ e \notin DOMAIN object => object'[e] = node_create(key, value)
  <2>1. IsPlanted(object', object, key, value)
    BY <1>1, Planted, Zenon
  <2> QED BY <2>1 DEF IsPlanted
<1>6. e \notin DOMAIN object => key \notin DOMAIN m
  <2> SUFFICES ASSUME e \notin DOMAIN object, key \in DOMAIN m PROVE FALSE
    OBVIOUS
  <2>1. PICK q \in DOMAIN object : object[q].key = key
    BY <1>1 DEF KeysOf
  <2>2. Search(object, object[q].key) = q
    BY <1>1, SearchFinds
  <2> QED BY <2>1, <2>2
<1> HIDE DEF e
<1>7. KeysOf(object') = DOMAIN n
  BY <1>1, <1>4, <1>5 DEF KeysOf
<1>8. ASSUME NEW p \in DOMAIN object', object'[p].key \notin ideal.moved
      PROVE  object'[p].value = n[object'[p].key]
  <2>1. CASE p \in DOMAIN object
    <3>1. object'[p] = object[p] /\ object[p].key \in DOMAIN m
      BY <1>1, <1>5, <2>1 DEF KeysOf
    <3> QED BY <1>1, <1>4, <1>8, <2>1, <3>1
  <2>2. CASE p \notin DOMAIN object
    <3>1. p = e /\ object'[p] = node_create(key, value) /\ key \notin DOMAIN m
      BY <1>5, <1>6, <2>2
    <3> QED BY <1>4, <3>1 DEF node_create
  <2> QED BY <2>1, <2>2
<1> QED BY <1>3, <1>5, <1>7, <1>8 DEF BstInv

LEMMA TreeDelete ==
  ASSUME BstInv, NEW key \in TreeKeys, Delete(key)
  PROVE  BstInv'
<1> DEFINE m == ideal.map
           n == [k \in DOMAIN m \ {key} |-> m[k]]
           moved == (ideal.moved \cup Moves(object, key)) \ {key}
<1>0. subject = "bst" /\ object' = u64_bst_delete(object, key) /\ ideal' = [map |-> n, moved |-> moved]
  BY DEF Delete, Calls
<1>1. /\ IsTree(object) /\ Ordered(object) /\ KeysOf(object) = DOMAIN m /\ key \in Nat
      /\ \A p \in DOMAIN object :
           object[p].key \notin ideal.moved => object[p].value = m[object[p].key]
  BY <1>0, TreeAssumption DEF BstInv
<1>2. DOMAIN n = DOMAIN m \ {key} /\ (\A k \in DOMAIN m : k # key => n[k] = m[k])
  OBVIOUS
<1>3. /\ IsTree(object') /\ Ordered(object') /\ KeysOf(object') = KeysOf(object) \ {key}
      /\ \A q \in DOMAIN object' :
           object'[q].key \in Moves(object, key) \/ \E r \in DOMAIN object : object'[q] = object[r]
  BY <1>0, <1>1, DeleteFacts
<1> HIDE DEF m, n
<1>4. ASSUME NEW p \in DOMAIN object', object'[p].key \notin moved
      PROVE  object'[p].value = n[object'[p].key]
  <2>1. object'[p].key \in KeysOf(object) \ {key}
    BY <1>3 DEF KeysOf
  <2>2. object'[p].key \notin ideal.moved /\ object'[p].key \notin Moves(object, key)
    BY <1>4, <2>1
  <2>3. PICK r \in DOMAIN object : object'[p] = object[r]
    BY <1>3, <2>2
  <2> QED BY <1>1, <1>2, <2>1, <2>2, <2>3
<1> QED BY <1>0, <1>1, <1>2, <1>3, <1>4 DEF BstInv

LEMMA TreeStep ==
  ASSUME BstInv, [BstNext]_vars
  PROVE  BstInv'
<1>1. ASSUME UNCHANGED <<subject, object, ideal>> PROVE BstInv'
  BY <1>1 DEF BstInv
<1>2. ASSUME NEW k \in TreeKeys, NEW v \in Values, Insert(k, v) PROVE BstInv'
  <2>1. CASE Crash
    BY <1>1, <1>2, <2>1 DEF Insert, Crash, Ends
  <2>2. CASE ~ Crash
    <3>1. /\ subject = "bst" /\ object' = u64_bst_insert(object, k, v)
          /\ ideal' = [ideal EXCEPT !.map = [x \in DOMAIN @ \cup {k} |->
                         IF x \in DOMAIN @ THEN @[x] ELSE v]]
      BY <1>2, <2>2 DEF Insert, Calls
    <3> QED BY <3>1, TreeInsert
  <2> QED BY <2>1, <2>2
<1>3. ASSUME NEW k \in TreeKeys, Delete(k) PROVE BstInv'
  BY <1>3, TreeDelete
<1>4. ASSUME NEW k \in TreeKeys, Find(k) PROVE BstInv'
  BY <1>1, <1>4 DEF Find, Returns
<1>5. CASE u64_bst_clear
  BY <1>5, EmptyTree DEF u64_bst_clear
<1>6. CASE UNCHANGED vars
  BY <1>1, <1>6 DEF vars
<1> QED BY <1>2, <1>3, <1>4, <1>5, <1>6 DEF BstNext

LEMMA TreeHoldsMap == BstInv => TreeIsMap
<1> SUFFICES ASSUME BstInv, subject = "bst" PROVE TreeIsMap
  BY DEF TreeIsMap
<1>1. /\ IsTree(object) /\ Ordered(object) /\ KeysOf(object) = DOMAIN ideal.map
      /\ \A p \in DOMAIN object :
           object[p].key \notin ideal.moved => object[p].value = ideal.map[object[p].key]
  BY DEF BstInv
<1>2. ASSUME NEW k \in DOMAIN ideal.map
      PROVE  \E q \in DOMAIN object : object[q].key = k /\ u64_bst_find(object, k) = object[q]
  <2>1. PICK q \in DOMAIN object : object[q].key = k
    BY <1>1 DEF KeysOf
  <2>2. Search(object, k) = q
    BY <1>1, <2>1, SearchFinds
  <2> QED BY <2>1, <2>2 DEF u64_bst_find
<1>3. ASSUME NEW k \in TreeKeys \ DOMAIN ideal.map PROVE u64_bst_find(object, k) = nullptr
  <2>1. k \in Nat /\ \A p \in DOMAIN object : object[p].key # k
    BY <1>1, TreeAssumption DEF KeysOf
  <2>2. Search(object, k) \notin DOMAIN object
    BY <1>1, <2>1, NotFound
  <2> QED BY <2>2 DEF u64_bst_find
<1>4. \A k \in DOMAIN ideal.map : u64_bst_find(object, k).key = k
  BY <1>2
<1>5. \A k \in DOMAIN ideal.map \ ideal.moved : u64_bst_find(object, k).value = ideal.map[k]
  BY <1>1, <1>2
<1>6. \A p, q \in DOMAIN object : object[p].key = object[q].key => p = q
  BY <1>1, KeyIsUnique
<1>7. \A p, q \in DOMAIN object :
         /\ InLeft(q, p) => object[q].key < object[p].key
         /\ InRight(q, p) => object[q].key > object[p].key
  BY <1>1 DEF Ordered, InOrder
<1> QED BY <1>1, <1>3, <1>4, <1>5, <1>6, <1>7 DEF TreeIsMap, KeysOf

BstSpec == BstInit /\ [][BstNext]_vars

\* A binary search tree holds the keys inserted and not deleted, each once and in
\* order, and the value of each but those that a deletion moved.
THEOREM TreeHoldsItsKeys == BstSpec => []TreeIsMap
<1> QED BY TreeInit, TreeStep, TreeHoldsMap, PTL DEF BstSpec

-----------------------------------------------------------------------------
(***************************************************************************)
(* All containers.  A call on one is no call on another, and leaves which  *)
(* one the behaviour is about: what each keeps is kept by all the calls of *)
(* Containers.                                                             *)
(***************************************************************************)
LEMMA RingSubject == ASSUME RingNext PROVE subject = "ring" /\ UNCHANGED subject
BY DEF RingNext, ring_queue_create, ring_queue_destroy, ring_queue_enqueue,
       ring_queue_dequeue, ring_queue_peek, Calls

LEMMA LinearSubject == ASSUME LinearNext PROVE subject = "linear" /\ UNCHANGED subject
BY DEF LinearNext, linear_allocator_create, linear_allocator_destroy,
       linear_allocator_allocate, linear_allocator_free_all, Calls

LEMMA ElementSubject ==
  ASSUME ElementNext PROVE subject \in {"queue", "stack"} /\ UNCHANGED subject
<1>1. CASE QueueNext
  BY <1>1 DEF QueueNext, queue_create, queue_destroy, queue_reserve, queue_push,
              queue_peek, queue_pop, Create, Destroy, Reserve, Push, Calls
<1>2. CASE StackNext
  BY <1>2 DEF StackNext, stack_create, stack_destroy, stack_reserve, stack_push,
              stack_peek, stack_pop, Create, Destroy, Reserve, Push, Calls
<1> QED BY <1>1, <1>2 DEF ElementNext

LEMMA TableSubject ==
  ASSUME HashtableNext PROVE subject = "hashtable" /\ UNCHANGED subject
BY DEF HashtableNext, hashtable_create, hashtable_destroy, hashtable_set, hashtable_set_ptr,
       hashtable_get, hashtable_get_ptr, hashtable_fill, CallsTable, Calls

LEMMA TreeSubject == ASSUME BstNext PROVE subject = "bst" /\ UNCHANGED subject
BY DEF BstNext, Insert, Delete, Find, u64_bst_clear, Calls

LEMMA ArraySubject == ASSUME ArrayNext PROVE subject \in Arrays /\ UNCHANGED subject
<1>1. ASSUME NEW n, _darray_create(n) \/ darray_resize(n) \/ _kdarray_init(n)
      PROVE  subject \in Arrays /\ UNCHANGED subject
  BY <1>1 DEF _darray_create, darray_resize, _kdarray_init, Creates, There, Has, Calls, Arrays
<1>2. ASSUME NEW v, _darray_push(v) \/ typed_push(v)
      PROVE  subject \in Arrays /\ UNCHANGED subject
  BY <1>2 DEF _darray_push, typed_push, There, Has, Calls, Arrays
<1>3. ASSUME NEW i, darray_pop_at(i) \/ typed_pop_at(i)
      PROVE  subject \in Arrays /\ UNCHANGED subject
  BY <1>3 DEF darray_pop_at, typed_pop_at, There, Has, Calls, Arrays
<1>4. ASSUME NEW i, NEW v, _darray_insert_at(i, v) \/ typed_insert_at(i, v)
      PROVE  subject \in Arrays /\ UNCHANGED subject
  BY <1>4 DEF _darray_insert_at, typed_insert_at, There, Has, Calls, Arrays
<1>5. CASE darray_pop \/ darray_duplicate \/ darray_clear \/ darray_destroy
  BY <1>5 DEF darray_pop, darray_duplicate, darray_clear, darray_destroy, Clears, There, Has,
              Calls, Arrays
<1>6. CASE typed_pop \/ typed_clear \/ _kdarray_free
  BY <1>6 DEF typed_pop, typed_clear, _kdarray_free, Clears, There, Calls, Arrays
<1>7. CASE \/ darray_iterator_begin \/ darray_iterator_rbegin
           \/ darray_iterator_next \/ darray_iterator_prev
  BY <1>7 DEF darray_iterator_begin, darray_iterator_rbegin, darray_iterator_next,
              darray_iterator_prev, Walking, Iterates, There, Calls, Arrays
<1> QED BY <1>1, <1>2, <1>3, <1>4, <1>5, <1>6, <1>7 DEF ArrayNext

\* What holds of the container, whichever it is.
ContainersInv ==
  \/ RingInv
  \/ LinearInv
  \/ ElementInv
  \/ subject = "hashtable" /\ TableInv
  \/ subject = "bst" /\ BstInv
  \/ ArrayInv

LEMMA ContainersInit == Init => ContainersInv
<1>1. HashtableInit => subject = "hashtable" /\ TableInv
  BY TableInit DEF HashtableInit
<1>2. BstInit => subject = "bst" /\ BstInv
  BY TreeInit DEF BstInit
<1> QED BY <1>1, <1>2, LinearInitially, InitRing, ElementInitially, ArrayInitially DEF Init, ContainersInv

LEMMA ContainersStep == ASSUME ContainersInv, [Next]_vars PROVE ContainersInv'
<1> USE DEF ContainersInv
<1>1. CASE RingInv
  <2>1. subject = "ring"
    BY <1>1 DEF RingInv, RingType
  <2>2. [RingNext]_vars
    BY <2>1, LinearSubject, ElementSubject, TableSubject, TreeSubject, ArraySubject DEF Next, Arrays
  <2> QED BY <1>1, <2>2, RingStep
<1>2. CASE LinearInv
  <2>1. subject = "linear"
    BY <1>2 DEF LinearInv, LinearType
  <2>2. [LinearNext]_vars
    BY <2>1, RingSubject, ElementSubject, TableSubject, TreeSubject, ArraySubject DEF Next, Arrays
  <2> QED BY <1>2, <2>2, LinearStep
<1>3. CASE ElementInv
  <2>1. subject \in {"queue", "stack"}
    BY <1>3 DEF ElementInv
  <2>2. [ElementNext]_vars
    BY <2>1, RingSubject, LinearSubject, TableSubject, TreeSubject, ArraySubject DEF Next, Arrays
  <2> QED BY <1>3, <2>2, ElementStep
<1>4. CASE subject = "hashtable" /\ TableInv
  <2>1. [HashtableNext]_vars
    BY <1>4, RingSubject, LinearSubject, ElementSubject, TreeSubject, ArraySubject DEF Next, Arrays
  <2>2. subject' = "hashtable"
    BY <1>4, <2>1, TableSubject DEF vars
  <2> QED BY <1>4, <2>1, <2>2, TableStep
<1>5. CASE subject = "bst" /\ BstInv
  <2>1. [BstNext]_vars
    BY <1>5, RingSubject, LinearSubject, ElementSubject, TableSubject, ArraySubject DEF Next, Arrays
  <2>2. subject' = "bst"
    BY <1>5, <2>1, TreeSubject DEF vars
  <2> QED BY <1>5, <2>1, <2>2, TreeStep
<1>6. CASE ArrayInv
  <2>1. subject \in Arrays
    BY <1>6 DEF ArrayInv
  <2>2. [ArrayNext]_vars
    BY <2>1, RingSubject, LinearSubject, ElementSubject, TableSubject, TreeSubject DEF Next, Arrays
  <2> QED BY <1>6, <2>2, ArrayStep
<1> QED BY <1>1, <1>2, <1>3, <1>4, <1>5, <1>6

\* Whichever container a program uses, and whatever calls it makes in whatever
\* order: blocks of a linear allocator lie apart, a queue and a stack keep a few
\* elements in order, a hash table loses only what collides, a tree is the map
\* of its keys, an array is the sequence of its elements and an iterator stays
\* inside it.
THEOREM ContainersHold ==
  Spec => [](/\ LinearBlocksApart /\ FewElementsKeepOrder /\ HashtableLosesOnlyCollisions
             /\ TreeIsMap /\ ArrayIsSequence /\ IteratorInside)
<1> DEFINE All == /\ LinearBlocksApart /\ FewElementsKeepOrder /\ HashtableLosesOnlyCollisions
                  /\ TreeIsMap /\ ArrayIsSequence /\ IteratorInside
<1>1. ContainersInv => All
  <2>1. subject # "linear" => LinearBlocksApart
    BY DEF LinearBlocksApart
  <2>2. subject \notin {"queue", "stack"} => FewElementsKeepOrder
    BY DEF FewElementsKeepOrder, QueueKeepsOrder, StackReadsBottom
  <2>3. subject # "hashtable" => HashtableLosesOnlyCollisions
    BY DEF HashtableLosesOnlyCollisions
  <2>4. subject # "bst" => TreeIsMap
    BY DEF TreeIsMap
  <2>5. subject \notin Arrays => ArrayIsSequence /\ IteratorInside
    BY DEF ArrayIsSequence, IteratorInside, Arrays
  <2> HIDE DEF All
  <2>6. CASE RingInv
    BY <2>1, <2>2, <2>3, <2>4, <2>5, <2>6 DEF All, RingInv, RingType, Arrays
  <2>7. CASE LinearInv
    <3>1. subject = "linear" /\ LinearBlocksApart
      BY <2>7 DEF LinearInv, LinearType, LinearBlocksApart
    <3> QED BY <2>2, <2>3, <2>4, <2>5, <3>1 DEF All, Arrays
  <2>8. CASE ElementInv
    <3>1. subject \in {"queue", "stack"} /\ FewElementsKeepOrder
      BY <2>8, ElementsInOrder DEF ElementInv
    <3> QED BY <2>1, <2>3, <2>4, <2>5, <3>1 DEF All, Arrays
  <2>9. CASE subject = "hashtable" /\ TableInv
    <3>1. HashtableLosesOnlyCollisions
      BY <2>9 DEF TableInv, HashtableLosesOnlyCollisions
    <3> QED BY <2>1, <2>2, <2>4, <2>5, <2>9, <3>1 DEF All, Arrays
  <2>10. CASE subject = "bst" /\ BstInv
    BY <2>1, <2>2, <2>3, <2>5, <2>10, TreeHoldsMap DEF All, Arrays
  <2>11. CASE ArrayInv
    <3>1. subject \in Arrays /\ ArrayIsSequence /\ IteratorInside
      BY <2>11, ArrayInside DEF ArrayInv, ArrayIsSequence, IsArray
    <3> QED BY <2>1, <2>2, <2>3, <2>4, <3>1 DEF All, Arrays
  <2> QED BY <2>6, <2>7, <2>8, <2>9, <2>10, <2>11 DEF ContainersInv
<1> HIDE DEF All
<1>2. Spec => []All
  BY <1>1, ContainersInit, ContainersStep, PTL DEF Spec
<1> QED BY <1>2 DEF All

\* And a ring queue among them does only what a bounded queue does.
THEOREM ContainersRingIsFifo == Spec => RingImplementsFifo
<1>1. ContainersInv /\ [Next]_vars => [subject = "ring" => Fifo!Next]_vars
  <2> SUFFICES ASSUME ContainersInv, Next, subject = "ring" PROVE Fifo!Next
    OBVIOUS
  <2>1. RingNext
    BY LinearSubject, ElementSubject, TableSubject, TreeSubject, ArraySubject DEF Next, Arrays
  <2>2. RingInv
    BY DEF ContainersInv, LinearInv, LinearType, ElementInv, ArrayInv, Arrays
  <2> QED BY <2>1, <2>2, RingStepIsFifoStep
<1> QED BY <1>1, ContainersInit, ContainersStep, PTL DEF Spec, RingImplementsFifo
==============================================================================
