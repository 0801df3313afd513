-------------------------- MODULE FreelistTheorems -------------------------
(***************************************************************************)
(* What the free list guarantees, for every size of memory, every pool     *)
(* and every set of request sizes: first what joining, inserting, growing, *)
(* shrinking and removing a node does to the order of the list and to the  *)
(* bytes its nodes cover, then the inductive invariant and that every step *)
(* preserves it, then the properties that follow from it.                  *)
(***************************************************************************)
EXTENDS Freelist, Induction

-----------------------------------------------------------------------------
(***************************************************************************)
(* Operators of the proof.                                                 *)
(***************************************************************************)
Link == Slots \cup {nullptr}

\* Byte x lies in a free node of ns, in a block of bs.
InNode(ns, x) == \E i \in UsedIn(ns) : ns[i].offset <= x /\ x < EndIn(ns, i)

InBlock(bs, x) == \E b \in bs : b.at <= x /\ x < b.at + b.size

FusedBut(ns, E) == \A i \in UsedIn(ns) \ E : FusedAt(ns, i)

-----------------------------------------------------------------------------
(***************************************************************************)
(* Lemmas about node arrays.                                               *)
(***************************************************************************)
LEMMA SlotsFacts == /\ Slots \subseteq Nat
                    /\ 0 \in Slots
                    /\ nullptr \notin Slots
<1>1. max_entries \in Nat \ {0}
  BY TotalSizeAssumption, EntriesAssumption, SMTT(30) DEF max_entries
<1>2. QED
  BY <1>1, NullAssumption DEF Slots

\* get_node returns an unused slot, or null when slots 1.. are all in use.
LEMMA GetNodeFacts ==
  /\ get_node # nullptr => get_node \in FreeSlots
  /\ get_node = nullptr => FreeSlots = {}
<1>1. FreeSlots \in SUBSET Nat /\ FreeSlots \subseteq Slots
  BY SlotsFacts DEF FreeSlots
<1>2. CASE FreeSlots = {}
  BY <1>2 DEF get_node
<1>3. CASE FreeSlots # {}
  <2>1. \E x \in FreeSlots : \A y \in FreeSlots : x <= y
    BY <1>1, <1>3, LeastNatural
  <2>2. get_node \in FreeSlots
    BY <2>1, <1>3 DEF get_node
  <2>3. QED
    BY <2>2, <1>1, SlotsFacts
<1>4. QED
  BY <1>2, <1>3

\* What the type of a node array says of each slot.
LEMMA NodeFacts ==
  ASSUME NEW ns \in [Slots -> Node]
  PROVE  /\ UsedIn(ns) \subseteq Slots
         /\ \A k \in Slots : /\ ns[k] \in Node
                             /\ ns[k].offset \in Nat
                             /\ ns[k].size \in Nat
                             /\ ns[k].next \in Link
                             /\ EndIn(ns, k) = ns[k].offset + ns[k].size
                             /\ EndIn(ns, k) \in Nat
                             /\ k \in UsedIn(ns) <=> ns[k].size > 0
  BY DEF UsedIn, EndIn, Node, Link

\* Two used nodes of a sorted list have no byte in common.
LEMMA SortedApart ==
  ASSUME NEW ns \in [Slots -> Node], NEW h \in Link, Sorted(ns, h),
         NEW i \in UsedIn(ns), NEW j \in UsedIn(ns), i # j
  PROVE  EndIn(ns, i) <= ns[j].offset \/ EndIn(ns, j) <= ns[i].offset
<1>1. CASE ns[i].next = nullptr
  BY <1>1 DEF Sorted
<1>2. CASE ns[i].next # nullptr
  <2>1. CASE j = ns[i].next
    BY <1>2, <2>1 DEF Sorted
  <2>2. CASE j # ns[i].next
    <3>1. \/ EndIn(ns, j) <= ns[i].offset
          \/ EndIn(ns, ns[i].next) <= ns[j].offset
      BY <1>2, <2>2 DEF Sorted
    <3>2. EndIn(ns, i) <= ns[ns[i].next].offset /\ ns[i].next \in UsedIn(ns)
      BY <1>2 DEF Sorted
    <3>3. QED
      BY <3>1, <3>2, NodeFacts
  <2>3. QED
    BY <2>1, <2>2
<1>3. QED
  BY <1>1, <1>2

\* Joining a node with its successor keeps order and bytes, and fuses it.
LEMMA JoinNextLemma ==
  ASSUME NEW ns \in [Slots -> Node], NEW h \in Link, Sorted(ns, h),
         NEW i \in UsedIn(ns), NEW E, FusedBut(ns, E \cup {i}),
         i \notin E, ns[i].next \notin E
  PROVE  /\ JoinNext(ns, i) \in [Slots -> Node]
         /\ Sorted(JoinNext(ns, i), h)
         /\ FusedBut(JoinNext(ns, i), E)
         /\ i \in UsedIn(JoinNext(ns, i))
         /\ \A k \in UsedIn(ns) : k # ns[i].next => k \in UsedIn(JoinNext(ns, i))
         /\ \A x \in Nat : InNode(JoinNext(ns, i), x) <=> InNode(ns, x)
<1> DEFINE j == ns[i].next
           ms == JoinNext(ns, i)
<1> USE SlotsFacts
<1>1. CASE ~ (j # nullptr /\ EndIn(ns, i) = ns[j].offset)
  <2>1. ms = ns
    BY <1>1 DEF JoinNext, EndIn
  <2>2. FusedBut(ns, E)
    BY <1>1 DEF FusedBut, FusedAt
  <2>3. QED
    BY <2>1, <2>2
<1>2. CASE j # nullptr /\ EndIn(ns, i) = ns[j].offset
  <2> DEFINE U == UsedIn(ns)
             V == UsedIn(ms)
  <2>1. /\ i \in Slots /\ j \in U /\ j \in Slots /\ i # j
        /\ ns[i].size > 0 /\ ns[j].size > 0
    <3>1. i \in Slots /\ j \in UsedIn(ns) /\ j \in Slots
      BY <1>2, NodeFacts DEF Sorted
    <3>2. /\ ns[i].size > 0 /\ ns[j].size > 0
          /\ EndIn(ns, i) = ns[i].offset + ns[i].size
          /\ ns[i].size \in Nat /\ ns[i].offset \in Nat
      BY <3>1, NodeFacts
    <3>3. i # j
      <4> SUFFICES ASSUME i = j PROVE FALSE
        OBVIOUS
      <4>1. EndIn(ns, i) = ns[i].offset
        BY <1>2
      <4>2. QED
        BY <4>1, <3>2
    <3>4. QED
      BY <3>1, <3>2, <3>3
  <2>g. /\ ns[i].offset \in Nat /\ ns[i].size \in Nat /\ EndIn(ns, i) \in Nat
        /\ ns[j].offset \in Nat /\ ns[j].size \in Nat /\ EndIn(ns, j) \in Nat
        /\ EndIn(ns, i) = ns[i].offset + ns[i].size
        /\ EndIn(ns, j) = ns[j].offset + ns[j].size
        /\ ns[i].offset < EndIn(ns, i) /\ ns[j].offset < EndIn(ns, j)
        /\ EndIn(ns, i) < EndIn(ns, j) /\ ns[i].offset < EndIn(ns, j)
    <3>1. /\ ns[i].offset \in Nat /\ ns[i].size \in Nat /\ EndIn(ns, i) \in Nat
          /\ ns[j].offset \in Nat /\ ns[j].size \in Nat /\ EndIn(ns, j) \in Nat
          /\ EndIn(ns, i) = ns[i].offset + ns[i].size
          /\ EndIn(ns, j) = ns[j].offset + ns[j].size
      BY <2>1, NodeFacts
    <3>2. EndIn(ns, i) = ns[j].offset
      BY <1>2
    <3>3. QED
      BY <3>1, <3>2, <2>1
  <2>2. ms = [ns EXCEPT ![i].size = @ + ns[j].size,
                        ![i].next = ns[j].next,
                        ![j]      = empty_node]
    BY <1>2 DEF JoinNext, EndIn
  <2>3. /\ ms[i] = [offset |-> ns[i].offset, size |-> ns[i].size + ns[j].size,
                    next |-> ns[j].next]
        /\ ms[j] = empty_node
        /\ \A k \in Slots \ {i, j} : ms[k] = ns[k]
        /\ ms \in [Slots -> Node]
    BY <2>1, <2>2 DEF Node, empty_node
  <2>a. /\ ms[i].offset = ns[i].offset
        /\ ms[i].size = ns[i].size + ns[j].size
        /\ ms[i].next = ns[j].next
        /\ ms[j].size = 0
    BY <2>3 DEF empty_node
  <2>4. V = U \ {j} /\ i \in V
    <3>1. ASSUME NEW k PROVE k \in V <=> k \in U \ {j}
      <4>1. CASE k = i
        <5>1. ms[i].size > 0
          BY <2>1, <2>a, <2>g
        <5>2. QED
          BY <4>1, <5>1, <2>1 DEF UsedIn
      <4>2. CASE k = j
        BY <4>2, <2>1, <2>a DEF UsedIn
      <4>3. CASE k \notin {i, j}
        BY <4>3, <2>3 DEF UsedIn
      <4>4. QED
        BY <4>1, <4>2, <4>3
    <3>2. QED
      BY <3>1, <2>1
  <2>5. /\ EndIn(ms, i) = EndIn(ns, j)
        /\ \A k \in V \ {i} : k \in Slots /\ ms[k] = ns[k] /\ EndIn(ms, k) = EndIn(ns, k)
    <3>1. EndIn(ms, i) = EndIn(ns, j)
      <4>1. ms[i].offset + ms[i].size = ns[i].offset + (ns[i].size + ns[j].size)
        BY <2>a
      <4>2. ns[i].offset + (ns[i].size + ns[j].size) = ns[j].offset + ns[j].size
        <5>1. ns[i].offset + ns[i].size = ns[j].offset
          BY <1>2, <2>g
        <5>2. QED
          BY <5>1, <2>g
      <4>3. QED
        BY <4>1, <4>2 DEF EndIn
    <3>2. QED
      BY <3>1, <2>3, <2>4, NodeFacts DEF EndIn
  <2>s. ASSUME NEW k \in U
        PROVE  /\ k \in Slots /\ ns[k].offset \in Nat /\ EndIn(ns, k) \in Nat
               /\ ns[k].offset < EndIn(ns, k)
    <3>1. /\ k \in Slots /\ ns[k].offset \in Nat /\ EndIn(ns, k) \in Nat
          /\ ns[k].size \in Nat /\ ns[k].size > 0
          /\ EndIn(ns, k) = ns[k].offset + ns[k].size
      BY NodeFacts
    <3>2. QED
      BY <3>1
  <2>6. \A k \in V \ {i} : ns[k].next # j
    <3> SUFFICES ASSUME NEW k \in V \ {i}, ns[k].next = j PROVE FALSE
      OBVIOUS
    <3>1. k \in U \ {i, j} /\ j # nullptr
      BY <2>4, <1>2
    <3>2. EndIn(ns, k) <= ns[i].offset \/ EndIn(ns, j) <= ns[k].offset
      BY <1>2, <2>1, <3>1 DEF Sorted
    <3>3. EndIn(ns, i) <= ns[k].offset \/ EndIn(ns, j) <= ns[i].offset
      BY <2>1, <3>1 DEF Sorted
    <3>4. QED
      <4>1. EndIn(ns, k) \in Nat /\ ns[k].offset \in Nat /\ ns[k].offset < EndIn(ns, k)
        BY <2>s, <3>1
      <4>2. EndIn(ns, i) = ns[j].offset
        BY <1>2
      <4>3. EndIn(ns, k) <= ns[j].offset
        BY <1>2, <3>1 DEF Sorted
      <4>4. QED
        BY <4>1, <4>2, <4>3, <2>g, <3>2, <3>3
  <2>7. Sorted(ms, h)
    <3>j. h # j
      <4>1. h # nullptr /\ (i # h => EndIn(ns, h) <= ns[i].offset)
        BY <2>1 DEF Sorted
      <4> SUFFICES ASSUME h = j PROVE FALSE
        OBVIOUS
      <4>2. EndIn(ns, j) <= ns[i].offset
        BY <4>1, <2>1
      <4>3. QED
        BY <4>2, <2>g
    <3>1. /\ h = nullptr <=> V = {}
          /\ h # nullptr => /\ h \in V
                            /\ \A k \in V \ {h} : EndIn(ms, h) <= ms[k].offset
      <4>1. h # nullptr /\ h \in U /\ \A k \in U \ {h} : EndIn(ns, h) <= ns[k].offset
        BY <2>1 DEF Sorted
      <4>2. CASE h = i
        <5>1. ASSUME NEW k \in V \ {i} PROVE EndIn(ns, j) <= ns[k].offset
          <6>1. k \in U \ {i, j} /\ EndIn(ns, i) <= ns[k].offset
            BY <2>4, <4>1, <4>2
          <6>2. EndIn(ns, k) <= ns[i].offset \/ EndIn(ns, j) <= ns[k].offset
            BY <1>2, <2>1, <6>1 DEF Sorted
          <6>3. QED
            BY <6>1, <6>2, <2>1, <2>s
        <5>2. QED
          BY <5>1, <4>1, <4>2, <2>4, <2>5
      <4>3. CASE h # i
        BY <4>1, <4>3, <3>j, <2>4, <2>5, <2>a
      <4>4. QED
        BY <4>2, <4>3
    <3>2. ASSUME NEW a \in V, ms[a].next = nullptr, NEW b \in V \ {a}
          PROVE  EndIn(ms, b) <= ms[a].offset
      <4>1. CASE a = i
        <5>1. b \in U \ {i, j} /\ EndIn(ns, b) <= ns[j].offset
          BY <3>2, <4>1, <2>a, <2>1, <2>4 DEF Sorted
        <5>2. EndIn(ns, b) <= ns[i].offset \/ EndIn(ns, j) <= ns[b].offset
          BY <1>2, <2>1, <5>1 DEF Sorted
        <5>3. QED
          <6>1. EndIn(ns, b) \in Nat /\ ns[b].offset \in Nat /\ ns[b].offset < EndIn(ns, b)
            BY <2>s, <5>1
          <6>2. EndIn(ns, b) <= ns[i].offset
            BY <5>1, <5>2, <6>1, <2>g
          <6>3. QED
            BY <6>2, <5>1, <4>1, <2>4, <2>5, <2>a
      <4>2. CASE a # i
        <5>1. \A c \in U \ {a} : EndIn(ns, c) <= ns[a].offset
          BY <3>2, <4>2, <2>4, <2>5 DEF Sorted
        <5>2. QED
          BY <5>1, <3>2, <4>2, <2>1, <2>4, <2>5
      <4>3. QED
        BY <4>1, <4>2
    <3>3. ASSUME NEW a \in V, ms[a].next # nullptr
          PROVE  /\ ms[a].next \in V
                 /\ EndIn(ms, a) <= ms[ms[a].next].offset
                 /\ \A b \in V \ {a, ms[a].next} :
                      \/ EndIn(ms, b) <= ms[a].offset
                      \/ EndIn(ms, ms[a].next) <= ms[b].offset
      <4>1. CASE a = i
        <5> DEFINE l == ns[j].next
        <5>1. /\ ms[i].next = l /\ l \in U /\ EndIn(ns, j) <= ns[l].offset
              /\ \A b \in U \ {j, l} : EndIn(ns, b) <= ns[j].offset \/ EndIn(ns, l) <= ns[b].offset
          BY <3>3, <4>1, <2>a, <2>1 DEF Sorted
        <5>2. l \in V \ {i}
          <6>1. ns[l].offset \in Nat /\ ns[l].offset < EndIn(ns, l) /\ EndIn(ns, l) \in Nat
            BY <5>1, <2>s
          <6>2. l # i
            <7> SUFFICES ASSUME l = i PROVE FALSE
              OBVIOUS
            <7>1. EndIn(ns, j) <= ns[i].offset
              BY <5>1
            <7>2. QED
              BY <7>1, <2>g
          <6>3. l # j
            <7> SUFFICES ASSUME l = j PROVE FALSE
              OBVIOUS
            <7>1. EndIn(ns, j) <= ns[j].offset
              BY <5>1
            <7>2. QED
              BY <7>1, <2>g
          <6>4. QED
            BY <6>2, <6>3, <5>1, <2>4
        <5>3. ASSUME NEW b \in V \ {i, l}
              PROVE  EndIn(ms, b) <= ms[i].offset \/ EndIn(ms, l) <= ms[b].offset
          <6>1. b \in U \ {i, j, l}
            BY <2>4
          <6>2. EndIn(ns, b) <= ns[i].offset \/ EndIn(ns, j) <= ns[b].offset
            BY <1>2, <2>1, <6>1 DEF Sorted
          <6>3. EndIn(ns, b) <= ns[j].offset \/ EndIn(ns, l) <= ns[b].offset
            BY <5>1, <6>1
          <6>4. EndIn(ns, b) <= ns[i].offset \/ EndIn(ns, l) <= ns[b].offset
            <7>1. EndIn(ns, b) \in Nat /\ ns[b].offset \in Nat /\ ns[b].offset < EndIn(ns, b)
              BY <2>s, <6>1
            <7>2. CASE EndIn(ns, j) <= ns[b].offset /\ EndIn(ns, b) <= ns[j].offset
              BY <7>1, <7>2, <2>g
            <7>3. QED
              BY <7>2, <6>2, <6>3
          <6>5. QED
            BY <6>4, <5>2, <2>5, <2>a
        <5>4. QED
          BY <5>1, <5>2, <5>3, <4>1, <2>5
      <4>2. CASE a # i
        <5> DEFINE l == ns[a].next
        <5>1. /\ a \in U \ {i, j} /\ ms[a].next = l /\ l \in U /\ l # j /\ ms[a] = ns[a]
              /\ EndIn(ms, a) = EndIn(ns, a) /\ EndIn(ns, a) <= ns[l].offset
              /\ \A b \in U \ {a, l} : EndIn(ns, b) <= ns[a].offset \/ EndIn(ns, l) <= ns[b].offset
          BY <3>3, <4>2, <2>4, <2>5, <2>6 DEF Sorted
        <5>2. l \in V /\ ms[l].offset = ns[l].offset
          BY <5>1, <2>4, <2>5, <2>a
        <5>3. ASSUME NEW b \in V \ {a, l}
              PROVE  EndIn(ms, b) <= ms[a].offset \/ EndIn(ms, l) <= ms[b].offset
          <6>1. b \in U \ {a, j, l}
            BY <2>4
          <6>2. EndIn(ns, b) <= ns[a].offset \/ EndIn(ns, l) <= ns[b].offset
            BY <5>1, <6>1
          <6>3. CASE b = i
            <7>1. EndIn(ns, j) <= ns[a].offset \/ EndIn(ns, l) <= ns[j].offset
              BY <5>1, <2>1
            <7>2. EndIn(ns, a) <= ns[i].offset \/ EndIn(ns, j) <= ns[a].offset
              BY <1>2, <2>1, <5>1 DEF Sorted
            <7>3. EndIn(ns, j) <= ns[a].offset \/ EndIn(ns, l) <= ns[i].offset
              <8>1. EndIn(ns, l) <= ns[i].offset \/ EndIn(ns, j) <= ns[l].offset
                BY <1>2, <2>1, <5>1, <6>3, <6>1 DEF Sorted
              <8>2. QED
                <9>1. /\ EndIn(ns, l) \in Nat /\ ns[l].offset \in Nat /\ ns[l].offset < EndIn(ns, l)
                      /\ EndIn(ns, a) \in Nat /\ ns[a].offset \in Nat /\ ns[a].offset < EndIn(ns, a)
                  BY <2>s, <5>1
                <9>2. CASE EndIn(ns, l) <= ns[j].offset /\ EndIn(ns, j) <= ns[l].offset
                  BY <9>1, <9>2, <2>g
                <9>3. QED
                  BY <9>2, <7>1, <8>1
            <7>4. EndIn(ms, l) = EndIn(ns, l)
              BY <6>3, <5>2, <2>5
            <7>5. QED
              BY <7>3, <7>4, <6>3, <5>1, <2>5, <2>a
          <6>4. CASE b # i /\ l # i
            BY <6>2, <6>4, <5>1, <5>2, <2>5
          <6>5. CASE b # i /\ l = i
            <7>1. EndIn(ns, b) <= ns[i].offset \/ EndIn(ns, j) <= ns[b].offset
              BY <1>2, <2>1, <6>1, <6>5 DEF Sorted
            <7>2. EndIn(ns, b) <= ns[a].offset \/ EndIn(ns, i) <= ns[b].offset
              BY <6>2, <6>5
            <7>3. EndIn(ns, b) <= ns[a].offset \/ EndIn(ns, j) <= ns[b].offset
              BY <7>1, <7>2, <6>1, <2>1, <2>s
            <7>4. QED
              BY <7>3, <6>5, <5>1, <2>5
          <6>6. QED
            BY <6>3, <6>4, <6>5
        <5>4. QED
          BY <5>1, <5>2, <5>3
      <4>3. QED
        BY <4>1, <4>2
    <3>4. QED
      BY <3>1, <3>2, <3>3 DEF Sorted
  <2>8. FusedBut(ms, E)
    <3> SUFFICES ASSUME NEW k \in V \ E, ms[k].next # nullptr
                 PROVE  EndIn(ms, k) # ms[ms[k].next].offset
      BY DEF FusedBut, FusedAt
    <3>1. CASE k = i
      <4>1. j \in U \ (E \cup {i}) /\ ns[j].next # nullptr
        BY <2>1, <2>a, <3>1
      <4>2. ns[j].next \in V \ {i} /\ EndIn(ns, j) # ns[ns[j].next].offset
        <5> DEFINE l == ns[j].next
        <5>1. /\ EndIn(ns, j) # ns[l].offset /\ l \in U /\ EndIn(ns, j) <= ns[l].offset
          BY <4>1 DEF FusedBut, FusedAt, Sorted
        <5>2. ns[l].offset \in Nat
          BY <5>1, <2>s
        <5>3. l # i
          <6> SUFFICES ASSUME l = i PROVE FALSE
            OBVIOUS
          <6>1. EndIn(ns, j) <= ns[i].offset
            BY <5>1
          <6>2. QED
            BY <6>1, <2>g
        <5>4. l # j
          <6> SUFFICES ASSUME l = j PROVE FALSE
            OBVIOUS
          <6>1. EndIn(ns, j) <= ns[j].offset
            BY <5>1
          <6>2. QED
            BY <6>1, <2>g
        <5>5. QED
          BY <5>1, <5>3, <5>4, <2>4
      <4>3. QED
        BY <4>2, <3>1, <2>5, <2>a
    <3>2. CASE k # i
      <4>1. k \in U \ (E \cup {i}) /\ ms[k] = ns[k] /\ EndIn(ms, k) = EndIn(ns, k)
        BY <3>2, <2>4, <2>5
      <4>2. EndIn(ns, k) # ns[ns[k].next].offset /\ ns[k].next \in V
        BY <4>1, <2>4, <2>6, <3>2 DEF FusedBut, FusedAt, Sorted
      <4>3. QED
        BY <4>1, <4>2, <2>5, <2>a
    <3>3. QED
      BY <3>1, <3>2
  <2>9. \A x \in Nat : InNode(ms, x) <=> InNode(ns, x)
    <3>1. ASSUME NEW x \in Nat, NEW k \in V, ms[k].offset <= x, x < EndIn(ms, k)
          PROVE  InNode(ns, x)
      <4>1. CASE k = i /\ x < EndIn(ns, i)
        BY <3>1, <4>1, <2>1, <2>4, <2>a DEF InNode
      <4>2. CASE k = i /\ EndIn(ns, i) <= x
        BY <3>1, <4>2, <1>2, <2>1, <2>5 DEF InNode
      <4>3. CASE k # i
        BY <3>1, <4>3, <2>4, <2>5 DEF InNode
      <4>4. QED
        BY <4>1, <4>2, <4>3, <2>1, <2>s
    <3>2. ASSUME NEW x \in Nat, NEW k \in U, ns[k].offset <= x, x < EndIn(ns, k)
          PROVE  InNode(ms, x)
      <4>1. CASE k \in {i, j}
        <5>1. ms[i].offset <= x /\ x < EndIn(ms, i)
          <6>1. ns[i].offset <= x
            <7>1. CASE k = i
              BY <3>2, <7>1
            <7>2. CASE k = j
              <8>1. ns[j].offset <= x /\ EndIn(ns, i) = ns[j].offset
                BY <3>2, <7>2, <1>2
              <8>2. QED
                BY <8>1, <2>g
            <7>3. QED
              BY <4>1, <7>1, <7>2
          <6>2. x < EndIn(ns, j)
            <7>1. CASE k = i
              <8>1. x < EndIn(ns, i)
                BY <3>2, <7>1
              <8>2. QED
                BY <8>1, <2>g
            <7>2. CASE k = j
              BY <3>2, <7>2
            <7>3. QED
              BY <4>1, <7>1, <7>2
          <6>3. QED
            BY <6>1, <6>2, <2>5, <2>a
        <5>2. QED
          BY <5>1, <2>4 DEF InNode
      <4>2. CASE k \notin {i, j}
        BY <3>2, <4>2, <2>4, <2>5 DEF InNode
      <4>3. QED
        BY <4>1, <4>2
    <3>3. QED
      BY <3>1, <3>2 DEF InNode
  <2>10. QED
    BY <2>3, <2>4, <2>7, <2>8, <2>9
<1>3. QED
  BY <1>1, <1>2

(***************************************************************************)
(* A new node n for the range of size w at o goes in between p and q,      *)
(* either of which may be missing.  Both ends may then touch.              *)
(***************************************************************************)
InsertAt(ns, h, n, o, w, p, q, ms) ==
  /\ ns \in [Slots -> Node] /\ h \in Link /\ Sorted(ns, h) /\ Fused(ns)
  /\ n \in Slots /\ n \notin UsedIn(ns)
  /\ o \in Nat /\ w \in Nat \ {0}
  /\ p \in UsedIn(ns) \cup {nullptr}
  /\ q \in UsedIn(ns) \cup {nullptr}
  /\ p = nullptr => q = h
  /\ p # nullptr => ns[p].next = q /\ EndIn(ns, p) <= o
  /\ q # nullptr => o + w <= ns[q].offset
  /\ \A k \in UsedIn(ns) : EndIn(ns, k) <= o \/ o + w <= ns[k].offset
  /\ ms \in [Slots -> Node]
  /\ ms[n] = [offset |-> o, size |-> w, next |-> q]
  /\ p # nullptr => ms[p] = [ns[p] EXCEPT !.next = n]
  /\ \A k \in Slots \ {n, p} : ms[k] = ns[k]

Inserted(ns, h, n, o, w, p, ms) ==
  /\ p = nullptr => Sorted(ms, n)
  /\ p # nullptr => Sorted(ms, h)
  /\ FusedBut(ms, {n, p})
  /\ UsedIn(ms) = UsedIn(ns) \cup {n}
  /\ \A x \in Nat : InNode(ms, x) <=> InNode(ns, x) \/ (o <= x /\ x < o + w)

LEMMA InsertLemma ==
  ASSUME NEW ns, NEW h, NEW n, NEW o, NEW w, NEW p, NEW q, NEW ms,
         InsertAt(ns, h, n, o, w, p, q, ms)
  PROVE  Inserted(ns, h, n, o, w, p, ms)
<1> DEFINE g == IF p = nullptr THEN n ELSE h
<1> DEFINE U == UsedIn(ns)
           V == UsedIn(ms)
<1> USE SlotsFacts
<1>i. /\ ns \in [Slots -> Node] /\ h \in Link /\ Sorted(ns, h) /\ Fused(ns)
      /\ n \in Slots /\ n \notin UsedIn(ns)
      /\ o \in Nat /\ w \in Nat \ {0}
      /\ p \in UsedIn(ns) \cup {nullptr}
      /\ q \in UsedIn(ns) \cup {nullptr}
      /\ p = nullptr => q = h
      /\ p # nullptr => ns[p].next = q /\ EndIn(ns, p) <= o
      /\ q # nullptr => o + w <= ns[q].offset
      /\ \A k \in UsedIn(ns) : EndIn(ns, k) <= o \/ o + w <= ns[k].offset
      /\ ms \in [Slots -> Node]
      /\ ms[n] = [offset |-> o, size |-> w, next |-> q]
      /\ p # nullptr => ms[p] = [ns[p] EXCEPT !.next = n]
      /\ \A k \in Slots \ {n, p} : ms[k] = ns[k]
  BY DEF InsertAt
<1> USE <1>i
<1>s. ASSUME NEW k \in U
      PROVE  /\ k \in Slots /\ ns[k].offset \in Nat /\ EndIn(ns, k) \in Nat
             /\ ns[k].offset < EndIn(ns, k) /\ k # n /\ k # nullptr
             /\ ms[k].offset = ns[k].offset /\ EndIn(ms, k) = EndIn(ns, k)
             /\ k \in V
             /\ k # p => ms[k].next = ns[k].next
             /\ k = p => ms[k].next = n
  <2>1. /\ k \in Slots /\ ns[k].offset \in Nat /\ EndIn(ns, k) \in Nat
        /\ ns[k].offset < EndIn(ns, k) /\ k # n /\ k # nullptr /\ ns[k].size > 0
    BY NodeFacts
  <2>2. /\ ms[k].offset = ns[k].offset /\ ms[k].size = ns[k].size
        /\ k # p => ms[k].next = ns[k].next
        /\ k = p => ms[k].next = n
    <3>1. CASE k = p
      <4>1. ms[k] = [ns[k] EXCEPT !.next = n] /\ ns[k] \in Node
        BY <2>1, <3>1
      <4>2. QED
        BY <4>1, <3>1 DEF Node
    <3>2. CASE k # p
      BY <2>1, <3>2
    <3>3. QED
      BY <3>1, <3>2
  <2>3. QED
    BY <2>1, <2>2 DEF EndIn, UsedIn
<1>n. /\ ms[n].offset = o /\ ms[n].next = q /\ EndIn(ms, n) = o + w /\ n \in V
      /\ n # nullptr
  BY DEF EndIn, UsedIn
<1>v. V = U \cup {n}
  <2>1. ASSUME NEW k \in V, k # n PROVE k \in U
    <3>1. CASE k = p
      BY <3>1, <2>1 DEF UsedIn
    <3>2. CASE k # p
      BY <3>2, <2>1 DEF UsedIn
    <3>3. QED
      BY <3>1, <3>2
  <2>2. QED
    BY <2>1, <1>n, <1>s
<1>p. ASSUME p # nullptr
      PROVE  /\ p \in U /\ ns[p].offset \in Nat /\ EndIn(ns, p) \in Nat
             /\ ns[p].offset < EndIn(ns, p) /\ EndIn(ns, p) <= o
             /\ ns[p].offset <= o
  BY <1>p, <1>s
<1>q. ASSUME q # nullptr
      PROVE  /\ q \in U /\ ns[q].offset \in Nat /\ EndIn(ns, q) \in Nat
             /\ ns[q].offset < EndIn(ns, q) /\ o + w <= ns[q].offset
             /\ o < ns[q].offset
  BY <1>q, <1>s
\* Where p = nullptr, every used node lies behind the new one.
<1>f. ASSUME p = nullptr, NEW k \in U PROVE o + w <= ns[k].offset /\ q # nullptr /\ q = h
  <2>1. q = h /\ h # nullptr
    BY <1>f DEF Sorted
  <2>2. k = h \/ EndIn(ns, h) <= ns[k].offset
    BY <2>1 DEF Sorted
  <2>3. QED
    BY <2>1, <2>2, <1>q, <1>s
\* Where p is a node, the others are before it or behind the new one.
<1>m. ASSUME p # nullptr, NEW k \in U \ {p}
      PROVE  EndIn(ns, k) <= ns[p].offset \/ (q # nullptr /\ o + w <= ns[k].offset)
  <2>1. CASE q = nullptr
    BY <2>1, <1>m, <1>p DEF Sorted
  <2>2. CASE q # nullptr /\ k = q
    BY <2>2, <1>q
  <2>3. CASE q # nullptr /\ k # q
    <3>1. EndIn(ns, k) <= ns[p].offset \/ EndIn(ns, q) <= ns[k].offset
      BY <2>3, <1>m, <1>p DEF Sorted
    <3>2. EndIn(ns, q) <= ns[k].offset => o + w <= ns[k].offset
      BY <1>q, <1>s, <2>3
    <3>3. QED
      BY <3>1, <3>2, <2>3
  <2>4. QED
    BY <2>1, <2>2, <2>3
<1>1. /\ g # nullptr /\ g \in V
      /\ \A k \in V \ {g} : EndIn(ms, g) <= ms[k].offset
  <2>1. CASE p = nullptr
    BY <2>1, <1>f, <1>n, <1>v, <1>s
  <2>2. CASE p # nullptr
    <3>1. g = h /\ h \in U /\ \A k \in U \ {h} : EndIn(ns, h) <= ns[k].offset
      BY <2>2, <1>p DEF Sorted
    <3>2. EndIn(ns, h) <= o
      <4>1. CASE h = p
        BY <4>1, <1>p, <2>2
      <4>2. CASE h # p
        <5>1. EndIn(ns, h) <= ns[p].offset
          BY <4>2, <3>1, <1>p, <2>2
        <5>2. QED
          BY <5>1, <1>p, <2>2, <3>1, <1>s
      <4>3. QED
        BY <4>1, <4>2
    <3>3. QED
      BY <3>1, <3>2, <1>s, <1>v, <1>n
  <2>3. QED
    BY <2>1, <2>2
<1>2. ASSUME NEW a \in V, ms[a].next = nullptr, NEW b \in V \ {a}
      PROVE  EndIn(ms, b) <= ms[a].offset
  <2>1. CASE a = n
    <3>1. q = nullptr /\ b \in U
      BY <2>1, <1>2, <1>n, <1>v
    <3>2. p # nullptr
      BY <3>1, <1>f
    <3>3. b = p \/ EndIn(ns, b) <= ns[p].offset
      BY <3>1, <3>2, <1>m
    <3>4. EndIn(ns, b) <= o
      BY <3>1, <3>2, <3>3, <1>p, <1>s
    <3>5. QED
      BY <3>1, <3>4, <2>1, <1>s, <1>n
  <2>2. CASE a # n
    <3>1. a \in U \ {p} /\ ns[a].next = nullptr /\ ms[a].offset = ns[a].offset
      BY <2>2, <1>2, <1>v, <1>s, <1>n
    <3>2. \A c \in U \ {a} : EndIn(ns, c) <= ns[a].offset
      BY <3>1 DEF Sorted
    <3>3. CASE b = n
      <4>1. CASE p = nullptr
        BY <4>1, <1>f, <3>1, <3>3, <1>n
      <4>2. CASE p # nullptr
        <5>1. EndIn(ns, p) <= ns[a].offset
          BY <3>1, <3>2, <4>2, <1>p
        <5>2. ~ (EndIn(ns, a) <= ns[p].offset)
          BY <5>1, <4>2, <1>p, <1>s, <3>1
        <5>3. o + w <= ns[a].offset
          BY <5>2, <4>2, <1>m, <3>1
        <5>4. QED
          BY <5>3, <3>1, <3>3, <1>n
      <4>3. QED
        BY <4>1, <4>2
    <3>4. CASE b # n
      BY <3>1, <3>2, <3>4, <1>v, <1>s
    <3>5. QED
      BY <3>3, <3>4
  <2>3. QED
    BY <2>1, <2>2
<1>3. ASSUME NEW a \in V, ms[a].next # nullptr
      PROVE  /\ ms[a].next \in V
             /\ EndIn(ms, a) <= ms[ms[a].next].offset
             /\ \A b \in V \ {a, ms[a].next} :
                  \/ EndIn(ms, b) <= ms[a].offset
                  \/ EndIn(ms, ms[a].next) <= ms[b].offset
  <2>1. CASE a = n
    <3>1. q # nullptr /\ q \in U /\ q \in V /\ ms[a].next = q /\ o + w <= ms[q].offset
      BY <2>1, <1>3, <1>n, <1>q, <1>s
    <3>2. ASSUME NEW b \in U \ {q}
          PROVE  EndIn(ms, b) <= o \/ EndIn(ms, q) <= ms[b].offset
      <4>1. CASE p = nullptr
        <5>1. EndIn(ns, q) <= ns[b].offset
          BY <4>1, <1>f, <3>1 DEF Sorted
        <5>2. QED
          BY <5>1, <3>1, <1>s
      <4>2. CASE p # nullptr /\ b = p
        BY <4>2, <1>p, <1>s
      <4>3. CASE p # nullptr /\ b # p
        <5>1. EndIn(ns, b) <= ns[p].offset \/ EndIn(ns, q) <= ns[b].offset
          BY <4>3, <3>1, <1>p DEF Sorted
        <5>2. EndIn(ns, b) <= ns[p].offset => EndIn(ns, b) <= o
          BY <4>3, <1>p, <1>s
        <5>3. QED
          BY <5>1, <5>2, <3>1, <1>s
      <4>4. QED
        BY <4>1, <4>2, <4>3
    <3>3. QED
      BY <3>1, <3>2, <2>1, <1>n, <1>v
  <2>2. CASE a = p
    <3>1. p # nullptr /\ ms[a].next = n /\ EndIn(ms, a) <= o /\ ms[a].offset = ns[p].offset
      BY <2>2, <1>p, <1>s, <1>v, <1>n
    <3>2. \A b \in U \ {p} : EndIn(ms, b) <= ms[a].offset \/ o + w <= ms[b].offset
      BY <3>1, <1>m, <1>s
    <3>3. QED
      BY <3>1, <3>2, <2>2, <1>n, <1>v
  <2>3. CASE a \notin {n, p}
    <3> DEFINE l == ns[a].next
    <3>1. /\ a \in U /\ ms[a].next = l /\ l # nullptr /\ l \in U
          /\ EndIn(ns, a) <= ns[l].offset
          /\ \A b \in U \ {a, l} : EndIn(ns, b) <= ns[a].offset \/ EndIn(ns, l) <= ns[b].offset
      BY <2>3, <1>3, <1>s, <1>v DEF Sorted
    <3>l. /\ ns[a].offset \in Nat /\ EndIn(ns, a) \in Nat /\ ns[a].offset < EndIn(ns, a)
          /\ ns[l].offset \in Nat /\ EndIn(ns, l) \in Nat /\ ns[l].offset < EndIn(ns, l)
      BY <3>1, <1>s
    <3>2. o + w <= ns[a].offset \/ EndIn(ns, l) <= o
      <4>1. CASE p = nullptr
        BY <4>1, <1>f, <3>1
      <4>2. CASE p # nullptr
        <5>1. EndIn(ns, a) <= ns[p].offset \/ o + w <= ns[a].offset
          BY <4>2, <1>m, <3>1, <2>3
        <5>2. CASE EndIn(ns, a) <= ns[p].offset
          <6>1. CASE l = p
            BY <6>1, <4>2, <1>p
          <6>2. CASE l # p
            <7>1. EndIn(ns, p) <= ns[a].offset \/ EndIn(ns, l) <= ns[p].offset
              BY <3>1, <6>2, <4>2, <1>p, <2>3
            <7>2. ~ (EndIn(ns, p) <= ns[a].offset)
              BY <5>2, <4>2, <1>p, <3>l
            <7>3. QED
              BY <7>1, <7>2, <4>2, <1>p, <3>l
          <6>3. QED
            BY <6>1, <6>2
        <5>3. QED
          BY <5>1, <5>2
      <4>3. QED
        BY <4>1, <4>2
    <3>3. ASSUME NEW b \in V \ {a, l}
          PROVE  EndIn(ms, b) <= ms[a].offset \/ EndIn(ms, l) <= ms[b].offset
      <4>1. CASE b = n
        BY <4>1, <3>1, <3>2, <1>n, <1>s
      <4>2. CASE b # n
        BY <4>2, <3>1, <1>s, <1>v
      <4>3. QED
        BY <4>1, <4>2
    <3>4. QED
      BY <3>1, <3>3, <1>s
  <2>4. QED
    BY <2>1, <2>2, <2>3
<1>4. Sorted(ms, g)
  BY <1>1, <1>2, <1>3 DEF Sorted
<1>5. FusedBut(ms, {n, p})
  <2> SUFFICES ASSUME NEW k \in V \ {n, p}, ms[k].next # nullptr
               PROVE  EndIn(ms, k) # ms[ms[k].next].offset
    BY DEF FusedBut, FusedAt
  <2>1. k \in U /\ ms[k].next = ns[k].next /\ EndIn(ms, k) = EndIn(ns, k)
    BY <1>v, <1>s
  <2>2. ns[k].next \in U /\ EndIn(ns, k) # ns[ns[k].next].offset
    BY <2>1 DEF Sorted, Fused, FusedAt
  <2>3. QED
    BY <2>1, <2>2, <1>s
<1>6. ASSUME NEW x \in Nat
      PROVE  InNode(ms, x) <=> InNode(ns, x) \/ (o <= x /\ x < o + w)
  BY <1>v, <1>n, <1>s DEF InNode
<1>7. QED
  BY <1>4, <1>5, <1>6, <1>v DEF Inserted

(***************************************************************************)
(* A node takes in the range of size w to its right.                       *)
(***************************************************************************)
GrowAt(ns, h, i, w, ms) ==
  /\ ns \in [Slots -> Node] /\ h \in Link /\ Sorted(ns, h) /\ Fused(ns)
  /\ i \in UsedIn(ns) /\ w \in Nat \ {0}
  /\ \A k \in UsedIn(ns) : EndIn(ns, k) <= EndIn(ns, i)
                           \/ EndIn(ns, i) + w <= ns[k].offset
  /\ ms = [ns EXCEPT ![i].size = @ + w]

LEMMA GrowLemma ==
  ASSUME NEW ns, NEW h, NEW i, NEW w, NEW ms, GrowAt(ns, h, i, w, ms)
  PROVE  /\ ms \in [Slots -> Node]
         /\ Sorted(ms, h)
         /\ FusedBut(ms, {i})
         /\ UsedIn(ms) = UsedIn(ns)
         /\ ms[i].next = ns[i].next
         /\ \A x \in Nat : InNode(ms, x) <=>
              InNode(ns, x) \/ (EndIn(ns, i) <= x /\ x < EndIn(ns, i) + w)
<1> DEFINE U == UsedIn(ns)
           V == UsedIn(ms)
<1> USE SlotsFacts
<1>i. /\ ns \in [Slots -> Node] /\ h \in Link /\ Sorted(ns, h) /\ Fused(ns)
      /\ i \in UsedIn(ns) /\ w \in Nat \ {0}
      /\ \A k \in UsedIn(ns) : EndIn(ns, k) <= EndIn(ns, i)
                               \/ EndIn(ns, i) + w <= ns[k].offset
      /\ ms = [ns EXCEPT ![i].size = @ + w]
  BY DEF GrowAt
<1> USE <1>i
<1>s. ASSUME NEW k \in U
      PROVE  /\ k \in Slots /\ ns[k].offset \in Nat /\ EndIn(ns, k) \in Nat
             /\ ns[k].offset < EndIn(ns, k)
  BY NodeFacts
<1>1. ms \in [Slots -> Node]
  BY NodeFacts DEF Node
<1>2. /\ ms[i].offset = ns[i].offset
      /\ ms[i].next = ns[i].next
      /\ ms[i].size = ns[i].size + w
      /\ \A k \in Slots \ {i} : ms[k] = ns[k]
  <2>1. ms[i] = [ns[i] EXCEPT !.size = ns[i].size + w] /\ ns[i] \in Node
    BY NodeFacts
  <2>2. QED
    BY <2>1 DEF Node
<1>3. /\ EndIn(ms, i) = EndIn(ns, i) + w
      /\ \A k \in U : ms[k].offset = ns[k].offset /\ ms[k].next = ns[k].next
      /\ \A k \in U \ {i} : EndIn(ms, k) = EndIn(ns, k)
  BY <1>2, NodeFacts DEF EndIn
<1>4. V = U
  <2>1. ns[i].size \in Nat /\ ns[i].size > 0 /\ i \in Slots
    BY NodeFacts
  <2>2. QED
    BY <1>2, <2>1 DEF UsedIn
\* No used node starts before the end of i and ends after it, i apart.
<1>5. ASSUME NEW k \in U \ {i}
      PROVE  \/ EndIn(ns, k) <= ns[i].offset
             \/ EndIn(ns, i) + w <= ns[k].offset
  <2>1. EndIn(ns, i) <= ns[k].offset \/ EndIn(ns, k) <= ns[i].offset
    BY SortedApart
  <2>2. EndIn(ns, k) <= EndIn(ns, i) => ~ (EndIn(ns, i) <= ns[k].offset)
    BY <1>s
  <2>3. QED
    BY <2>1, <2>2
<1>6. Sorted(ms, h)
  <2>1. /\ h = nullptr <=> V = {}
        /\ h # nullptr => /\ h \in V
                          /\ \A k \in V \ {h} : EndIn(ms, h) <= ms[k].offset
    <3>1. h # nullptr /\ h \in U /\ \A k \in U \ {h} : EndIn(ns, h) <= ns[k].offset
      BY DEF Sorted
    <3>2. CASE h = i
      <4>1. ASSUME NEW k \in U \ {i} PROVE EndIn(ns, i) + w <= ns[k].offset
        <5>1. EndIn(ns, i) <= ns[k].offset
          BY <3>1, <3>2
        <5>2. QED
          BY <5>1, <1>5, <1>s
      <4>2. \A k \in U \ {i} : EndIn(ms, i) <= ms[k].offset
        BY <4>1, <1>3
      <4>3. h # nullptr /\ V # {} /\ i \in V
        BY <3>1, <1>4
      <4>4. QED
        BY <4>2, <4>3, <3>2, <1>4
    <3>3. CASE h # i
      BY <3>1, <3>3, <1>3, <1>4
    <3>4. QED
      BY <3>2, <3>3
  <2>2. ASSUME NEW a \in V, ms[a].next = nullptr, NEW b \in V \ {a}
        PROVE  EndIn(ms, b) <= ms[a].offset
    <3>1. a \in U /\ b \in U /\ EndIn(ns, b) <= ns[a].offset
      BY <2>2, <1>3, <1>4 DEF Sorted
    <3>2. CASE b = i
      <4>1. ~ (EndIn(ns, a) <= ns[i].offset)
        BY <3>1, <3>2, <1>s
      <4>2. EndIn(ns, i) + w <= ns[a].offset
        BY <4>1, <3>1, <3>2, <2>2, <1>5
      <4>3. QED
        BY <4>2, <3>1, <3>2, <1>3
    <3>3. CASE b # i
      BY <3>1, <3>3, <1>3
    <3>4. QED
      BY <3>2, <3>3
  <2>3. ASSUME NEW a \in V, ms[a].next # nullptr
        PROVE  /\ ms[a].next \in V
               /\ EndIn(ms, a) <= ms[ms[a].next].offset
               /\ \A b \in V \ {a, ms[a].next} :
                    \/ EndIn(ms, b) <= ms[a].offset
                    \/ EndIn(ms, ms[a].next) <= ms[b].offset
    <3> DEFINE l == ns[a].next
    <3>1. /\ a \in U /\ ms[a].next = l /\ l \in U /\ EndIn(ns, a) <= ns[l].offset
          /\ \A b \in U \ {a, l} : EndIn(ns, b) <= ns[a].offset \/ EndIn(ns, l) <= ns[b].offset
      BY <2>3, <1>3, <1>4 DEF Sorted
    <3>2. EndIn(ms, a) <= ms[l].offset
      <4>1. CASE a = i
        <5>1. l # i /\ ~ (EndIn(ns, l) <= ns[i].offset)
          BY <4>1, <3>1, <1>s
        <5>2. QED
          BY <5>1, <4>1, <3>1, <1>3, <1>5
      <4>2. CASE a # i
        BY <4>2, <3>1, <1>3
      <4>3. QED
        BY <4>1, <4>2
    <3>3. ASSUME NEW b \in V \ {a, l}
          PROVE  EndIn(ms, b) <= ms[a].offset \/ EndIn(ms, l) <= ms[b].offset
      <4>0. b \in U /\ (EndIn(ns, b) <= ns[a].offset \/ EndIn(ns, l) <= ns[b].offset)
        BY <3>1, <1>4
      <4>1. CASE b = i
        <5>1. EndIn(ns, i) <= ns[a].offset => EndIn(ns, i) + w <= ns[a].offset
          BY <4>1, <3>1, <3>3, <1>5, <1>s
        <5>2. QED
          BY <5>1, <4>0, <4>1, <3>1, <3>3, <1>3
      <4>2. CASE l = i
        <5>1. EndIn(ns, i) <= ns[b].offset => EndIn(ns, i) + w <= ns[b].offset
          BY <4>0, <4>2, <3>3, <1>5, <1>s
        <5>2. QED
          BY <5>1, <4>0, <4>2, <3>1, <3>3, <1>3
      <4>3. CASE b # i /\ l # i
        BY <4>0, <4>3, <3>1, <1>3
      <4>4. QED
        BY <4>1, <4>2, <4>3
    <3>4. QED
      BY <3>1, <3>2, <3>3, <1>4
  <2>4. QED
    BY <2>1, <2>2, <2>3 DEF Sorted
<1>7. FusedBut(ms, {i})
  <2> SUFFICES ASSUME NEW k \in V \ {i}, ms[k].next # nullptr
               PROVE  EndIn(ms, k) # ms[ms[k].next].offset
    BY DEF FusedBut, FusedAt
  <2>1. k \in U /\ ms[k].next = ns[k].next /\ EndIn(ms, k) = EndIn(ns, k)
    BY <1>3, <1>4
  <2>2. ns[k].next \in U /\ EndIn(ns, k) # ns[ns[k].next].offset
    BY <2>1 DEF Sorted, Fused, FusedAt
  <2>3. QED
    BY <2>1, <2>2, <1>3
<1>8. ASSUME NEW x \in Nat
      PROVE  InNode(ms, x) <=>
               InNode(ns, x) \/ (EndIn(ns, i) <= x /\ x < EndIn(ns, i) + w)
  <2>1. ASSUME NEW k \in V, ms[k].offset <= x, x < EndIn(ms, k), k = i
        PROVE  InNode(ns, x) \/ (EndIn(ns, i) <= x /\ x < EndIn(ns, i) + w)
    BY <2>1, <1>3, <1>s DEF InNode
  <2>2. ASSUME NEW k \in V, ms[k].offset <= x, x < EndIn(ms, k), k # i
        PROVE  InNode(ns, x)
    BY <2>2, <1>3, <1>4 DEF InNode
  <2>3. ASSUME NEW k \in U, ns[k].offset <= x, x < EndIn(ns, k) PROVE InNode(ms, x)
    <3>1. CASE k = i
      <4>1. x < EndIn(ns, i) + w
        BY <2>3, <3>1, <1>s
      <4>2. QED
        BY <4>1, <2>3, <3>1, <1>3, <1>4 DEF InNode
    <3>2. CASE k # i
      BY <2>3, <3>2, <1>3, <1>4 DEF InNode
    <3>3. QED
      BY <3>1, <3>2
  <2>4. ASSUME EndIn(ns, i) <= x, x < EndIn(ns, i) + w PROVE InNode(ms, x)
    <3>1. ms[i].offset <= x
      BY <2>4, <1>3, <1>s
    <3>2. QED
      BY <3>1, <2>4, <1>3, <1>4 DEF InNode
  <2>5. QED
    BY <2>1, <2>2, <2>3, <2>4 DEF InNode
<1>9. QED
  BY <1>1, <1>2, <1>4, <1>6, <1>7, <1>8

(***************************************************************************)
(* A node gives up the w bytes at its left end.                            *)
(***************************************************************************)
LEMMA ShrinkLemma ==
  ASSUME NEW ns \in [Slots -> Node], NEW h \in Link, Sorted(ns, h), Fused(ns),
         NEW i \in UsedIn(ns), NEW w \in Nat \ {0}, w < ns[i].size,
         NEW ms, ms = [ns EXCEPT ![i].size = @ - w, ![i].offset = @ + w]
  PROVE  /\ ms \in [Slots -> Node]
         /\ Sorted(ms, h)
         /\ Fused(ms)
         /\ UsedIn(ms) = UsedIn(ns)
         /\ \A x \in Nat : InNode(ms, x) <=>
              InNode(ns, x) /\ ~ (ns[i].offset <= x /\ x < ns[i].offset + w)
<1> DEFINE U == UsedIn(ns)
           V == UsedIn(ms)
<1> USE SlotsFacts
<1>s. ASSUME NEW k \in U
      PROVE  /\ k \in Slots /\ ns[k].offset \in Nat /\ EndIn(ns, k) \in Nat
             /\ ns[k].offset < EndIn(ns, k)
  BY NodeFacts
<1>g. /\ i \in Slots /\ ns[i] \in Node /\ ns[i].offset \in Nat /\ ns[i].size \in Nat
      /\ ns[i].next \in Link
      /\ EndIn(ns, i) = ns[i].offset + ns[i].size
      /\ ns[i].size - w \in Nat /\ ns[i].size - w > 0 /\ ns[i].offset + w \in Nat
  BY NodeFacts
<1>2. /\ ms[i] = [offset |-> ns[i].offset + w, size |-> ns[i].size - w,
                  next |-> ns[i].next]
      /\ \A k \in Slots \ {i} : ms[k] = ns[k]
      /\ ms \in [Slots -> Node]
  BY <1>g DEF Node, Link
<1>3. /\ EndIn(ms, i) = EndIn(ns, i)
      /\ ms[i].offset = ns[i].offset + w
      /\ ms[i].offset > ns[i].offset /\ ms[i].offset < EndIn(ns, i)
      /\ \A k \in U : EndIn(ms, k) = EndIn(ns, k) /\ ms[k].next = ns[k].next
      /\ \A k \in U \ {i} : ms[k].offset = ns[k].offset
      /\ \A k \in U : ns[k].offset <= ms[k].offset /\ ms[k].offset \in Nat
  <2>1. /\ ms[i].offset = ns[i].offset + w /\ ms[i].size = ns[i].size - w
        /\ ms[i].next = ns[i].next
    BY <1>2
  <2>2. EndIn(ms, i) = EndIn(ns, i) /\ ms[i].offset > ns[i].offset /\ ms[i].offset < EndIn(ns, i)
    BY <2>1, <1>g DEF EndIn
  <2>3. ASSUME NEW k \in U \ {i}
        PROVE  EndIn(ms, k) = EndIn(ns, k) /\ ms[k] = ns[k]
    BY <1>2, <1>s DEF EndIn
  <2>4. ASSUME NEW k \in U
        PROVE  ns[k].offset <= ms[k].offset /\ ms[k].offset \in Nat
    <3>1. CASE k = i
      BY <3>1, <2>1, <1>g
    <3>2. CASE k # i
      BY <3>2, <2>3, <1>s
    <3>3. QED
      BY <3>1, <3>2
  <2>5. ASSUME NEW k \in U
        PROVE  EndIn(ms, k) = EndIn(ns, k) /\ ms[k].next = ns[k].next
    BY <2>1, <2>2, <2>3
  <2>6. \A k \in U \ {i} : ms[k].offset = ns[k].offset
    BY <2>3
  <2>7. QED
    BY <2>1, <2>2, <2>4, <2>5, <2>6
<1>4. V = U
  BY <1>2, <1>g DEF UsedIn
<1>6. Sorted(ms, h)
  <2>1. /\ h = nullptr <=> V = {}
        /\ h # nullptr => /\ h \in V
                          /\ \A k \in V \ {h} : EndIn(ms, h) <= ms[k].offset
    <3>1. h # nullptr /\ h \in U /\ \A k \in U \ {h} : EndIn(ns, h) <= ns[k].offset
      BY DEF Sorted
    <3>2. ASSUME NEW k \in U \ {h} PROVE EndIn(ms, h) <= ms[k].offset
      <4>1. /\ EndIn(ns, h) <= ns[k].offset /\ ns[k].offset <= ms[k].offset
            /\ EndIn(ms, h) = EndIn(ns, h)
        BY <3>1, <1>3
      <4>2. QED
        BY <4>1, <3>1, <1>3, <1>s
    <3>3. QED
      BY <3>1, <3>2, <1>4
  <2>2. ASSUME NEW a \in V, ms[a].next = nullptr, NEW b \in V \ {a}
        PROVE  EndIn(ms, b) <= ms[a].offset
    <3>1. /\ a \in U /\ b \in U /\ EndIn(ns, b) <= ns[a].offset
          /\ ns[a].offset <= ms[a].offset /\ EndIn(ms, b) = EndIn(ns, b)
      BY <2>2, <1>3, <1>4 DEF Sorted
    <3>2. QED
      BY <3>1, <1>3, <1>s
  <2>3. ASSUME NEW a \in V, ms[a].next # nullptr
        PROVE  /\ ms[a].next \in V
               /\ EndIn(ms, a) <= ms[ms[a].next].offset
               /\ \A b \in V \ {a, ms[a].next} :
                    \/ EndIn(ms, b) <= ms[a].offset
                    \/ EndIn(ms, ms[a].next) <= ms[b].offset
    <3> DEFINE l == ns[a].next
    <3>1. /\ a \in U /\ ms[a].next = l /\ l \in U /\ EndIn(ns, a) <= ns[l].offset
          /\ \A b \in U \ {a, l} : EndIn(ns, b) <= ns[a].offset \/ EndIn(ns, l) <= ns[b].offset
      BY <2>3, <1>3, <1>4 DEF Sorted
    <3>2. EndIn(ms, a) <= ms[l].offset
      <4>1. EndIn(ms, a) = EndIn(ns, a) /\ ns[l].offset <= ms[l].offset
        BY <3>1, <1>3
      <4>2. QED
        BY <3>1, <4>1, <1>3, <1>s
    <3>3. ASSUME NEW b \in U \ {a, l}
          PROVE  EndIn(ms, b) <= ms[a].offset \/ EndIn(ms, l) <= ms[b].offset
      <4>1. /\ EndIn(ms, b) = EndIn(ns, b) /\ EndIn(ms, l) = EndIn(ns, l)
            /\ ns[a].offset <= ms[a].offset /\ ns[b].offset <= ms[b].offset
            /\ EndIn(ns, b) \in Nat /\ EndIn(ns, l) \in Nat
            /\ ns[a].offset \in Nat /\ ns[b].offset \in Nat
            /\ ms[a].offset \in Nat /\ ms[b].offset \in Nat
        BY <3>1, <1>3, <1>s
      <4>2. EndIn(ns, b) <= ns[a].offset \/ EndIn(ns, l) <= ns[b].offset
        BY <3>1
      <4>3. QED
        BY <4>1, <4>2
    <3>4. QED
      BY <3>1, <3>2, <3>3, <1>4
  <2>4. QED
    BY <2>1, <2>2, <2>3 DEF Sorted
<1>7. Fused(ms)
  <2> SUFFICES ASSUME NEW k \in V, ms[k].next # nullptr
               PROVE  EndIn(ms, k) # ms[ms[k].next].offset
    BY DEF Fused, FusedAt
  <2> DEFINE l == ns[k].next
  <2>1. k \in U /\ ms[k].next = l /\ EndIn(ms, k) = EndIn(ns, k)
    BY <1>3, <1>4
  <2>2. l \in U /\ EndIn(ns, k) # ns[l].offset /\ EndIn(ns, k) <= ns[l].offset
    BY <2>1 DEF Sorted, Fused, FusedAt
  <2>3. ns[l].offset <= ms[l].offset /\ ms[l].offset \in Nat /\ ns[l].offset \in Nat
        /\ EndIn(ns, k) \in Nat
    BY <2>1, <2>2, <1>3, <1>s
  <2>4. QED
    BY <2>1, <2>2, <2>3
<1>8. ASSUME NEW x \in Nat
      PROVE  InNode(ms, x) <=>
               InNode(ns, x) /\ ~ (ns[i].offset <= x /\ x < ns[i].offset + w)
  <2>1. ASSUME NEW k \in V, ms[k].offset <= x, x < EndIn(ms, k)
        PROVE  InNode(ns, x) /\ ~ (ns[i].offset <= x /\ x < ns[i].offset + w)
    <3>1. k \in U /\ ns[k].offset <= x /\ x < EndIn(ns, k)
      <4>1. /\ k \in U /\ EndIn(ms, k) = EndIn(ns, k) /\ ns[k].offset \in Nat
            /\ ns[k].offset <= ms[k].offset /\ ms[k].offset \in Nat
        BY <1>3, <1>4, <1>s
      <4>2. QED
        BY <4>1, <2>1
    <3>2. CASE k = i
      BY <3>1, <3>2, <2>1, <1>3, <1>g DEF InNode
    <3>3. CASE k # i
      <4>1. EndIn(ns, i) <= ns[k].offset \/ EndIn(ns, k) <= ns[i].offset
        BY <3>1, <3>3, SortedApart
      <4>2. ~ (ns[i].offset <= x /\ x < ns[i].offset + w)
        BY <4>1, <3>1, <1>g, <1>s
      <4>3. QED
        BY <4>2, <3>1 DEF InNode
    <3>4. QED
      BY <3>2, <3>3
  <2>2. ASSUME NEW k \in U, ns[k].offset <= x, x < EndIn(ns, k),
               ~ (ns[i].offset <= x /\ x < ns[i].offset + w)
        PROVE  InNode(ms, x)
    <3>1. x < EndIn(ms, k) /\ k \in V
      BY <2>2, <1>3, <1>4
    <3>2. ms[k].offset <= x
      <4>1. CASE k = i
        <5>1. ms[i].offset = ns[i].offset + w /\ ns[i].offset <= x
          BY <4>1, <2>2, <1>3
        <5>2. QED
          BY <4>1, <5>1, <2>2, <1>g
      <4>2. CASE k # i
        BY <4>2, <2>2, <1>3
      <4>3. QED
        BY <4>1, <4>2
    <3>3. QED
      BY <3>1, <3>2 DEF InNode
  <2>3. QED
    BY <2>1, <2>2 DEF InNode
<1>9. QED
  BY <1>2, <1>4, <1>6, <1>7, <1>8

(***************************************************************************)
(* Node i leaves the list: its predecessor p, or the head, takes over its  *)
(* next.                                                                   *)
(***************************************************************************)
LEMMA RemoveLemma ==
  ASSUME NEW ns \in [Slots -> Node], NEW h \in Link, Sorted(ns, h), Fused(ns),
         NEW i \in UsedIn(ns), NEW p \in UsedIn(ns) \cup {nullptr},
         p = nullptr => i = h,
         p # nullptr => ns[p].next = i,
         NEW ms \in [Slots -> Node],
         ms[i] = empty_node,
         p # nullptr => ms[p] = [ns[p] EXCEPT !.next = ns[i].next],
         \A k \in Slots \ {i, p} : ms[k] = ns[k],
         NEW g, g = IF p = nullptr THEN ns[i].next ELSE h
  PROVE  /\ Sorted(ms, g)
         /\ Fused(ms)
         /\ UsedIn(ms) = UsedIn(ns) \ {i}
         /\ \A x \in Nat : InNode(ms, x) <=>
              InNode(ns, x) /\ ~ (ns[i].offset <= x /\ x < EndIn(ns, i))
<1> DEFINE U == UsedIn(ns)
           V == UsedIn(ms)
           q == ns[i].next
<1> USE SlotsFacts
<1>s. ASSUME NEW k \in U
      PROVE  /\ k \in Slots /\ ns[k].offset \in Nat /\ EndIn(ns, k) \in Nat
             /\ ns[k].offset < EndIn(ns, k) /\ k # nullptr
  BY NodeFacts
<1>p. ASSUME p # nullptr
      PROVE  p \in U /\ p # i /\ ns[p].next = i /\ EndIn(ns, p) <= ns[i].offset
  <2>1. p \in U /\ ns[p].next = i /\ EndIn(ns, p) <= ns[i].offset /\ i # nullptr
    BY <1>p, <1>s DEF Sorted
  <2>2. QED
    BY <2>1, <1>s
<1>2. ASSUME NEW k \in U \ {i}
      PROVE  /\ ms[k].offset = ns[k].offset /\ EndIn(ms, k) = EndIn(ns, k)
             /\ k \in V
             /\ k # p => ms[k].next = ns[k].next
             /\ k = p => ms[k].next = q
  <2>1. CASE k = p
    <3>1. /\ ms[k] = [ns[k] EXCEPT !.next = q] /\ ns[k] \in Node /\ k \in Slots
          /\ ns[k].size > 0
      BY <2>1, <1>s, NodeFacts
    <3>2. ms[k].offset = ns[k].offset /\ ms[k].size = ns[k].size /\ ms[k].next = q
      BY <3>1 DEF Node
    <3>3. QED
      BY <3>1, <3>2, <2>1 DEF EndIn, UsedIn
  <2>2. CASE k # p
    <3>1. ms[k] = ns[k]
      BY <2>2, <1>s
    <3>2. QED
      BY <2>2, <3>1, <1>s DEF EndIn, UsedIn
  <2>3. QED
    BY <2>1, <2>2
<1>3. V = U \ {i}
  <2>1. i \notin V
    BY DEF UsedIn, empty_node
  <2>2. ASSUME NEW k \in V PROVE k \in U
    <3>1. CASE k = p
      BY <3>1, <1>p, <2>2 DEF UsedIn
    <3>2. CASE k # p
      BY <3>2, <2>1, <2>2 DEF UsedIn
    <3>3. QED
      BY <3>1, <3>2
  <2>3. QED
    BY <2>1, <2>2, <1>2
\* Only p points at i.
<1>4. ASSUME NEW k \in U \ {i, p} PROVE ns[k].next # i
  <2> SUFFICES ASSUME ns[k].next = i PROVE FALSE
    OBVIOUS
  <2>1. i # nullptr /\ EndIn(ns, k) <= ns[i].offset
    BY <1>s DEF Sorted
  <2>2. CASE p = nullptr
    <3>1. EndIn(ns, i) <= ns[k].offset
      BY <2>2, <1>s DEF Sorted
    <3>2. QED
      BY <3>1, <2>1, <1>s
  <2>3. CASE p # nullptr
    <3>1. EndIn(ns, p) <= ns[k].offset \/ EndIn(ns, i) <= ns[p].offset
      BY <2>1, <2>3, <1>p DEF Sorted
    <3>2. EndIn(ns, k) <= ns[p].offset \/ EndIn(ns, i) <= ns[k].offset
      BY <2>1, <2>3, <1>p DEF Sorted
    <3>3. QED
      BY <3>1, <3>2, <2>1, <2>3, <1>p, <1>s
  <2>4. QED
    BY <2>2, <2>3
\* Where i has a successor, it lies behind i.
<1>5. ASSUME q # nullptr
      PROVE  /\ q \in U \ {i} /\ q # p /\ EndIn(ns, i) <= ns[q].offset
             /\ EndIn(ns, i) # ns[q].offset
             /\ \A b \in U \ {i, q} : EndIn(ns, b) <= ns[i].offset \/ EndIn(ns, q) <= ns[b].offset
  <2>1. /\ q \in U /\ EndIn(ns, i) <= ns[q].offset /\ EndIn(ns, i) # ns[q].offset
        /\ \A b \in U \ {i, q} : EndIn(ns, b) <= ns[i].offset \/ EndIn(ns, q) <= ns[b].offset
    BY <1>5 DEF Sorted, Fused, FusedAt
  <2>2. q # i
    BY <2>1, <1>s
  <2>3. q # p
    <3> SUFFICES ASSUME q = p PROVE FALSE
      OBVIOUS
    <3>1. EndIn(ns, p) <= ns[i].offset /\ EndIn(ns, i) <= ns[p].offset
      BY <2>1, <1>5, <1>p
    <3>2. QED
      BY <3>1, <1>5, <1>p, <1>s
  <2>4. QED
    BY <2>1, <2>2, <2>3
\* With no successor, i is the last.
<1>6. ASSUME q = nullptr, NEW b \in U \ {i} PROVE EndIn(ns, b) <= ns[i].offset
  BY <1>6 DEF Sorted
<1>7. Sorted(ms, g)
  <2>1. /\ g = nullptr <=> V = {}
        /\ g # nullptr => /\ g \in V
                          /\ \A k \in V \ {g} : EndIn(ms, g) <= ms[k].offset
    <3>1. CASE p = nullptr
      <4>1. g = q /\ \A k \in U \ {i} : EndIn(ns, i) <= ns[k].offset
        BY <3>1, <1>s DEF Sorted
      <4>2. CASE q = nullptr
        <5>1. ASSUME NEW k \in U \ {i} PROVE FALSE
          <6>1. EndIn(ns, k) <= ns[i].offset /\ EndIn(ns, i) <= ns[k].offset
            BY <4>1, <4>2, <1>6
          <6>2. QED
            BY <6>1, <1>s
        <5>2. QED
          BY <5>1, <4>1, <4>2, <1>3
      <4>3. CASE q # nullptr
        <5>1. ASSUME NEW b \in U \ {i, q} PROVE EndIn(ns, q) <= ns[b].offset
          <6>1. EndIn(ns, b) <= ns[i].offset \/ EndIn(ns, q) <= ns[b].offset
            BY <4>3, <1>5
          <6>2. EndIn(ns, i) <= ns[b].offset
            BY <4>1
          <6>3. QED
            BY <6>1, <6>2, <1>s
        <5>2. QED
          BY <5>1, <4>1, <4>3, <1>5, <1>2, <1>3
      <4>4. QED
        BY <4>2, <4>3
    <3>2. CASE p # nullptr
      <4>1. /\ g = h /\ h # nullptr /\ h \in U
            /\ \A k \in U \ {h} : EndIn(ns, h) <= ns[k].offset
        BY <3>2, <1>s DEF Sorted
      <4>2. h # i
        <5> SUFFICES ASSUME h = i PROVE FALSE
          OBVIOUS
        <5>1. EndIn(ns, i) <= ns[p].offset /\ EndIn(ns, p) <= ns[i].offset
          BY <4>1, <3>2, <1>p
        <5>2. QED
          BY <5>1, <3>2, <1>p, <1>s
      <4>3. QED
        BY <4>1, <4>2, <1>2, <1>3
    <3>3. QED
      BY <3>1, <3>2
  <2>2. ASSUME NEW a \in V, ms[a].next = nullptr, NEW b \in V \ {a}
        PROVE  EndIn(ms, b) <= ms[a].offset
    <3>0. a \in U \ {i} /\ b \in U \ {i}
      BY <1>3
    <3>1. EndIn(ns, b) <= ns[a].offset
      <4>1. CASE a = p
        <5>1. q = nullptr /\ p # nullptr /\ ns[p].next = i /\ i # nullptr
          BY <4>1, <2>2, <3>0, <1>2, <1>p, <1>s
        <5>2. EndIn(ns, b) <= ns[i].offset
          BY <5>1, <3>0, <1>6
        <5>3. EndIn(ns, b) <= ns[p].offset \/ EndIn(ns, i) <= ns[b].offset
          BY <5>1, <4>1, <3>0 DEF Sorted
        <5>4. QED
          BY <5>2, <5>3, <4>1, <3>0, <1>s
      <4>2. CASE a # p
        BY <4>2, <3>0, <2>2, <1>2 DEF Sorted
      <4>3. QED
        BY <4>1, <4>2
    <3>2. QED
      BY <3>0, <3>1, <1>2
  <2>3. ASSUME NEW a \in V, ms[a].next # nullptr
        PROVE  /\ ms[a].next \in V
               /\ EndIn(ms, a) <= ms[ms[a].next].offset
               /\ \A b \in V \ {a, ms[a].next} :
                    \/ EndIn(ms, b) <= ms[a].offset
                    \/ EndIn(ms, ms[a].next) <= ms[b].offset
    <3>0. a \in U \ {i}
      BY <1>3
    <3>1. CASE a = p
      <4>1. /\ q # nullptr /\ ms[a].next = q /\ p # nullptr
            /\ EndIn(ns, p) <= ns[i].offset
        BY <3>1, <3>0, <2>3, <1>2, <1>p, <1>s
      <4>2. EndIn(ns, p) <= ns[q].offset
        BY <4>1, <1>5, <1>p, <1>s
      <4>3. ASSUME NEW b \in U \ {i, p, q}
            PROVE  EndIn(ns, b) <= ns[p].offset \/ EndIn(ns, q) <= ns[b].offset
        <5>1. EndIn(ns, b) <= ns[p].offset \/ EndIn(ns, i) <= ns[b].offset
          BY <4>1, <1>p, <1>s DEF Sorted
        <5>2. EndIn(ns, b) <= ns[i].offset \/ EndIn(ns, q) <= ns[b].offset
          BY <4>1, <1>5
        <5>3. QED
          BY <5>1, <5>2, <1>s
      <4>4. QED
        BY <4>1, <4>2, <4>3, <3>0, <3>1, <1>2, <1>3, <1>5
    <3>2. CASE a # p
      <4> DEFINE l == ns[a].next
      <4>1. /\ ms[a].next = l /\ l \in U /\ l # i /\ EndIn(ns, a) <= ns[l].offset
            /\ \A b \in U \ {a, l} : EndIn(ns, b) <= ns[a].offset \/ EndIn(ns, l) <= ns[b].offset
        BY <3>0, <3>2, <2>3, <1>2, <1>4 DEF Sorted
      <4>2. QED
        BY <4>1, <3>0, <3>2, <1>2, <1>3
    <3>3. QED
      BY <3>1, <3>2
  <2>4. QED
    BY <2>1, <2>2, <2>3 DEF Sorted
<1>8. Fused(ms)
  <2> SUFFICES ASSUME NEW k \in V, ms[k].next # nullptr
               PROVE  EndIn(ms, k) # ms[ms[k].next].offset
    BY DEF Fused, FusedAt
  <2>0. k \in U \ {i}
    BY <1>3
  <2>1. CASE k = p
    <3>1. /\ ms[k].next = q /\ q # nullptr /\ EndIn(ms, k) = EndIn(ns, k)
          /\ EndIn(ns, p) <= ns[i].offset /\ EndIn(ns, i) <= ns[q].offset
          /\ q \in U \ {i} /\ ms[q].offset = ns[q].offset
      BY <2>0, <2>1, <1>2, <1>p, <1>5, <1>s
    <3>2. EndIn(ns, p) < ns[q].offset
      BY <3>1, <2>0, <2>1, <1>s
    <3>3. QED
      BY <3>1, <3>2, <2>0, <2>1, <1>s
  <2>2. CASE k # p
    <3> DEFINE l == ns[k].next
    <3>1. /\ ms[k].next = l /\ EndIn(ms, k) = EndIn(ns, k) /\ l \in U \ {i}
          /\ EndIn(ns, k) # ns[l].offset
      BY <2>0, <2>2, <1>2, <1>4 DEF Sorted, Fused, FusedAt
    <3>2. QED
      BY <3>1, <1>2
  <2>3. QED
    BY <2>1, <2>2
<1>9. ASSUME NEW x \in Nat
      PROVE  InNode(ms, x) <=>
               InNode(ns, x) /\ ~ (ns[i].offset <= x /\ x < EndIn(ns, i))
  <2>1. ASSUME NEW k \in V, ms[k].offset <= x, x < EndIn(ms, k)
        PROVE  InNode(ns, x) /\ ~ (ns[i].offset <= x /\ x < EndIn(ns, i))
    <3>1. k \in U \ {i} /\ ns[k].offset <= x /\ x < EndIn(ns, k)
      BY <2>1, <1>2, <1>3
    <3>2. EndIn(ns, i) <= ns[k].offset \/ EndIn(ns, k) <= ns[i].offset
      BY <3>1, SortedApart
    <3>3. ~ (ns[i].offset <= x /\ x < EndIn(ns, i))
      BY <3>1, <3>2, <1>s
    <3>4. QED
      BY <3>1, <3>3 DEF InNode
  <2>2. ASSUME NEW k \in U, ns[k].offset <= x, x < EndIn(ns, k),
               ~ (ns[i].offset <= x /\ x < EndIn(ns, i))
        PROVE  InNode(ms, x)
    BY <2>2, <1>2, <1>3 DEF InNode
  <2>3. QED
    BY <2>1, <2>2 DEF InNode
<1>10. QED
  BY <1>3, <1>7, <1>8, <1>9


-----------------------------------------------------------------------------
(***************************************************************************)
(* The inductive invariant.  Cursor, AllocateInv and FreeInv are the loop  *)
(* invariants of the two walks: what the nodes already passed exclude.     *)
(***************************************************************************)
Passed(i) == node = nullptr \/ nodes[i].offset < nodes[node].offset

Cursor ==
  Running =>
    /\ want > 0
    /\ node # nullptr => node \in Used
    /\ previous # nullptr => previous \in Used /\ nodes[previous].next = node
    /\ previous = nullptr => node = head

AllocateInv ==
  pc = "allocate" =>
    /\ freeing = {}
    /\ want \in Sizes
    /\ \A i \in Used : Passed(i) => nodes[i].size < want

FreeInv ==
  pc = "free" =>
    /\ freeing # {} => freeing = {[at |-> at, size |-> want]}
    /\ freeing = {} => want \in Sizes
    /\ freeing = {} => \E i \in Used : Recognised([at |-> at, size |-> want], i)
    /\ \A i \in Used : Passed(i) => End(i) # at /\ nodes[i].offset < at
    /\ node = nullptr /\ Used # {} =>
         \E i \in Used : nodes[i].offset < at /\ at < End(i)

\* Every byte below TotalSize is in a node or in a block, and not in both.
ByteInv ==
  pc # "destroyed" =>
    \A x \in Nat : /\ InNode(nodes, x) \/ InBlock(Owned, x) <=> x < TotalSize
                   /\ ~ (InNode(nodes, x) /\ InBlock(Owned, x))

BlocksApart ==
  /\ \A b \in Owned : b.size > 0
  /\ \A b \in Owned, c \in Owned :
       b # c => b.at + b.size <= c.at \/ c.at + c.size <= b.at

FreeingInv ==
  /\ live \cap freeing = {}
  /\ pc \in {"idle", "destroyed"} => freeing = {}
  /\ pc = "destroyed" => live = {} /\ head = nullptr

IInv ==
  /\ TypeOK
  /\ Links
  /\ Cursor
  /\ AllocateInv
  /\ FreeInv
  /\ ByteInv
  /\ BlocksApart
  /\ FreeingInv

-----------------------------------------------------------------------------
(***************************************************************************)
(* Consequences of the invariant.                                          *)
(***************************************************************************)
LEMMA UsedFacts ==
  ASSUME TypeOK
  PROVE  \A k \in Used : /\ k \in Slots /\ k # nullptr
                         /\ nodes[k].offset \in Nat /\ nodes[k].size \in Nat
                         /\ nodes[k].size > 0 /\ nodes[k].next \in Link
                         /\ End(k) \in Nat /\ End(k) = nodes[k].offset + nodes[k].size
                         /\ nodes[k].offset < End(k)
<1>1. nodes \in [Slots -> Node]
  BY DEF TypeOK
<1>2. /\ UsedIn(nodes) \subseteq Slots
      /\ \A k \in UsedIn(nodes) :
           /\ k # nullptr /\ nodes[k].offset \in Nat /\ nodes[k].size \in Nat
           /\ nodes[k].size > 0 /\ nodes[k].next \in Link
           /\ EndIn(nodes, k) = nodes[k].offset + nodes[k].size
  BY <1>1, NodeFacts, SlotsFacts
<1>3. QED
  BY <1>2 DEF Used, End

\* A free node and a block have no byte in common, and both end in bounds.
LEMMA ByteFacts ==
  ASSUME IInv, pc # "destroyed"
  PROVE  /\ \A k \in Used : End(k) <= TotalSize
         /\ \A b \in Owned : b.at \in Nat /\ b.size \in Nat /\ b.at + b.size <= TotalSize
         /\ \A k \in Used, b \in Owned :
              End(k) <= b.at \/ b.at + b.size <= nodes[k].offset
<1> USE DEF IInv
<1>t. TotalSize \in Nat
  BY TotalSizeAssumption
<1>1. ASSUME NEW k \in Used, NEW x \in Nat, nodes[k].offset <= x, x < End(k)
      PROVE  InNode(nodes, x)
  BY <1>1 DEF InNode, Used, End
<1>2. ASSUME NEW b \in Owned
      PROVE  b.at \in Nat /\ b.size \in Nat /\ b.size > 0
  BY <1>2 DEF TypeOK, Owned, Block, BlocksApart
<1>3. ASSUME NEW b \in Owned, NEW x \in Nat, b.at <= x, x < b.at + b.size
      PROVE  InBlock(Owned, x)
  BY <1>3 DEF InBlock
<1>4. ASSUME NEW k \in Used PROVE End(k) <= TotalSize
  <2> DEFINE x == End(k) - 1
  <2>1. x \in Nat /\ nodes[k].offset <= x /\ x < End(k) /\ End(k) \in Nat
    BY UsedFacts
  <2>2. x < TotalSize
    BY <2>1, <1>1 DEF ByteInv
  <2>3. QED
    BY <2>1, <2>2, <1>t
<1>5. ASSUME NEW b \in Owned PROVE b.at + b.size <= TotalSize
  <2> DEFINE x == b.at + b.size - 1
  <2>1. x \in Nat /\ b.at <= x /\ x < b.at + b.size
    BY <1>2
  <2>2. x < TotalSize
    BY <2>1, <1>3 DEF ByteInv
  <2>3. QED
    BY <2>1, <2>2, <1>2, <1>t
<1>6. ASSUME NEW k \in Used, NEW b \in Owned,
             ~ (End(k) <= b.at), ~ (b.at + b.size <= nodes[k].offset)
      PROVE  FALSE
  <2>1. CASE nodes[k].offset <= b.at
    <3>1. b.at \in Nat /\ b.at < End(k) /\ b.at < b.at + b.size
      BY <1>6, <1>2, UsedFacts
    <3>2. InNode(nodes, b.at) /\ InBlock(Owned, b.at)
      BY <3>1, <2>1, <1>1, <1>3
    <3>3. QED
      BY <3>1, <3>2 DEF ByteInv
  <2>2. CASE b.at < nodes[k].offset
    <3> DEFINE x == nodes[k].offset
    <3>1. x \in Nat /\ x < End(k) /\ x < b.at + b.size /\ b.at <= x /\ x <= x
      BY <1>6, <2>2, <1>2, UsedFacts
    <3>2. InNode(nodes, x) /\ InBlock(Owned, x)
      BY <3>1, <1>1, <1>3
    <3>3. QED
      BY <3>1, <3>2 DEF ByteInv
  <2>3. QED
    BY <2>1, <2>2, <1>2, UsedFacts
<1>7. QED
  BY <1>2, <1>4, <1>5, <1>6

\* The used nodes other than the cursor's are before it or behind its next.
LEMMA PassedNext ==
  ASSUME TypeOK, Links, node \in Used, NEW i \in Used,
         \/ nodes[node].next = nullptr
         \/ nodes[i].offset < nodes[nodes[node].next].offset
  PROVE  i = node \/ nodes[i].offset < nodes[node].offset
<1> DEFINE l == nodes[node].next
<1>1. CASE l = nullptr
  <2>1. i # node => End(i) <= nodes[node].offset
    BY <1>1 DEF Links, Sorted, Used, End
  <2>2. QED
    BY <2>1, UsedFacts
<1>2. CASE l # nullptr
  <2>1. l \in Used /\ (i \notin {node, l} =>
          End(i) <= nodes[node].offset \/ End(l) <= nodes[i].offset)
    BY <1>2 DEF Links, Sorted, Used, End
  <2>2. nodes[i].offset < nodes[l].offset
    BY <1>2
  <2>3. i # l /\ ~ (End(l) <= nodes[i].offset)
    BY <2>1, <2>2, UsedFacts
  <2>4. QED
    BY <2>1, <2>3, UsedFacts
<1>3. QED
  BY <1>1, <1>2

\* Where the head is null there is no used node; else it is the first.
LEMMA HeadFacts ==
  ASSUME TypeOK, Links
  PROVE  /\ head = nullptr => Used = {}
         /\ head # nullptr => head \in Used
         /\ \A i \in Used : head # nullptr /\ nodes[head].offset <= nodes[i].offset
<1>1. /\ head = nullptr => Used = {}
      /\ head # nullptr => head \in Used
      /\ \A i \in Used : head # nullptr /\ (i # head => End(head) <= nodes[i].offset)
  BY DEF Links, Sorted, Used, End
<1>2. QED
  BY <1>1, UsedFacts

(***************************************************************************)
(* What does not move the nodes and the blocks keeps what is said of them. *)
(***************************************************************************)
LEMMA Frame ==
  ASSUME IInv, nodes' = nodes, head' = head, Owned' = Owned, pc # "destroyed"
  PROVE  Links' /\ ByteInv' /\ BlocksApart'
<1>1. Links'
  BY DEF IInv, Links
<1>2. ByteInv'
  BY DEF IInv, ByteInv
<1>3. BlocksApart'
  BY DEF IInv, BlocksApart
<1>4. QED
  BY <1>1, <1>2, <1>3

\* A block [o, want] cut out of the free node at the cursor.
LEMMA GrantFacts ==
  ASSUME IInv, pc = "allocate", node \in Used, NEW o \in Nat,
         nodes[node].offset <= o, o + want <= End(node),
         Grant(o),
         \A x \in Nat : InNode(nodes', x) <=>
           InNode(nodes, x) /\ ~ (o <= x /\ x < o + want)
  PROVE  ByteInv' /\ BlocksApart' /\ FreeingInv' /\ live' \in SUBSET Block
<1> DEFINE d == [at |-> o, size |-> want]
<1>1. /\ want \in Nat /\ want > 0 /\ d \in Block /\ d.at = o /\ d.size = want
      /\ freeing = {} /\ freeing' = {} /\ pc' = "idle" /\ live' = live \cup {d}
  BY DEF IInv, TypeOK, Cursor, Running, AllocateInv, Grant, Return, Block
<1>2. Owned' = Owned \cup {d}
  BY <1>1 DEF Owned
<1>3. ASSUME NEW b \in Owned
      PROVE  /\ b.at \in Nat /\ b.size \in Nat
             /\ d.at + d.size <= b.at \/ b.at + b.size <= d.at
  <2>1. End(node) <= b.at \/ b.at + b.size <= nodes[node].offset
    BY ByteFacts
  <2>2. b.at \in Nat /\ b.size \in Nat
    BY ByteFacts
  <2>3. End(node) \in Nat /\ nodes[node].offset \in Nat
    BY UsedFacts DEF IInv
  <2>4. QED
    BY <2>1, <2>2, <2>3, <1>1
<1>4. BlocksApart'
  BY <1>1, <1>2, <1>3 DEF BlocksApart, IInv
<1>5. ASSUME NEW x \in Nat
      PROVE  /\ InBlock(Owned', x) <=> InBlock(Owned, x) \/ (o <= x /\ x < o + want)
             /\ o <= x /\ x < o + want => InNode(nodes, x)
  <2>1. InBlock(Owned', x) <=> InBlock(Owned, x) \/ (o <= x /\ x < o + want)
    BY <1>1, <1>2 DEF InBlock
  <2>2. ASSUME o <= x, x < o + want PROVE InNode(nodes, x)
    <3>1. nodes[node].offset <= x /\ x < End(node)
      BY <2>2, <1>1, UsedFacts DEF IInv
    <3>2. QED
      BY <3>1 DEF InNode, Used, End
  <2>3. QED
    BY <2>1, <2>2
<1>6. ByteInv'
  BY <1>1, <1>5 DEF ByteInv, IInv
<1>7. QED
  BY <1>1, <1>4, <1>6 DEF FreeingInv, IInv, TypeOK

\* The block of a running free given back to the nodes.
LEMMA GiveBackFacts ==
  ASSUME IInv, pc = "free", freeing = {[at |-> at, size |-> want]},
         Return(TRUE, at), live' = live,
         \A x \in Nat : InNode(nodes', x) <=>
           InNode(nodes, x) \/ (at <= x /\ x < at + want)
  PROVE  ByteInv' /\ BlocksApart' /\ FreeingInv' /\ live' \in SUBSET Block
<1> DEFINE d == [at |-> at, size |-> want]
<1>1. /\ d \in Owned /\ d.at = at /\ d.size = want /\ at \in Nat /\ want \in Nat
      /\ d \notin live /\ Owned = live \cup {d} /\ Owned' = live
      /\ freeing' = {} /\ pc' = "idle"
  BY DEF IInv, TypeOK, FreeingInv, Owned, Return
<1>2. BlocksApart'
  BY <1>1 DEF BlocksApart, IInv
<1>3. ASSUME NEW x \in Nat
      PROVE  /\ InBlock(Owned, x) <=> InBlock(Owned', x) \/ (at <= x /\ x < at + want)
             /\ ~ (InBlock(Owned', x) /\ at <= x /\ x < at + want)
  <2>1. InBlock(Owned, x) <=> InBlock(Owned', x) \/ (at <= x /\ x < at + want)
    BY <1>1 DEF InBlock
  <2>2. ASSUME NEW b \in live, b.at <= x, x < b.at + b.size, at <= x, x < at + want
        PROVE  FALSE
    <3>1. /\ b.at + b.size <= d.at \/ d.at + d.size <= b.at
          /\ b.at \in Nat /\ b.size \in Nat
      BY <1>1, <2>2, ByteFacts DEF BlocksApart, IInv
    <3>2. QED
      BY <3>1, <2>2, <1>1
  <2>3. QED
    BY <2>1, <2>2, <1>1 DEF InBlock
<1>4. ByteInv'
  BY <1>1, <1>3 DEF ByteInv, IInv
<1>5. QED
  BY <1>1, <1>2, <1>4 DEF FreeingInv, IInv, TypeOK

\* A call that returns leaves no cursor and a typed answer.
LEMMA ReturnFacts ==
  ASSUME TypeOK, Running, NEW ok \in BOOLEAN, NEW o \in Nat, Return(ok, o),
         nodes' \in [Slots -> Node], head' \in Link, live' \in SUBSET Block
  PROVE  TypeOK' /\ Cursor' /\ AllocateInv' /\ FreeInv'
BY SlotsFacts DEF TypeOK, Running, Return, Cursor, AllocateInv, FreeInv, Link, Faults, Block

\* What a call that is granted, or a free that is done, does to the bytes.
Granted(o) ==
  \A x \in Nat : InNode(nodes', x) <=>
    InNode(nodes, x) /\ ~ (o <= x /\ x < o + want)

GivenBack ==
  \A x \in Nat : InNode(nodes', x) <=>
    InNode(nodes, x) \/ (at <= x /\ x < at + want)

-----------------------------------------------------------------------------
(***************************************************************************)
(* Every step preserves the invariant.                                     *)
(***************************************************************************)
LEMMA InitInv == Init => IInv
<1> SUFFICES ASSUME Init PROVE IInv
  OBVIOUS
<1> USE SlotsFacts DEF Init
<1>t. TotalSize \in Nat /\ TotalSize > 0
  BY TotalSizeAssumption
<1>1. /\ nodes \in [Slots -> Node]
      /\ nodes[0] = [offset |-> 0, size |-> TotalSize, next |-> nullptr]
      /\ \A k \in Slots \ {0} : nodes[k] = empty_node
  BY <1>t DEF first_nodes, Node, empty_node
<1>2. UsedIn(nodes) = {0} /\ EndIn(nodes, 0) = TotalSize
  <2>1. nodes[0].size = TotalSize /\ nodes[0].offset = 0
    BY <1>1
  <2>2. \A k \in Slots \ {0} : nodes[k].size = 0
    <3>1. empty_node.size = 0
      BY DEF empty_node
    <3>2. QED
      BY <1>1, <3>1
  <2>3. \A k \in Slots : k \in UsedIn(nodes) <=> k = 0
    BY <2>1, <2>2, <1>t DEF UsedIn
  <2>4. UsedIn(nodes) \subseteq Slots
    BY DEF UsedIn
  <2>5. EndIn(nodes, 0) = TotalSize
    BY <2>1, <1>t DEF EndIn
  <2>6. QED
    BY <2>3, <2>4, <2>5
<1>3. TypeOK
  BY <1>1 DEF TypeOK
<1>4. Links
  BY <1>1, <1>2 DEF Links, Sorted, Fused, FusedAt
<1>5. ByteInv
  BY <1>1, <1>2, <1>t DEF ByteInv, InNode, InBlock, Owned
<1>6. QED
  BY <1>3, <1>4, <1>5
     DEF IInv, Cursor, Running, AllocateInv, FreeInv, BlocksApart, FreeingInv, Owned

LEMMA CallAllocateInv ==
  ASSUME IInv, NEW n \in Sizes, CallAllocate(n) PROVE IInv'
<1>1. /\ pc = "idle" /\ pc' = "allocate" /\ node' = head /\ previous' = nullptr
      /\ want' = n /\ at' = 0 /\ nodes' = nodes /\ head' = head
      /\ live' = live /\ freeing' = freeing /\ answer' = answer /\ freeing = {}
  BY DEF CallAllocate, Enter, IInv, FreeingInv
<1>2. n \in Nat /\ n > 0
  BY SizesAssumption
<1>3. TypeOK'
  BY <1>1, <1>2 DEF IInv, TypeOK
<1>4. Links' /\ ByteInv' /\ BlocksApart'
  BY <1>1, Frame DEF Owned
<1>5. Cursor'
  BY <1>1, <1>2, HeadFacts DEF IInv, Cursor, Used, Running
<1>6. AllocateInv'
  <2>1. ASSUME NEW i \in Used PROVE ~ (head = nullptr \/ nodes[i].offset < nodes[head].offset)
    BY <2>1, HeadFacts, UsedFacts DEF IInv
  <2>2. QED
    BY <2>1, <1>1 DEF AllocateInv, Passed, Used
<1>7. QED
  BY <1>1, <1>3, <1>4, <1>5, <1>6 DEF IInv, FreeInv, FreeingInv

LEMMA CallFreeInv ==
  ASSUME IInv, NEW b \in live, CallFree(b) PROVE IInv'
<1>1. /\ pc = "idle" /\ pc' = "free" /\ node' = head /\ previous' = nullptr
      /\ want' = b.size /\ at' = b.at /\ nodes' = nodes /\ head' = head
      /\ live' = live \ {b} /\ freeing' = {b} /\ answer' = answer /\ freeing = {}
  BY DEF CallFree, Enter, IInv, FreeingInv
<1>2. b \in Block /\ b.size > 0 /\ b = [at |-> b.at, size |-> b.size]
      /\ b.at \in Nat /\ b.size \in Nat
  BY DEF IInv, TypeOK, BlocksApart, Owned, Block
<1>3. TypeOK'
  BY <1>1, <1>2 DEF IInv, TypeOK
<1>4. Links' /\ ByteInv' /\ BlocksApart'
  BY <1>1, Frame DEF Owned
<1>5. Cursor'
  BY <1>1, <1>2, HeadFacts DEF IInv, Cursor, Used, Running
<1>6. FreeInv'
  <2>1. ASSUME NEW i \in Used PROVE ~ (head = nullptr \/ nodes[i].offset < nodes[head].offset)
    BY <2>1, HeadFacts, UsedFacts DEF IInv
  <2>2. QED
    BY <2>1, <1>1, <1>2 DEF FreeInv, Passed, Used
<1>7. QED
  BY <1>1, <1>3, <1>4, <1>5, <1>6 DEF IInv, AllocateInv, FreeingInv

LEMMA CallFreeAgainInv ==
  ASSUME IInv, NEW n \in Sizes, NEW o \in Nat,
         CallFreeAgain([at |-> o, size |-> n])
  PROVE  IInv'
<1> DEFINE b == [at |-> o, size |-> n]
<1>1. /\ pc = "idle" /\ pc' = "free" /\ node' = head /\ previous' = nullptr
      /\ want' = n /\ at' = o /\ nodes' = nodes /\ head' = head
      /\ live' = live /\ freeing' = freeing /\ answer' = answer /\ freeing = {}
      /\ \E i \in Used : Recognised(b, i)
  BY DEF CallFreeAgain, Enter, IInv, FreeingInv
<1>2. n \in Nat /\ n > 0
  BY SizesAssumption
<1>3. TypeOK'
  BY <1>1, <1>2 DEF IInv, TypeOK
<1>4. Links' /\ ByteInv' /\ BlocksApart'
  BY <1>1, Frame DEF Owned
<1>5. Cursor'
  BY <1>1, <1>2, HeadFacts DEF IInv, Cursor, Used, Running
<1>6. FreeInv'
  <2>1. ASSUME NEW i \in Used PROVE ~ (head = nullptr \/ nodes[i].offset < nodes[head].offset)
    BY <2>1, HeadFacts, UsedFacts DEF IInv
  <2>2. (\E i \in Used : Recognised([at |-> at, size |-> want], i))'
    BY <1>1 DEF Recognised, Used, End, EndIn
  <2>3. QED
    BY <2>1, <2>2, <1>1 DEF FreeInv, Passed, Used
<1>7. QED
  BY <1>1, <1>3, <1>4, <1>5, <1>6 DEF IInv, AllocateInv, FreeingInv

\* Both walks move on from a used node.
LEMMA AdvanceFacts ==
  ASSUME IInv, Running, node \in Used, Advance
  PROVE  /\ TypeOK' /\ Links' /\ Cursor' /\ ByteInv' /\ BlocksApart' /\ FreeingInv'
         /\ \A i \in Used : Passed(i)' => i = node \/ Passed(i)
<1>1. /\ previous' = node /\ node' = nodes[node].next /\ pc' = pc /\ nodes' = nodes
      /\ head' = head /\ want' = want /\ at' = at /\ live' = live
      /\ freeing' = freeing /\ answer' = answer /\ pc \in {"allocate", "free"}
  BY DEF Advance, Running
<1>2. TypeOK'
  BY <1>1, UsedFacts DEF IInv, TypeOK, Link
<1>3. Links' /\ ByteInv' /\ BlocksApart'
  BY <1>1, Frame DEF Owned
<1>4. Cursor'
  <2>1. nodes[node].next # nullptr => nodes[node].next \in Used
    BY DEF IInv, Links, Sorted, Used
  <2>2. want > 0 /\ node # nullptr
    BY UsedFacts DEF IInv, Cursor
  <2>3. QED
    BY <2>1, <2>2, <1>1 DEF Cursor, Running, Used
<1>5. FreeingInv'
  BY <1>1 DEF FreeingInv, IInv
<1>6. ASSUME NEW i \in Used, Passed(i)' PROVE i = node \/ Passed(i)
  <2>1. \/ nodes[node].next = nullptr
        \/ nodes[i].offset < nodes[nodes[node].next].offset
    BY <1>1, <1>6 DEF Passed
  <2>2. QED
    BY <2>1, PassedNext DEF IInv, Passed
<1>7. QED
  BY <1>2, <1>3, <1>4, <1>5, <1>6

LEMMA AllocateAdvanceInv ==
  ASSUME IInv, AllocateAdvance PROVE IInv'
<1>1. /\ pc = "allocate" /\ node \in Used /\ nodes[node].size < want /\ Advance
      /\ Running
  BY DEF AllocateAdvance, IInv, Cursor, Running
<1>2. AllocateInv'
  <2>1. /\ nodes' = nodes /\ want' = want /\ freeing' = freeing /\ freeing = {}
        /\ want \in Sizes
    BY <1>1 DEF Advance, IInv, AllocateInv
  <2>2. ASSUME NEW i \in Used, Passed(i)' PROVE nodes[i].size < want
    BY <2>2, <1>1, AdvanceFacts DEF IInv, AllocateInv
  <2>3. QED
    BY <2>1, <2>2 DEF AllocateInv, Used
<1>3. FreeInv'
  BY <1>1 DEF FreeInv, Advance
<1>4. QED
  BY <1>1, <1>2, <1>3, AdvanceFacts DEF IInv

LEMMA FreeAdvanceInv ==
  ASSUME IInv, FreeAdvance PROVE IInv'
<1>1. /\ pc = "free" /\ node \in Used /\ End(node) # at /\ nodes[node].offset < at
      /\ ~ (nodes[node].next = nullptr /\ End(node) < at) /\ Advance
      /\ Running
  BY DEF FreeAdvance, IInv, Cursor, Running
<1>2. /\ nodes' = nodes /\ want' = want /\ freeing' = freeing /\ at' = at
      /\ node' = nodes[node].next /\ Used' = Used
  BY <1>1 DEF Advance, Used
<1>3. FreeInv'
  <2>1. ASSUME NEW i \in Used, Passed(i)' PROVE End(i) # at /\ nodes[i].offset < at
    BY <2>1, <1>1, AdvanceFacts DEF IInv, FreeInv
  <2>2. ASSUME node' = nullptr PROVE nodes[node].offset < at /\ at < End(node)
    <3>1. ~ (End(node) < at) /\ End(node) \in Nat /\ at \in Nat
      BY <2>2, <1>1, <1>2, UsedFacts DEF IInv, TypeOK
    <3>2. QED
      BY <3>1, <1>1
  <2>3. /\ freeing # {} => freeing = {[at |-> at, size |-> want]}
        /\ freeing = {} => want \in Sizes
        /\ freeing = {} => \E i \in Used : Recognised([at |-> at, size |-> want], i)
    BY <1>1 DEF IInv, FreeInv
  <2>4. \A i \in Used : End(i)' = End(i) /\ nodes'[i].offset = nodes[i].offset
    BY <1>2 DEF End, EndIn
  <2>5. (\E i \in Used : Recognised([at |-> at, size |-> want], i))
         => (\E i \in Used : Recognised([at |-> at, size |-> want], i))'
    BY <1>2, <2>4 DEF Recognised
  <2>6. QED
    BY <2>1, <2>2, <2>3, <2>4, <2>5, <1>1, <1>2 DEF FreeInv
<1>4. AllocateInv'
  BY <1>1 DEF AllocateInv, Advance
<1>5. QED
  BY <1>1, <1>3, <1>4, AdvanceFacts DEF IInv

LEMMA AllocateRefusedInv ==
  ASSUME IInv, AllocateRefused PROVE IInv'
<1>1. /\ Running /\ Return(FALSE, 0) /\ nodes' = nodes /\ head' = head /\ live' = live
      /\ freeing = {} /\ freeing' = {} /\ pc' = "idle" /\ pc = "allocate"
  BY DEF AllocateRefused, Running, Return, IInv, AllocateInv
<1>2. TypeOK' /\ Cursor' /\ AllocateInv' /\ FreeInv'
  BY <1>1, ReturnFacts DEF IInv, TypeOK, Link
<1>3. Links' /\ ByteInv' /\ BlocksApart'
  BY <1>1, Frame DEF Owned
<1>4. QED
  BY <1>1, <1>2, <1>3 DEF IInv, FreeingInv

LEMMA AllocateSplitInv ==
  ASSUME IInv, AllocateSplit PROVE IInv' /\ Granted(nodes[node].offset)
<1> DEFINE o == nodes[node].offset
<1>1. /\ Running /\ pc = "allocate" /\ node \in Used /\ nodes[node].size > want
      /\ nodes' = [nodes EXCEPT ![node].size = @ - want, ![node].offset = @ + want]
      /\ Grant(o) /\ head' = head /\ want \in Nat /\ want > 0 /\ Return(TRUE, o)
  BY DEF AllocateSplit, Grant, IInv, TypeOK, Cursor, Running
<1>2. /\ nodes \in [Slots -> Node] /\ head \in Link /\ Links /\ o \in Nat
      /\ End(node) = o + nodes[node].size /\ nodes[node].size \in Nat
  BY <1>1, UsedFacts DEF IInv, TypeOK, Link
<1>3. /\ nodes' \in [Slots -> Node] /\ Sorted(nodes', head) /\ Fused(nodes')
      /\ \A x \in Nat : InNode(nodes', x) <=>
           InNode(nodes, x) /\ ~ (o <= x /\ x < o + want)
  <2>1. /\ Sorted(nodes, head) /\ Fused(nodes) /\ node \in UsedIn(nodes)
        /\ want \in Nat \ {0} /\ want < nodes[node].size
    BY <1>1, <1>2 DEF Links, Used
  <2>2. \A ms : ms = [nodes EXCEPT ![node].size = @ - want, ![node].offset = @ + want] =>
          /\ ms \in [Slots -> Node] /\ Sorted(ms, head) /\ Fused(ms)
          /\ \A x \in Nat : InNode(ms, x) <=>
               InNode(nodes, x) /\ ~ (o <= x /\ x < o + want)
    BY <2>1, <1>2, ShrinkLemma
  <2>3. QED
    BY <2>2, <1>1
<1>4. ByteInv' /\ BlocksApart' /\ FreeingInv' /\ live' \in SUBSET Block
  <2>1. o <= o /\ o + want <= End(node)
    BY <1>1, <1>2
  <2>2. QED
    BY <2>1, <1>1, <1>2, <1>3, GrantFacts
<1>5. TypeOK' /\ Cursor' /\ AllocateInv' /\ FreeInv'
  BY <1>1, <1>2, <1>3, <1>4, ReturnFacts DEF IInv
<1>6. QED
  BY <1>1, <1>3, <1>4, <1>5 DEF IInv, Links, Granted

LEMMA AllocateExactInv ==
  ASSUME IInv, AllocateExact PROVE IInv' /\ Granted(nodes[node].offset)
<1> DEFINE o == nodes[node].offset
           l == nodes[node].next
<1>1. /\ Running /\ pc = "allocate" /\ node \in Used /\ nodes[node].size = want
      /\ Grant(o) /\ want \in Nat /\ want > 0 /\ Return(TRUE, o)
  BY DEF AllocateExact, Grant, IInv, TypeOK, Cursor, Running
<1>2. /\ nodes \in [Slots -> Node] /\ head \in Link /\ Links /\ o \in Nat
      /\ End(node) = o + want /\ node \in Slots /\ node # nullptr /\ l \in Link
  BY <1>1, UsedFacts DEF IInv, TypeOK, Link
<1>3. /\ previous \in Used \cup {nullptr}
      /\ previous = nullptr => node = head
      /\ previous # nullptr => previous \in Slots /\ nodes[previous].next = node
                               /\ previous # node
  <2>1. ASSUME previous # nullptr
        PROVE  previous \in Used /\ nodes[previous].next = node /\ previous # node
    <3>1. previous \in Used /\ nodes[previous].next = node
      BY <2>1, <1>1 DEF IInv, Cursor
    <3>2. End(previous) <= nodes[node].offset
      BY <3>1, <1>2 DEF Links, Sorted, Used, End
    <3>3. QED
      BY <3>1, <3>2, UsedFacts DEF IInv
  <2>2. QED
    BY <2>1, <1>1, UsedFacts DEF IInv, Cursor
<1>4. /\ nodes' \in [Slots -> Node] /\ nodes'[node] = empty_node
      /\ previous # nullptr => nodes'[previous] = [nodes[previous] EXCEPT !.next = l]
      /\ \A k \in Slots \ {node, previous} : nodes'[k] = nodes[k]
      /\ head' = IF previous = nullptr THEN l ELSE head
  <2>1. empty_node \in Node
    BY DEF empty_node, Node
  <2>2. CASE previous = nullptr
    <3>1. nodes' = [nodes EXCEPT ![node] = empty_node] /\ head' = l
      BY <2>2, <1>3 DEF AllocateExact
    <3>2. QED
      BY <3>1, <2>1, <2>2, <1>2
  <2>3. CASE previous # nullptr
    <3>1. /\ nodes' = [nodes EXCEPT ![previous].next = l, ![node] = empty_node]
          /\ head' = head
      BY <2>3 DEF AllocateExact
    <3>2. [nodes[previous] EXCEPT !.next = l] \in Node
      BY <2>3, <1>2, <1>3 DEF Node, Link
    <3>3. QED
      BY <3>1, <3>2, <2>1, <2>3, <1>2, <1>3
  <2>4. QED
    BY <2>2, <2>3
<1>5. /\ Sorted(nodes', head') /\ Fused(nodes')
      /\ \A x \in Nat : InNode(nodes', x) <=>
           InNode(nodes, x) /\ ~ (o <= x /\ x < EndIn(nodes, node))
  BY <1>1, <1>2, <1>3, <1>4, RemoveLemma DEF Links, Used
<1>g. Granted(o)
  BY <1>2, <1>5 DEF End, Granted
<1>6. ByteInv' /\ BlocksApart' /\ FreeingInv' /\ live' \in SUBSET Block
  <2>1. o <= o /\ o + want <= End(node)
    BY <1>1, <1>2
  <2>2. QED
    BY <2>1, <1>g, <1>1, <1>2, GrantFacts DEF Granted
<1>7. TypeOK' /\ Cursor' /\ AllocateInv' /\ FreeInv'
  BY <1>1, <1>2, <1>4, <1>6, ReturnFacts DEF IInv
<1>8. QED
  BY <1>g, <1>5, <1>6, <1>7 DEF IInv, Links

(***************************************************************************)
(* A range freed again never gets past the node it lies in: only the       *)
(* refusals are enabled.                                                   *)
(***************************************************************************)
LEMMA FreeAgainFacts ==
  ASSUME IInv, pc = "free", freeing = {}
  PROVE  ~ (FreeIntoEmptyList \/ FreeAtRightEnd \/ FreeBefore \/ FreeAfterLast)
<1>1. /\ TypeOK /\ Links /\ want \in Nat /\ at \in Nat /\ want > 0
  BY DEF IInv, TypeOK, Cursor, Running
<1>2. PICK i \in Used : Recognised([at |-> at, size |-> want], i)
  BY DEF IInv, FreeInv
<1>3. /\ at < End(i) /\ nodes[i].offset <= at
      /\ nodes[i].offset \in Nat /\ End(i) \in Nat
      /\ nodes[i].offset = at \/ (nodes[i].next = nullptr /\ nodes[i].offset < at)
  <2>1. /\ at + want <= End(i)
        /\ nodes[i].offset = at \/ (nodes[i].next = nullptr /\ nodes[i].offset < at)
    BY <1>2 DEF Recognised
  <2>2. QED
    BY <2>1, <1>1, UsedFacts
<1>4. node # nullptr => node \in Used
  BY DEF IInv, Cursor, Running
<1>5. ASSUME NEW k \in Used, nodes[k].next = nullptr
      PROVE  i = k \/ End(i) <= nodes[k].offset
  BY <1>5, <1>1 DEF Links, Sorted, Used, End
<1>6. ~ FreeIntoEmptyList
  BY <1>1, <1>2, HeadFacts DEF FreeIntoEmptyList
<1>7. ASSUME FreeAtRightEnd PROVE FALSE
  <2>1. node \in Used /\ End(node) = at
    BY <1>4, <1>7 DEF FreeAtRightEnd
  <2>2. node # i
    BY <2>1, <1>3
  <2>3. End(node) <= nodes[i].offset \/ End(i) <= nodes[node].offset
    BY <2>2, <2>1, <1>1, SortedApart DEF Links, Used, End, TypeOK, Link
  <2>4. nodes[node].offset \in Nat /\ nodes[node].offset < End(node)
    BY <2>1, <1>1, UsedFacts
  <2>5. nodes[i].offset = at
    BY <2>1, <2>3, <2>4, <1>1, <1>3
  <2>6. CASE nodes[node].next = nullptr
    BY <2>6, <2>1, <2>2, <2>4, <1>5, <1>3, <1>1
  <2>7. CASE nodes[node].next # nullptr
    <3> DEFINE l == nodes[node].next
    <3>1. /\ l \in Used /\ End(node) <= nodes[l].offset /\ End(node) # nodes[l].offset
          /\ i # l => End(i) <= nodes[node].offset \/ End(l) <= nodes[i].offset
      BY <2>1, <2>2, <2>7, <1>1 DEF Links, Sorted, Fused, FusedAt, Used, End
    <3>2. nodes[l].offset \in Nat /\ End(l) \in Nat /\ nodes[l].offset < End(l)
      BY <3>1, <1>1, UsedFacts
    <3>3. QED
      BY <3>1, <3>2, <2>1, <2>4, <2>5, <1>1, <1>3
  <2>8. QED
    BY <2>6, <2>7
<1>8. ASSUME FreeBefore PROVE FALSE
  <2>1. node \in Used /\ nodes[node].offset > at /\ nodes[node].offset \in Nat
    BY <1>4, <1>8, <1>1, UsedFacts DEF FreeBefore
  <2>2. nodes[i].offset < nodes[node].offset
    BY <2>1, <1>1, <1>3
  <2>3. nodes[i].offset < at
    BY <2>2 DEF IInv, FreeInv, Passed
  <2>4. nodes[i].next = nullptr
    BY <2>3, <1>1, <1>3
  <2>5. End(node) <= nodes[i].offset
    BY <2>1, <2>2, <2>4, <1>1 DEF Links, Sorted, Used, End
  <2>6. QED
    BY <2>1, <2>2, <2>5, <1>1, <1>3, UsedFacts
<1>9. ASSUME FreeAfterLast PROVE FALSE
  <2>1. /\ node \in Used /\ nodes[node].next = nullptr /\ End(node) < at
        /\ nodes[node].offset \in Nat /\ nodes[node].offset < End(node) /\ End(node) \in Nat
    BY <1>4, <1>9, <1>1, UsedFacts DEF FreeAfterLast
  <2>2. i = node \/ End(i) <= nodes[node].offset
    BY <2>1, <1>5
  <2>3. QED
    BY <2>1, <2>2, <1>1, <1>3
<1>10. QED
  BY <1>6, <1>7, <1>8, <1>9

\* A block given back is apart from every free node.
LEMMA FreeingFacts ==
  ASSUME IInv, pc = "free", freeing # {}
  PROVE  /\ freeing = {[at |-> at, size |-> want]}
         /\ at \in Nat /\ want \in Nat \ {0} /\ Running
         /\ \A k \in Used : End(k) <= at \/ at + want <= nodes[k].offset
<1> DEFINE d == [at |-> at, size |-> want]
<1>1. /\ freeing = {d} /\ at \in Nat /\ want \in Nat \ {0} /\ Running
  BY DEF IInv, FreeInv, TypeOK, Cursor, Running
<1>2. d \in Owned /\ d.at = at /\ d.size = want
  BY <1>1 DEF Owned
<1>3. QED
  BY <1>1, <1>2, ByteFacts

\* A free that ends: the nodes took the block in.
LEMMA FreeDone ==
  ASSUME IInv, pc = "free", freeing # {}, Return(TRUE, at), live' = live,
         nodes' \in [Slots -> Node], head' \in Link,
         Sorted(nodes', head'), Fused(nodes'),
         \A x \in Nat : InNode(nodes', x) <=>
           InNode(nodes, x) \/ (at <= x /\ x < at + want)
  PROVE  IInv' /\ GivenBack
<1>1. ByteInv' /\ BlocksApart' /\ FreeingInv' /\ live' \in SUBSET Block
  BY FreeingFacts, GiveBackFacts
<1>2. TypeOK' /\ Cursor' /\ AllocateInv' /\ FreeInv'
  BY <1>1, FreeingFacts, ReturnFacts DEF IInv
<1>3. QED
  BY <1>1, <1>2 DEF IInv, Links, GivenBack

\* A refused free, and a fault, move neither nodes nor blocks; a refused
\* free was not of a block.
LEMMA LiveIsFreed ==
  ASSUME IInv, FreeTwice \/ FreeNotFound PROVE freeing = {} /\ pc = "free"
<1>1. pc = "free"
  BY DEF FreeTwice, FreeNotFound
<1>2. ASSUME freeing # {}, FreeTwice PROVE FALSE
  <2>1. node \in Used /\ nodes[node].offset = at
    BY <1>1, <1>2 DEF FreeTwice, IInv, Cursor, Running
  <2>2. End(node) <= at \/ at + want <= nodes[node].offset
    BY <2>1, <1>1, <1>2, FreeingFacts
  <2>3. at \in Nat /\ want \in Nat /\ want > 0 /\ nodes[node].offset < End(node)
        /\ End(node) \in Nat
    BY <2>1, <1>1, <1>2, FreeingFacts, UsedFacts DEF IInv
  <2>4. QED
    BY <2>1, <2>2, <2>3
<1>3. ASSUME freeing # {}, FreeNotFound PROVE FALSE
  <2>1. node = nullptr /\ Used # {}
    BY <1>3, HeadFacts DEF FreeNotFound, IInv
  <2>2. PICK i \in Used : nodes[i].offset < at /\ at < End(i)
    BY <2>1, <1>1 DEF IInv, FreeInv
  <2>3. End(i) <= at \/ at + want <= nodes[i].offset
    BY <1>1, <1>3, FreeingFacts
  <2>4. at \in Nat /\ want \in Nat /\ want > 0 /\ nodes[i].offset \in Nat
        /\ End(i) \in Nat
    BY <1>1, <1>3, FreeingFacts, UsedFacts DEF IInv
  <2>5. QED
    BY <2>2, <2>3, <2>4
<1>4. QED
  BY <1>1, <1>2, <1>3

LEMMA FreeRefusedInv ==
  ASSUME IInv, FreeTwice \/ FreeNotFound PROVE IInv'
<1>1. /\ Running /\ Return(FALSE, at) /\ nodes' = nodes /\ head' = head /\ live' = live
      /\ freeing = {} /\ freeing' = {} /\ pc' = "idle" /\ pc = "free"
  BY LiveIsFreed DEF FreeTwice, FreeNotFound, Running, Return
<1>2. TypeOK' /\ Cursor' /\ AllocateInv' /\ FreeInv'
  BY <1>1, ReturnFacts DEF IInv, TypeOK, Link
<1>3. Links' /\ ByteInv' /\ BlocksApart'
  BY <1>1, Frame DEF Owned
<1>4. QED
  BY <1>1, <1>2, <1>3 DEF IInv, FreeingInv

LEMMA FaultInv ==
  ASSUME IInv, pc # "destroyed", NEW kind \in Faults, Fault(kind) PROVE IInv'
<1>1. /\ pc' = kind /\ kind \in {"null_node", "null_head"} /\ nodes' = nodes
      /\ head' = head /\ node' = node /\ previous' = previous /\ want' = want
      /\ at' = at /\ live' = live /\ freeing' = freeing /\ answer' = answer
  BY DEF Fault, Faults
<1>2. TypeOK'
  BY <1>1 DEF IInv, TypeOK, Faults
<1>3. Links' /\ ByteInv' /\ BlocksApart'
  BY <1>1, Frame DEF Owned
<1>4. QED
  BY <1>1, <1>2, <1>3
     DEF IInv, Cursor, Running, AllocateInv, FreeInv, FreeingInv

LEMMA FreeIntoEmptyListInv ==
  ASSUME IInv, FreeIntoEmptyList PROVE IInv' /\ (pc' = "idle" => GivenBack)
<1>1. pc = "free" /\ head = nullptr
  BY DEF FreeIntoEmptyList
<1>2. freeing # {}
  BY <1>1, FreeAgainFacts
<1>3. CASE get_node = nullptr
  BY <1>1, <1>3, FaultInv DEF FreeIntoEmptyList, Faults, Fault
<1>4. CASE get_node # nullptr
  <2> DEFINE n == get_node
             d == [offset |-> at, size |-> want, next |-> nullptr]
  <2>1. /\ n \in Slots /\ n # nullptr /\ n \notin UsedIn(nodes)
    BY <1>4, GetNodeFacts DEF FreeSlots, Used
  <2>2. /\ nodes' = [nodes EXCEPT ![n] = d] /\ head' = n
        /\ Return(TRUE, at) /\ live' = live
    BY <1>4 DEF FreeIntoEmptyList
  <2>3. /\ at \in Nat /\ want \in Nat \ {0}
        /\ nodes \in [Slots -> Node] /\ Sorted(nodes, head) /\ Fused(nodes)
        /\ UsedIn(nodes) = {}
    BY <1>1, <1>2, FreeingFacts, HeadFacts DEF IInv, TypeOK, Links, Used
  <2>4. /\ nodes' \in [Slots -> Node] /\ nodes'[n] = d
        /\ \A k \in Slots \ {n} : nodes'[k] = nodes[k]
    BY <2>1, <2>2, <2>3 DEF Node
  <2>5. /\ Sorted(nodes', n) /\ FusedBut(nodes', {n, nullptr})
        /\ UsedIn(nodes') = {n}
        /\ \A x \in Nat : InNode(nodes', x) <=>
             InNode(nodes, x) \/ (at <= x /\ x < at + want)
    <3>1. InsertAt(nodes, nullptr, n, at, want, nullptr, nullptr, nodes')
      BY <1>1, <2>1, <2>3, <2>4 DEF InsertAt, Link
    <3>2. QED
      <4>1. Inserted(nodes, nullptr, n, at, want, nullptr, nodes')
        BY <3>1, InsertLemma
      <4>2. QED
        BY <4>1, <2>3 DEF Inserted
  <2>6. Fused(nodes')
    BY <2>4, <2>5 DEF Fused, FusedAt
  <2>7. QED
    BY <1>1, <1>2, <2>1, <2>2, <2>4, <2>5, <2>6, FreeDone DEF Link
<1>5. QED
  BY <1>3, <1>4

LEMMA FreeAfterLastInv ==
  ASSUME IInv, FreeAfterLast PROVE IInv' /\ (pc' = "idle" => GivenBack)
<1>1. /\ pc = "free" /\ node \in Used /\ nodes[node].next = nullptr /\ End(node) < at
  BY DEF FreeAfterLast, IInv, Cursor, Running
<1>2. freeing # {}
  BY <1>1, FreeAgainFacts
<1>3. CASE get_node = nullptr
  BY <1>1, <1>3, FaultInv DEF FreeAfterLast, Faults, Fault
<1>4. CASE get_node # nullptr
  <2> DEFINE n == get_node
             p == node
             d == [offset |-> at, size |-> want, next |-> nullptr]
  <2>1. /\ n \in Slots /\ n # nullptr /\ n \notin UsedIn(nodes)
    BY <1>4, GetNodeFacts DEF FreeSlots, Used
  <2>2. /\ nodes' = [nodes EXCEPT ![n] = d, ![p].next = n] /\ head' = head
        /\ Return(TRUE, at) /\ live' = live
    BY <1>4 DEF FreeAfterLast
  <2>3. /\ at \in Nat /\ want \in Nat \ {0} /\ head \in Link
        /\ nodes \in [Slots -> Node] /\ Sorted(nodes, head) /\ Fused(nodes)
        /\ \A k \in UsedIn(nodes) : EndIn(nodes, k) <= at \/ at + want <= nodes[k].offset
    BY <1>1, <1>2, FreeingFacts DEF IInv, TypeOK, Links, Used, End, Link
  <2>4. /\ p \in Slots /\ p # n /\ p # nullptr /\ nodes[p] \in Node /\ p \in UsedIn(nodes)
        /\ EndIn(nodes, p) \in Nat /\ EndIn(nodes, p) <= at /\ EndIn(nodes, p) # at
    BY <1>1, <2>1, <2>3, UsedFacts DEF IInv, Used, End
  <2>5. /\ nodes' \in [Slots -> Node] /\ nodes'[n] = d
        /\ nodes'[p] = [nodes[p] EXCEPT !.next = n]
        /\ \A k \in Slots \ {n, p} : nodes'[k] = nodes[k]
    <3>1. d \in Node /\ [nodes[p] EXCEPT !.next = n] \in Node
      BY <2>1, <2>3, <2>4 DEF Node
    <3>2. QED
      BY <3>1, <2>1, <2>2, <2>3, <2>4
  <2>6. /\ Sorted(nodes', head) /\ FusedBut(nodes', {n, p})
        /\ \A x \in Nat : InNode(nodes', x) <=>
             InNode(nodes, x) \/ (at <= x /\ x < at + want)
    <3>1. InsertAt(nodes, head, n, at, want, p, nullptr, nodes')
      BY <1>1, <2>1, <2>3, <2>4, <2>5 DEF InsertAt
    <3>2. QED
      <4>1. Inserted(nodes, head, n, at, want, p, nodes')
        BY <3>1, InsertLemma
      <4>2. QED
        BY <4>1, <2>4 DEF Inserted
  <2>7. Fused(nodes')
    <3>1. FusedAt(nodes', n)
      BY <2>5 DEF FusedAt
    <3>2. /\ nodes'[p].next = n /\ EndIn(nodes', p) = EndIn(nodes, p)
          /\ nodes'[n].offset = at
      BY <2>4, <2>5 DEF EndIn, Node
    <3>3. FusedAt(nodes', p)
      BY <3>2, <2>4 DEF FusedAt
    <3>4. QED
      BY <3>1, <3>3, <2>6 DEF FusedBut, Fused
  <2>8. QED
    BY <1>1, <1>2, <2>2, <2>3, <2>5, <2>6, <2>7, FreeDone
<1>5. QED
  BY <1>3, <1>4

LEMMA FreeAtRightEndInv ==
  ASSUME IInv, FreeAtRightEnd PROVE IInv' /\ (pc' = "idle" => GivenBack)
<1>1. /\ pc = "free" /\ node \in Used /\ End(node) = at
      /\ nodes' = JoinNext([nodes EXCEPT ![node].size = @ + want], node)
      /\ Return(TRUE, at) /\ head' = head /\ live' = live
  BY DEF FreeAtRightEnd, IInv, Cursor, Running
<1>2. freeing # {}
  BY <1>1, FreeAgainFacts
<1>3. /\ at \in Nat /\ want \in Nat \ {0} /\ head \in Link /\ node \in UsedIn(nodes)
      /\ nodes \in [Slots -> Node] /\ Sorted(nodes, head) /\ Fused(nodes)
      /\ EndIn(nodes, node) = at
      /\ \A k \in UsedIn(nodes) : EndIn(nodes, k) <= at \/ at + want <= nodes[k].offset
  BY <1>1, <1>2, FreeingFacts DEF IInv, TypeOK, Links, Used, End, Link
<1> DEFINE ms == [nodes EXCEPT ![node].size = @ + want]
<1>4. /\ ms \in [Slots -> Node] /\ Sorted(ms, head) /\ FusedBut(ms, {node})
      /\ UsedIn(ms) = UsedIn(nodes)
      /\ \A x \in Nat : InNode(ms, x) <=>
           InNode(nodes, x) \/ (at <= x /\ x < at + want)
  <2>1. GrowAt(nodes, head, node, want, ms)
    BY <1>3 DEF GrowAt
  <2> HIDE DEF ms
  <2>2. \A x \in Nat : InNode(ms, x) <=>
          \/ InNode(nodes, x)
          \/ EndIn(nodes, node) <= x /\ x < EndIn(nodes, node) + want
    BY <2>1, GrowLemma
  <2>3. /\ ms \in [Slots -> Node] /\ Sorted(ms, head) /\ FusedBut(ms, {node})
        /\ UsedIn(ms) = UsedIn(nodes)
    BY <2>1, GrowLemma
  <2>4. QED
    BY <2>2, <2>3, <1>3
<1> HIDE DEF ms
<1>5. FusedBut(ms, {} \cup {node}) /\ node \in UsedIn(ms)
  BY <1>3, <1>4 DEF FusedBut
<1>6. /\ JoinNext(ms, node) \in [Slots -> Node]
      /\ Sorted(JoinNext(ms, node), head)
      /\ FusedBut(JoinNext(ms, node), {})
      /\ \A x \in Nat : InNode(JoinNext(ms, node), x) <=> InNode(ms, x)
  BY <1>3, <1>4, <1>5, JoinNextLemma
<1>7. nodes' = JoinNext(ms, node)
  BY <1>1 DEF ms
<1>8. Fused(nodes')
  BY <1>6, <1>7 DEF FusedBut, Fused
<1>9. QED
  BY <1>1, <1>2, <1>3, <1>4, <1>6, <1>7, <1>8, FreeDone

LEMMA FreeBeforeInv ==
  ASSUME IInv, FreeBefore PROVE IInv' /\ (pc' = "idle" => GivenBack)
<1>1. /\ pc = "free" /\ node \in Used /\ nodes[node].offset > at
  BY DEF FreeBefore, IInv, Cursor, Running
<1>2. freeing # {}
  BY <1>1, FreeAgainFacts
<1>3. CASE get_node = nullptr
  BY <1>1, <1>3, FaultInv DEF FreeBefore, Faults, Fault
<1>4. CASE get_node # nullptr
  <2> DEFINE n == get_node
             p == previous
             q == node
             filled == [nodes EXCEPT ![n] = [offset |-> at, size |-> want, next |-> q]]
             ms == IF p = nullptr THEN filled ELSE [filled EXCEPT ![p].next = n]
             g  == IF p = nullptr THEN n ELSE head
  <2>1. /\ n \in Slots /\ n # nullptr /\ n \notin UsedIn(nodes)
    BY <1>4, GetNodeFacts DEF FreeSlots, Used
  <2>2. /\ nodes' = IF p = nullptr THEN JoinNext(ms, n)
                                   ELSE JoinNext(JoinNext(ms, n), p)
        /\ head' = g /\ Return(TRUE, at) /\ live' = live
    BY <1>4 DEF FreeBefore
  <2>3. /\ at \in Nat /\ want \in Nat \ {0} /\ head \in Link
        /\ nodes \in [Slots -> Node] /\ Sorted(nodes, head) /\ Fused(nodes)
        /\ \A k \in UsedIn(nodes) : EndIn(nodes, k) <= at \/ at + want <= nodes[k].offset
    BY <1>1, <1>2, FreeingFacts DEF IInv, TypeOK, Links, Used, End, Link
  <2>4. /\ q \in Slots /\ q \in UsedIn(nodes) /\ q # nullptr /\ at + want <= nodes[q].offset
    <3>1. /\ nodes[q].offset < EndIn(nodes, q) /\ nodes[q].offset \in Nat
          /\ EndIn(nodes, q) \in Nat /\ q \in Slots /\ q \in UsedIn(nodes) /\ q # nullptr
      BY <1>1, UsedFacts DEF IInv, Used, End
    <3>2. EndIn(nodes, q) <= at \/ at + want <= nodes[q].offset
      BY <2>3, <3>1
    <3>3. QED
      BY <3>1, <3>2, <1>1, <2>3
  <2>5. /\ p \in UsedIn(nodes) \cup {nullptr}
        /\ p = nullptr => q = head
        /\ p # nullptr => /\ nodes[p].next = q /\ EndIn(nodes, p) <= at
                          /\ p \in Slots /\ p # n /\ p # q /\ nodes[p] \in Node
    <3>1. ASSUME p # nullptr
          PROVE  /\ nodes[p].next = q /\ EndIn(nodes, p) <= at
                 /\ p \in Slots /\ p # n /\ p # q /\ nodes[p] \in Node
                 /\ p \in UsedIn(nodes)
      <4>1. p \in UsedIn(nodes) /\ nodes[p].next = q
        BY <3>1, <1>1 DEF IInv, Cursor, Running, Used
      <4>2. /\ p \in Slots /\ p # n /\ nodes[p] \in Node /\ nodes[p].offset \in Nat
            /\ EndIn(nodes, p) \in Nat /\ nodes[p].offset < EndIn(nodes, p)
        BY <4>1, <2>1, <2>3, NodeFacts
      <4>3. EndIn(nodes, p) <= nodes[q].offset
        BY <4>1, <2>3, <2>4 DEF Sorted
      <4>4. nodes[q].offset \in Nat /\ nodes[q].offset < EndIn(nodes, q)
        BY <1>1, UsedFacts DEF IInv, Used, End
      <4>5. nodes[p].offset < nodes[q].offset
        BY <4>2, <4>3, <4>4
      <4>6. nodes[p].offset < at
        BY <4>1, <4>5, <1>1 DEF IInv, FreeInv, Passed, Used
      <4>7. EndIn(nodes, p) <= at
        BY <4>1, <4>2, <4>6, <2>3
      <4>8. QED
        BY <4>1, <4>2, <4>5, <4>7
    <3>2. p = nullptr => q = head
      BY <1>1 DEF IInv, Cursor, Running
    <3>3. QED
      BY <3>1, <3>2
  <2>6. /\ ms \in [Slots -> Node]
        /\ ms[n] = [offset |-> at, size |-> want, next |-> q]
        /\ p # nullptr => ms[p] = [nodes[p] EXCEPT !.next = n]
        /\ \A k \in Slots \ {n, p} : ms[k] = nodes[k]
    <3>1. [offset |-> at, size |-> want, next |-> q] \in Node
      BY <2>3, <2>4 DEF Node
    <3>2. /\ filled \in [Slots -> Node]
          /\ filled[n] = [offset |-> at, size |-> want, next |-> q]
          /\ \A k \in Slots \ {n} : filled[k] = nodes[k]
      BY <3>1, <2>1, <2>3
    <3> HIDE DEF filled
    <3>3. CASE p = nullptr
      BY <3>2, <3>3, <2>1
    <3>4. CASE p # nullptr
      <4>1. [nodes[p] EXCEPT !.next = n] \in Node
        BY <3>4, <2>1, <2>5 DEF Node
      <4>2. filled[p] = nodes[p] /\ ms = [filled EXCEPT ![p].next = n]
        BY <3>2, <3>4, <2>5
      <4>3. QED
        BY <3>2, <3>4, <4>1, <4>2, <2>1, <2>5
    <3>5. QED
      BY <3>3, <3>4
  <2> HIDE DEF ms, filled
  <2>7. /\ Sorted(ms, g) /\ FusedBut(ms, {n, p})
        /\ UsedIn(ms) = UsedIn(nodes) \cup {n}
        /\ \A x \in Nat : InNode(ms, x) <=>
             InNode(nodes, x) \/ (at <= x /\ x < at + want)
    <3>1. InsertAt(nodes, head, n, at, want, p, q, ms)
      BY <2>1, <2>3, <2>4, <2>5, <2>6 DEF InsertAt
    <3>2. QED
      <4>1. Inserted(nodes, head, n, at, want, p, ms)
        BY <3>1, InsertLemma
      <4>2. QED
        BY <4>1 DEF Inserted
  <2> DEFINE ls == JoinNext(ms, n)
  <2>8. g \in Link
    BY <2>1, <2>3 DEF Link
  <2>9. /\ ls \in [Slots -> Node] /\ Sorted(ls, g) /\ FusedBut(ls, {p})
        /\ \A k \in UsedIn(ms) : k # q => k \in UsedIn(ls)
        /\ \A x \in Nat : InNode(ls, x) <=> InNode(ms, x)
    <3>1. FusedBut(ms, {p} \cup {n})
      BY <2>7 DEF FusedBut
    <3>2. n \in UsedIn(ms) /\ n \notin {p} /\ ms[n].next = q /\ q \notin {p}
      BY <2>1, <2>4, <2>5, <2>6, <2>7
    <3>3. QED
      BY <3>1, <3>2, <2>6, <2>7, <2>8, JoinNextLemma
  <2> HIDE DEF ls, g
  <2>10. CASE p = nullptr
    <3>1. nullptr \notin UsedIn(ls)
      BY SlotsFacts DEF UsedIn
    <3>2. Fused(ls)
      BY <2>9, <2>10, <3>1 DEF FusedBut, Fused
    <3>3. nodes' = ls
      BY <2>2, <2>10 DEF ls
    <3>4. QED
      BY <3>2, <3>3, <1>1, <1>2, <2>2, <2>7, <2>8, <2>9, FreeDone
  <2>11. CASE p # nullptr
    <3>1. p \in UsedIn(ls) /\ FusedBut(ls, {} \cup {p})
      <4>1. p \in UsedIn(ms) /\ p # q
        BY <2>5, <2>7, <2>11
      <4>2. {} \cup {p} = {p}
        OBVIOUS
      <4>3. QED
        BY <2>9, <4>1, <4>2
    <3>2. /\ JoinNext(ls, p) \in [Slots -> Node]
          /\ Sorted(JoinNext(ls, p), g)
          /\ FusedBut(JoinNext(ls, p), {})
          /\ \A x \in Nat : InNode(JoinNext(ls, p), x) <=> InNode(ls, x)
      BY <3>1, <2>8, <2>9, JoinNextLemma
    <3>3. nodes' = JoinNext(ls, p)
      BY <2>2, <2>11 DEF ls
    <3>4. Fused(nodes')
      BY <3>2, <3>3 DEF FusedBut, Fused
    <3>5. QED
      BY <3>2, <3>3, <3>4, <1>1, <1>2, <2>2, <2>7, <2>8, <2>9, FreeDone
  <2>12. QED
    BY <2>10, <2>11
<1>5. QED
  BY <1>3, <1>4

LEMMA ClearInv ==
  ASSUME IInv, freelist_clear PROVE IInv'
<1>t. TotalSize \in Nat /\ TotalSize > 0
  BY TotalSizeAssumption
<1>1. pc = "idle" /\ freeing = {}
  BY DEF freelist_clear, IInv, FreeingInv
<1>2. CASE head = nullptr
  BY <1>1, <1>2, FaultInv DEF freelist_clear, Faults
<1>3. CASE head # nullptr
  <2>1. /\ nodes' = [i \in Slots |-> IF i = head THEN [empty_node EXCEPT !.size = TotalSize]
                                                 ELSE empty_node]
        /\ head' = head /\ pc' = "idle" /\ node' = node /\ previous' = previous
        /\ want' = want /\ at' = at /\ freeing' = {} /\ live' = {}
        /\ answer' = [call |-> "clear", ok |-> TRUE, size |-> 0, at |-> 0]
        /\ head \in Slots /\ TypeOK
    BY <1>1, <1>3, SlotsFacts DEF freelist_clear, IInv, TypeOK
  <2>2. /\ nodes' \in [Slots -> Node]
        /\ nodes'[head] = [offset |-> 0, size |-> TotalSize, next |-> nullptr]
        /\ \A k \in Slots \ {head} : nodes'[k] = empty_node
    BY <2>1, <1>t DEF Node, empty_node
  <2>3. UsedIn(nodes') = {head} /\ EndIn(nodes', head) = TotalSize
    <3>1. nodes'[head].size = TotalSize /\ nodes'[head].offset = 0
      BY <2>2
    <3>2. ASSUME NEW k \in Slots \ {head} PROVE nodes'[k].size = 0
      BY <2>2 DEF empty_node
    <3>3. \A k \in Slots : k \in UsedIn(nodes') <=> k = head
      BY <3>1, <3>2, <1>t DEF UsedIn
    <3>4. UsedIn(nodes') \subseteq Slots
      BY DEF UsedIn
    <3>5. EndIn(nodes', head) = TotalSize
      BY <3>1, <1>t DEF EndIn
    <3>6. QED
      BY <3>3, <3>4, <3>5, <2>1
  <2>4. TypeOK'
    BY <2>1, <2>2 DEF TypeOK
  <2>5. Links'
    BY <1>3, <2>1, <2>2, <2>3 DEF Links, Sorted, Fused, FusedAt
  <2>6. ByteInv'
    <3>1. ASSUME NEW x \in Nat PROVE InNode(nodes', x) <=> x < TotalSize
      BY <2>2, <2>3, <1>t DEF InNode
    <3>2. QED
      BY <3>1, <2>1 DEF ByteInv, InBlock, Owned
  <2>7. QED
    BY <2>1, <2>4, <2>5, <2>6
       DEF IInv, Cursor, Running, AllocateInv, FreeInv, BlocksApart, FreeingInv, Owned
<1>4. QED
  BY <1>2, <1>3

LEMMA CreateInv ==
  ASSUME IInv, freelist_create PROVE IInv'
<1>t. TotalSize \in Nat /\ TotalSize > 0
  BY TotalSizeAssumption
<1>1. /\ nodes' = first_nodes /\ head' = 0 /\ pc' = "idle" /\ node' = node
      /\ previous' = previous /\ want' = want /\ at' = at
      /\ freeing' = freeing /\ live' = live /\ freeing = {} /\ live = {} /\ TypeOK
      /\ answer' = [call |-> "create", ok |-> TRUE, size |-> 0, at |-> 0]
  BY DEF freelist_create, IInv, FreeingInv
<1>2. /\ nodes' \in [Slots -> Node]
      /\ nodes'[0] = [offset |-> 0, size |-> TotalSize, next |-> nullptr]
      /\ \A k \in Slots \ {0} : nodes'[k] = empty_node
  BY <1>1, <1>t, SlotsFacts DEF first_nodes, Node, empty_node
<1>3. UsedIn(nodes') = {0} /\ EndIn(nodes', 0) = TotalSize
  <2>1. nodes'[0].size = TotalSize /\ nodes'[0].offset = 0
    BY <1>2
  <2>2. ASSUME NEW k \in Slots \ {0} PROVE nodes'[k].size = 0
    BY <1>2 DEF empty_node
  <2>3. \A k \in Slots : k \in UsedIn(nodes') <=> k = 0
    BY <2>1, <2>2, <1>t DEF UsedIn
  <2>4. UsedIn(nodes') \subseteq Slots
    BY DEF UsedIn
  <2>5. EndIn(nodes', 0) = TotalSize
    BY <2>1, <1>t DEF EndIn
  <2>6. QED
    BY <2>3, <2>4, <2>5, SlotsFacts
<1>4. TypeOK'
  BY <1>1, <1>2, SlotsFacts DEF TypeOK
<1>5. Links'
  BY <1>1, <1>2, <1>3, SlotsFacts DEF Links, Sorted, Fused, FusedAt
<1>6. ByteInv'
  <2>1. ASSUME NEW x \in Nat PROVE InNode(nodes', x) <=> x < TotalSize
    BY <1>2, <1>3, <1>t DEF InNode
  <2>2. QED
    BY <2>1, <1>1 DEF ByteInv, InBlock, Owned
<1>7. QED
  BY <1>1, <1>4, <1>5, <1>6
     DEF IInv, Cursor, Running, AllocateInv, FreeInv, BlocksApart, FreeingInv, Owned

LEMMA DestroyInv ==
  ASSUME IInv, freelist_destroy PROVE IInv'
<1>1. /\ nodes' = [i \in Slots |-> empty_node] /\ head' = nullptr /\ pc' = "destroyed"
      /\ node' = node /\ previous' = previous /\ want' = want /\ at' = at
      /\ freeing' = freeing /\ live' = {} /\ freeing = {} /\ TypeOK
      /\ answer' = [call |-> "destroy", ok |-> TRUE, size |-> 0, at |-> 0]
  BY DEF freelist_destroy, IInv, FreeingInv
<1>2. nodes' \in [Slots -> Node] /\ UsedIn(nodes') = {}
  BY <1>1 DEF Node, empty_node, UsedIn
<1>3. TypeOK'
  BY <1>1, <1>2 DEF TypeOK
<1>4. Links'
  BY <1>1, <1>2 DEF Links, Sorted, Fused
<1>5. QED
  BY <1>1, <1>3, <1>4
     DEF IInv, Cursor, Running, AllocateInv, FreeInv, ByteInv, BlocksApart, FreeingInv, Owned

LEMMA RefuseInv ==
  ASSUME IInv, NEW call \in {"allocate", "free"}, NEW n \in Nat, Refuse(call, n)
  PROVE  IInv'
<1>1. /\ nodes' = nodes /\ head' = head /\ pc' = pc /\ node' = node
      /\ previous' = previous /\ want' = want /\ at' = at /\ freeing' = freeing
      /\ live' = live /\ pc \in {"idle", "destroyed"} /\ TypeOK
      /\ answer' = [call |-> call, ok |-> FALSE, size |-> n, at |-> 0]
  BY DEF Refuse, IInv
<1>2. TypeOK'
  BY <1>1 DEF TypeOK
<1>3. Links' /\ ByteInv' /\ BlocksApart'
  BY <1>1 DEF IInv, Links, ByteInv, BlocksApart, Owned
<1>4. QED
  BY <1>1, <1>2, <1>3
     DEF IInv, Cursor, Running, AllocateInv, FreeInv, FreeingInv

LEMMA StutterInv ==
  ASSUME IInv, UNCHANGED vars PROVE IInv'
<1>1. /\ nodes' = nodes /\ head' = head /\ pc' = pc /\ node' = node
      /\ previous' = previous /\ want' = want /\ at' = at /\ freeing' = freeing
      /\ live' = live /\ answer' = answer
  BY DEF vars
<1>2. TypeOK' /\ Links'
  BY <1>1 DEF IInv, TypeOK, Links
<1>3. Cursor' /\ AllocateInv'
  BY <1>1 DEF IInv, Cursor, Running, AllocateInv, Used, Passed
<1>4. FreeInv'
  BY <1>1 DEF IInv, FreeInv, Used, Passed, End, EndIn, Recognised
<1>5. ByteInv' /\ BlocksApart' /\ FreeingInv'
  BY <1>1 DEF IInv, ByteInv, BlocksApart, FreeingInv, Owned
<1>6. QED
  BY <1>2, <1>3, <1>4, <1>5 DEF IInv

LEMMA NextInv ==
  ASSUME IInv, [Next]_vars PROVE IInv'
<1>1. ASSUME NEW n \in Sizes, CallAllocate(n) PROVE IInv'
  BY <1>1, CallAllocateInv
<1>2. ASSUME NEW b \in live, CallFree(b) PROVE IInv'
  BY <1>2, CallFreeInv
<1>3. ASSUME NEW n \in Sizes, NEW o \in 0 .. TotalSize - 1,
             CallFreeAgain([at |-> o, size |-> n])
      PROVE  IInv'
  <2>1. o \in Nat
    BY TotalSizeAssumption
  <2>2. QED
    BY <2>1, <1>3, CallFreeAgainInv
<1>4. ASSUME freelist_allocate_block PROVE IInv'
  BY <1>4, AllocateExactInv, AllocateSplitInv, AllocateAdvanceInv, AllocateRefusedInv
     DEF freelist_allocate_block
<1>5. ASSUME freelist_free_block PROVE IInv'
  BY <1>5, FreeIntoEmptyListInv, FreeAtRightEndInv, FreeRefusedInv, FreeBeforeInv,
     FreeAfterLastInv, FreeAdvanceInv
     DEF freelist_free_block
<1>6. ASSUME NEW n \in Sizes \cup {0},
             Refuse("free", n) \/ (n \in Sizes /\ Refuse("allocate", n))
      PROVE  IInv'
  BY <1>6, RefuseInv, SizesAssumption
<1>7. QED
  BY <1>1, <1>2, <1>3, <1>4, <1>5, <1>6, ClearInv, CreateInv, DestroyInv, StutterInv
     DEF Next, Step

-----------------------------------------------------------------------------
(***************************************************************************)
(* The invariant, and the properties that are conjuncts of it.             *)
(***************************************************************************)
\* IInv is an inductive invariant: it holds of every reachable state.
THEOREM Inductive == Spec => []IInv
<1>1. Init => IInv
  BY InitInv
<1>2. IInv /\ [Next]_vars => IInv'
  BY NextInv
<1>3. QED
  BY <1>1, <1>2, PTL DEF Spec

\* Every variable keeps its type (freelist.c:6-17): no size wraps below 0,
\* and every pointer of the list is null or points into the node array.
THEOREM TypeCorrect == Spec => []TypeOK
<1>1. IInv => TypeOK
  BY DEF IInv
<1>2. QED
  BY <1>1, Inductive, PTL

\* The nodes form one sorted, gap-separated chain from the head, whatever
\* the order of the calls and wherever their loops stand.
THEOREM ListSorted == Spec => []Links
<1>1. IInv => Links
  BY DEF IInv
<1>2. QED
  BY <1>1, Inductive, PTL

-----------------------------------------------------------------------------
(***************************************************************************)
(* Sets of bytes.                                                          *)
(***************************************************************************)
LEMMA FreeBytesFacts ==
  ASSUME TypeOK
  PROVE  /\ FreeBytes \subseteq Nat
         /\ \A x \in Nat : x \in FreeBytes <=> InNode(nodes, x)
<1>1. ASSUME NEW i \in Used
      PROVE  /\ nodes[i].offset \in Nat /\ nodes[i].size \in Nat
             /\ EndIn(nodes, i) = nodes[i].offset + nodes[i].size
  BY UsedFacts DEF End
<1>2. ASSUME NEW i \in Used, NEW x
      PROVE  x \in Bytes(nodes[i].offset, nodes[i].size) <=>
               x \in Nat /\ nodes[i].offset <= x /\ x < EndIn(nodes, i)
  <2>1. x \in Bytes(nodes[i].offset, nodes[i].size) <=>
          x \in Int /\ nodes[i].offset <= x /\ x <= nodes[i].offset + nodes[i].size - 1
    BY <1>1 DEF Bytes
  <2>2. QED
    BY <2>1, <1>1
<1>3. \A x : x \in FreeBytes <=>
        \E i \in Used : x \in Bytes(nodes[i].offset, nodes[i].size)
  BY DEF FreeBytes
<1>4. QED
  BY <1>2, <1>3 DEF InNode, Used

LEMMA OwnedBytesFacts ==
  ASSUME Owned \in SUBSET Block
  PROVE  /\ OwnedBytes \subseteq Nat
         /\ \A x \in Nat : x \in OwnedBytes <=> InBlock(Owned, x)
<1>1. ASSUME NEW b \in Owned, NEW x
      PROVE  x \in Bytes(b.at, b.size) <=> x \in Nat /\ b.at <= x /\ x < b.at + b.size
  <2>1. b.at \in Nat /\ b.size \in Nat
    BY DEF Block
  <2>2. QED
    BY <2>1 DEF Bytes
<1>2. \A x : x \in OwnedBytes <=> \E b \in Owned : x \in Bytes(b.at, b.size)
  BY DEF OwnedBytes
<1>3. QED
  BY <1>1, <1>2 DEF InBlock

\* A run of free bytes lies within one node: neighbours are fused.
LEMMA RunInOneNode ==
  ASSUME TypeOK, Links, NEW o \in Nat, NEW n \in Nat \ {0},
         \A x \in Nat : o <= x /\ x < o + n => InNode(nodes, x)
  PROVE  \E i \in Used : nodes[i].offset <= o /\ o + n <= End(i)
<1>1. InNode(nodes, o)
  OBVIOUS
<1>2. PICK i \in Used : nodes[i].offset <= o /\ o < End(i)
  BY <1>1 DEF InNode, Used, End
<1>3. /\ nodes[i].offset \in Nat /\ End(i) \in Nat /\ nodes[i].offset < End(i)
  BY UsedFacts
<1>4. CASE o + n <= End(i)
  BY <1>2, <1>4
<1>5. CASE End(i) < o + n
  <2>1. InNode(nodes, End(i))
    BY <1>2, <1>3, <1>5
  <2>2. PICK j \in Used : nodes[j].offset <= End(i) /\ End(i) < End(j)
    BY <2>1 DEF InNode, Used, End
  <2>3. /\ nodes[j].offset \in Nat /\ End(j) \in Nat /\ nodes[j].offset < End(j)
    BY UsedFacts
  <2>4. i # j
    BY <2>2, <1>3
  <2>5. End(i) <= nodes[j].offset \/ End(j) <= nodes[i].offset
    BY <2>4, SortedApart DEF Links, Used, End, TypeOK, Link
  <2>6. nodes[j].offset = End(i)
    BY <2>2, <2>3, <2>5, <1>3
  <2>7. CASE nodes[i].next = nullptr
    <3>1. End(j) <= nodes[i].offset
      BY <2>4, <2>7 DEF Links, Sorted, Used, End
    <3>2. QED
      BY <3>1, <2>3, <2>6, <1>3
  <2>8. CASE nodes[i].next # nullptr
    <3> DEFINE l == nodes[i].next
    <3>1. /\ l \in Used /\ End(i) <= nodes[l].offset /\ End(i) # nodes[l].offset
          /\ j # l => End(j) <= nodes[i].offset \/ End(l) <= nodes[j].offset
      BY <2>4, <2>8 DEF Links, Sorted, Fused, FusedAt, Used, End
    <3>2. /\ nodes[l].offset \in Nat /\ End(l) \in Nat /\ nodes[l].offset < End(l)
      BY <3>1, UsedFacts
    <3>3. QED
      BY <3>1, <3>2, <2>3, <2>6, <1>3
  <2>9. QED
    BY <2>7, <2>8
<1>6. QED
  BY <1>3, <1>4, <1>5

\* Where no node is large enough, no run of free bytes is.
LEMMA NoRoom ==
  ASSUME IInv, NEW n \in Nat \ {0}, NEW o \in Nat,
         \A i \in Used : nodes[i].size < n
  PROVE  ~ (\A x \in Nat : o <= x /\ x < o + n => InNode(nodes, x))
<1> SUFFICES ASSUME \A x \in Nat : o <= x /\ x < o + n => InNode(nodes, x)
             PROVE  FALSE
  OBVIOUS
<1>1. PICK i \in Used : nodes[i].offset <= o /\ o + n <= End(i)
  BY RunInOneNode DEF IInv
<1>2. /\ nodes[i].size < n /\ nodes[i].offset \in Nat /\ nodes[i].size \in Nat
      /\ End(i) = nodes[i].offset + nodes[i].size
  BY UsedFacts DEF IInv
<1>3. QED
  BY <1>1, <1>2

-----------------------------------------------------------------------------
\* Every byte is in exactly one free node or one block: nothing is handed
\* out twice, and nothing is lost by splitting and joining.
THEOREM BytesPartitioned == Spec => []Partition
<1>1. ASSUME IInv, pc # "destroyed" PROVE Partition
  <2>1. TypeOK /\ Links /\ Owned \in SUBSET Block
    BY <1>1 DEF IInv, TypeOK, Owned
  <2>t. TotalSize \in Nat
    BY TotalSizeAssumption
  <2>2. ASSUME NEW i \in Used, NEW j \in Used, i # j
        PROVE  Bytes(nodes[i].offset, nodes[i].size)
                 \cap Bytes(nodes[j].offset, nodes[j].size) = {}
    <3>1. End(i) <= nodes[j].offset \/ End(j) <= nodes[i].offset
      BY <2>1, <2>2, SortedApart DEF Links, Used, End, TypeOK, Link
    <3>2. /\ nodes[i].offset \in Nat /\ nodes[i].size \in Nat
          /\ nodes[j].offset \in Nat /\ nodes[j].size \in Nat
          /\ End(i) = nodes[i].offset + nodes[i].size
          /\ End(j) = nodes[j].offset + nodes[j].size
      BY <2>1, UsedFacts
    <3>3. QED
      BY <3>1, <3>2 DEF Bytes
  <2>3. ASSUME NEW b \in Owned, NEW c \in Owned, b # c
        PROVE  Bytes(b.at, b.size) \cap Bytes(c.at, c.size) = {}
    <3>1. b.at + b.size <= c.at \/ c.at + c.size <= b.at
      BY <1>1, <2>3 DEF IInv, BlocksApart
    <3>2. b.at \in Nat /\ b.size \in Nat /\ c.at \in Nat /\ c.size \in Nat
      BY <2>1 DEF Block
    <3>3. QED
      BY <3>1, <3>2 DEF Bytes
  <2>4. /\ FreeBytes \subseteq Nat /\ OwnedBytes \subseteq Nat
        /\ \A x \in Nat : x \in FreeBytes <=> InNode(nodes, x)
        /\ \A x \in Nat : x \in OwnedBytes <=> InBlock(Owned, x)
    BY <2>1, FreeBytesFacts, OwnedBytesFacts
  <2>5. FreeBytes \cap OwnedBytes = {}
    BY <1>1, <2>4 DEF IInv, ByteInv
  <2>6. ASSUME NEW x PROVE x \in FreeBytes \cup OwnedBytes <=> x \in 0 .. TotalSize - 1
    <3>1. x \in FreeBytes \cup OwnedBytes <=> x \in Nat /\ x < TotalSize
      BY <1>1, <2>4 DEF IInv, ByteInv
    <3>2. x \in 0 .. TotalSize - 1 <=> x \in Nat /\ x < TotalSize
      BY <2>t
    <3>3. QED
      BY <3>1, <3>2
  <2>7. FreeBytes \cup OwnedBytes = 0 .. TotalSize - 1
    BY <2>6
  <2>8. QED
    BY <2>2, <2>3, <2>5, <2>7 DEF Partition
<1>2. IInv => Partition
  BY <1>1 DEF Partition
<1>3. QED
  BY <1>2, Inductive, PTL

\* A block that a caller holds is never refused by freelist_free_block.
THEOREM LiveBlockFreed == Spec => LiveBlockIsFreed
<1>1. IInv /\ [Next]_vars => [FreeTwice \/ FreeNotFound => freeing = {}]_vars
  BY LiveIsFreed
<1>2. QED
  BY <1>1, Inductive, PTL DEF Spec, LiveBlockIsFreed

\* A range freed again, where the list can recognise it, changes no node.
THEOREM RefusedFreeHarmless == Spec => RefusedFreeIsHarmless
<1>1. ASSUME IInv, [Next]_vars, pc = "free", freeing = {}, pc' # pc
      PROVE  FreeTwice \/ FreeNotFound
  <2>1. ~ (FreeIntoEmptyList \/ FreeAtRightEnd \/ FreeBefore \/ FreeAfterLast)
    BY <1>1, FreeAgainFacts
  <2>2. ~ FreeAdvance
    BY <1>1 DEF FreeAdvance, Advance
  <2>3. ~ freelist_allocate_block
    BY <1>1 DEF freelist_allocate_block, AllocateExact, AllocateSplit,
                AllocateAdvance, AllocateRefused
  <2>4. Step
    BY <1>1 DEF Next, CallAllocate, CallFree, CallFreeAgain, Enter, Refuse, freelist_clear,
                freelist_create, freelist_destroy, vars
  <2>5. QED
    BY <2>1, <2>2, <2>3, <2>4 DEF Step, freelist_free_block
<1>2. IInv /\ [Next]_vars
        => [pc = "free" /\ freeing = {} /\ pc' # pc => FreeTwice \/ FreeNotFound]_vars
  BY <1>1
<1>3. QED
  BY <1>2, Inductive, PTL DEF Spec, RefusedFreeIsHarmless

\* An allocation is refused only when no run of free bytes could hold it.
THEOREM RefusedAllocation == Spec => RefusedOnlyIfNothingFits
<1>1. ASSUME IInv, AllocateRefused, NEW o \in 0 .. TotalSize - want
      PROVE  ~ (Bytes(o, want) \subseteq FreeBytes)
  <2>1. /\ want \in Nat \ {0} /\ \A i \in Used : nodes[i].size < want
    BY <1>1 DEF AllocateRefused, IInv, TypeOK, Cursor, Running, AllocateInv, Passed
  <2>2. o \in Nat
    BY <2>1, TotalSizeAssumption
  <2>3. PICK x \in Nat : o <= x /\ x < o + want /\ ~ InNode(nodes, x)
    BY <1>1, <2>1, <2>2, NoRoom
  <2>4. x \in Bytes(o, want)
    BY <2>1, <2>2, <2>3 DEF Bytes
  <2>5. x \notin FreeBytes
    BY <1>1, <2>3, FreeBytesFacts DEF IInv
  <2>6. QED
    BY <2>4, <2>5
<1>2. IInv /\ [Next]_vars
        => [AllocateRefused => \A o \in 0 .. TotalSize - want :
                                 ~ (Bytes(o, want) \subseteq FreeBytes)]_vars
  BY <1>1
<1>3. QED
  BY <1>2, Inductive, PTL DEF Spec, RefusedOnlyIfNothingFits

\* freelist_clear dereferences a null head only when all bytes are held.
THEOREM ClearDies == Spec => []ClearDiesOnlyWhenFull
<1> DEFINE HeadGone == pc = "null_head" => head = nullptr
<1>1. Init => HeadGone
  BY DEF Init
<1>2. HeadGone /\ [Next]_vars => HeadGone'
  BY DEF Next, CallAllocate, CallFree, CallFreeAgain, Enter, Refuse, freelist_clear,
         freelist_create, freelist_destroy, vars, Step, freelist_allocate_block,
         freelist_free_block, AllocateExact, AllocateSplit, AllocateAdvance,
         AllocateRefused, FreeIntoEmptyList, FreeAtRightEnd, FreeTwice, FreeBefore,
         FreeAfterLast, FreeAdvance, FreeNotFound, Grant, Return, Fault, Advance
<1>3. ASSUME IInv, HeadGone, pc = "null_head" PROVE OwnedBytes = 0 .. TotalSize - 1
  <2>1. TypeOK /\ Links /\ Owned \in SUBSET Block /\ TotalSize \in Nat
    BY <1>3, TotalSizeAssumption DEF IInv, TypeOK, Owned
  <2>2. Used = {}
    BY <1>3, <2>1, HeadFacts
  <2>3. \A x \in Nat : ~ InNode(nodes, x)
    BY <2>2 DEF InNode, Used
  <2>4. \A x \in Nat : InBlock(Owned, x) <=> x < TotalSize
    BY <1>3, <2>3 DEF IInv, ByteInv
  <2>5. ASSUME NEW x PROVE x \in OwnedBytes <=> x \in 0 .. TotalSize - 1
    BY <2>1, <2>4, OwnedBytesFacts
  <2>6. QED
    BY <2>5
<1>4. IInv /\ HeadGone => ClearDiesOnlyWhenFull
  BY <1>3 DEF ClearDiesOnlyWhenFull
<1>5. QED
  BY <1>1, <1>2, <1>4, Inductive, PTL DEF Spec

-----------------------------------------------------------------------------
(***************************************************************************)
(* The free list implements the set of free bytes: every step of Freelist  *)
(* is a step of FreeSpace or leaves its variables alone.                   *)
(***************************************************************************)
LEMMA SpanIsBytes == \A o, n : FS!Span(o, n) = Bytes(o, n)
  BY DEF FS!Span, Bytes

LEMMA BytesFacts ==
  ASSUME NEW o \in Nat, NEW n \in Nat
  PROVE  \A x : x \in Bytes(o, n) <=> x \in Nat /\ o <= x /\ x < o + n
  BY DEF Bytes

\* A range of free bytes that fits, as the abstract specification has it.
LEMMA FitsFacts ==
  ASSUME IInv, NEW n \in Sizes, NEW o
  PROVE  o \in FS!Fits(n) <=>
           /\ o \in Nat
           /\ \A x \in Nat : o <= x /\ x < o + n => InNode(nodes, x)
<1>n. n \in Nat \ {0} /\ TotalSize \in Nat
  BY SizesAssumption, TotalSizeAssumption
<1>1. o \in FS!Fits(n) <=> o \in FreeBytes /\ Bytes(o, n) \subseteq FreeBytes
  BY SpanIsBytes DEF FS!Fits
<1>2. ASSUME o \in Nat
      PROVE  Bytes(o, n) \subseteq FreeBytes <=>
               \A x \in Nat : o <= x /\ x < o + n => InNode(nodes, x)
  BY <1>2, <1>n, BytesFacts, FreeBytesFacts DEF IInv
<1>3. FreeBytes \subseteq Nat /\ \A x \in Nat : x \in FreeBytes <=> InNode(nodes, x)
  BY FreeBytesFacts DEF IInv
<1>4. ASSUME o \in Nat, \A x \in Nat : o <= x /\ x < o + n => InNode(nodes, x)
      PROVE  o \in FreeBytes
  BY <1>n, <1>3, <1>4
<1>5. QED
  BY <1>1, <1>2, <1>3, <1>4

-----------------------------------------------------------------------------
(***************************************************************************)
(* The steps.                                                              *)
(***************************************************************************)
LEMMA InitMaps == Init => FS!Init
<1> SUFFICES ASSUME Init PROVE FS!Init
  OBVIOUS
<1>1. IInv /\ Owned = {} /\ pc = "idle"
  BY InitInv DEF Init, Owned
<1>2. FreeBytes = 0 .. TotalSize - 1
  <2>1. \A x \in Nat : x \in FreeBytes <=> x < TotalSize
    BY <1>1, FreeBytesFacts DEF IInv, ByteInv, InBlock
  <2>2. FreeBytes \subseteq Nat /\ TotalSize \in Nat
    BY <1>1, FreeBytesFacts, TotalSizeAssumption DEF IInv
  <2>3. ASSUME NEW x PROVE x \in FreeBytes <=> x \in 0 .. TotalSize - 1
    <3>1. x \in 0 .. TotalSize - 1 <=> x \in Nat /\ x < TotalSize
      BY <2>2
    <3>2. QED
      BY <2>1, <2>2, <3>1
  <2>4. QED
    BY <2>3
<1>3. answer = FS!Answer("create", TRUE, 0, 0)
  BY DEF Init, FS!Answer
<1>4. QED
  BY <1>1, <1>2, <1>3 DEF FS!Init

\* Calls that begin, loops that go round, and faults do not move a byte.
LEMMA QuietSteps ==
  ASSUME IInv, nodes' = nodes, Owned' = Owned, answer' = answer
  PROVE  UNCHANGED FS!vars
<1>1. FreeBytes' = FreeBytes
  BY DEF FreeBytes, Used
<1>2. QED
  BY <1>1 DEF FS!vars

\* Where every byte is free again, and no block is held.
LEMMA FreshMaps ==
  ASSUME IInv', pc' = "idle", Owned' = {}, NEW call \in {"create", "clear"},
         answer' = [call |-> call, ok |-> TRUE, size |-> 0, at |-> 0]
  PROVE  FS!Fresh(call)
<1>1. (TypeOK /\ ByteInv)'
  BY DEF IInv
<1>2. (TypeOK => /\ FreeBytes \subseteq Nat
                 /\ \A x \in Nat : x \in FreeBytes <=> InNode(nodes, x))'
  BY FreeBytesFacts, PTL
<1>3. FreeBytes' = 0 .. TotalSize - 1
  <2>1. \A x \in Nat : x \in FreeBytes' <=> x < TotalSize
    BY <1>1, <1>2 DEF ByteInv, InBlock
  <2>2. FreeBytes' \subseteq Nat /\ TotalSize \in Nat
    BY <1>1, <1>2, TotalSizeAssumption
  <2>3. ASSUME NEW x PROVE x \in FreeBytes' <=> x \in 0 .. TotalSize - 1
    <3>1. x \in 0 .. TotalSize - 1 <=> x \in Nat /\ x < TotalSize
      BY <2>2
    <3>2. QED
      BY <2>1, <2>2, <3>1
  <2>4. QED
    BY <2>3
<1>4. answer' = FS!Answer(call, TRUE, 0, 0)
  BY DEF FS!Answer
<1>5. QED
  BY <1>3, <1>4 DEF FS!Fresh

\* A grant takes the lowest range that fits.
LEMMA GrantMaps ==
  ASSUME IInv, AllocateSplit \/ AllocateExact PROVE FS!Allocate(want) /\ want \in Sizes
<1> DEFINE o == nodes[node].offset
<1>1. /\ pc = "allocate" /\ node \in Used /\ want <= nodes[node].size /\ Grant(o)
      /\ want \in Sizes /\ freeing = {} /\ freeing' = {}
      /\ answer' = [call |-> "allocate", ok |-> TRUE, size |-> want, at |-> o]
      /\ live' = live \cup {[at |-> o, size |-> want]}
  <2>1. /\ pc = "allocate" /\ node \in Used /\ Grant(o) /\ want \in Sizes /\ freeing = {}
        /\ nodes[node].size = want \/ nodes[node].size > want
    BY DEF AllocateSplit, AllocateExact, IInv, Cursor, Running, AllocateInv
  <2>2. want \in Nat /\ nodes[node].size \in Nat
    BY <2>1, UsedFacts DEF IInv, TypeOK
  <2>3. QED
    BY <2>1, <2>2 DEF Grant, Return
<1>2. /\ want \in Nat \ {0} /\ o \in Nat /\ End(node) = o + nodes[node].size
      /\ nodes[node].size \in Nat /\ TypeOK /\ Links
  BY <1>1, SizesAssumption, UsedFacts DEF IInv
<1>3. IInv' /\ Granted(o)
  BY AllocateSplitInv, AllocateExactInv
<1>4. o \in FS!Fits(want)
  <2>1. ASSUME NEW x \in Nat, o <= x, x < o + want PROVE InNode(nodes, x)
    <3>1. nodes[node].offset <= x /\ x < End(node)
      BY <2>1, <1>1, <1>2
    <3>2. QED
      BY <3>1, <1>1 DEF InNode, Used, End
  <2>2. QED
    BY <2>1, <1>1, <1>2, FitsFacts
<1>5. ASSUME NEW p \in FS!Fits(want) PROVE o <= p
  <2>1. /\ p \in Nat
        /\ \A x \in Nat : p <= x /\ x < p + want => InNode(nodes, x)
    BY <1>1, <1>5, FitsFacts
  <2>2. PICK i \in Used : nodes[i].offset <= p /\ p + want <= End(i)
    BY <2>1, <1>2, RunInOneNode
  <2>3. /\ nodes[i].offset \in Nat /\ nodes[i].size \in Nat
        /\ End(i) = nodes[i].offset + nodes[i].size
    BY <1>2, UsedFacts
  <2>4. want <= nodes[i].size
    BY <2>1, <2>2, <2>3, <1>2
  <2>5. ~ (nodes[i].offset < o)
    <3>1. nodes[i].offset < o => nodes[i].size < want
      BY <1>1 DEF IInv, AllocateInv, Passed
    <3>2. QED
      BY <3>1, <2>3, <2>4, <1>2
  <2>6. QED
    BY <2>1, <2>2, <2>3, <2>5, <1>2
<1>6. FreeBytes' = FreeBytes \ FS!Span(o, want)
  <2>1. (TypeOK => /\ FreeBytes \subseteq Nat
                   /\ \A x \in Nat : x \in FreeBytes <=> InNode(nodes, x))'
    BY FreeBytesFacts, PTL
  <2>2. /\ FreeBytes' \subseteq Nat
        /\ \A x \in Nat : x \in FreeBytes' <=> InNode(nodes', x)
    BY <2>1, <1>3 DEF IInv
  <2>3. /\ FreeBytes \subseteq Nat
        /\ \A x \in Nat : x \in FreeBytes <=> InNode(nodes, x)
    BY <1>2, FreeBytesFacts
  <2>4. \A x : x \in Bytes(o, want) <=> x \in Nat /\ o <= x /\ x < o + want
    BY <1>2, BytesFacts
  <2>5. ASSUME NEW x PROVE x \in FreeBytes' <=> x \in FreeBytes \ Bytes(o, want)
    BY <2>2, <2>3, <2>4, <1>3 DEF Granted
  <2>6. QED
    BY <2>5, SpanIsBytes
<1>7. Owned' = Owned \cup {[at |-> o, size |-> want]}
  BY <1>1 DEF Owned
<1>8. answer' = FS!Answer("allocate", TRUE, want, o)
  BY <1>1 DEF FS!Answer
<1>9. QED
  BY <1>1, <1>4, <1>5, <1>6, <1>7, <1>8 DEF FS!Allocate

\* A refused allocation finds no range that fits.
LEMMA RefusedMaps ==
  ASSUME IInv, AllocateRefused PROVE FS!AllocateRefused(want) /\ want \in Sizes
<1>1. /\ pc = "allocate" /\ want \in Sizes /\ freeing = {} /\ freeing' = {}
      /\ nodes' = nodes /\ live' = live
      /\ answer' = [call |-> "allocate", ok |-> FALSE, size |-> want, at |-> 0]
      /\ \A i \in Used : nodes[i].size < want
  BY DEF AllocateRefused, Return, IInv, AllocateInv, Passed
<1>2. want \in Nat \ {0}
  BY <1>1, SizesAssumption
<1>3. FS!Fits(want) = {}
  <2>1. ASSUME NEW o \in FS!Fits(want) PROVE FALSE
    BY <2>1, <1>1, <1>2, FitsFacts, NoRoom
  <2>2. QED
    BY <2>1
<1>4. FreeBytes' = FreeBytes /\ Owned' = Owned
  BY <1>1 DEF FreeBytes, Used, Owned
<1>5. QED
  BY <1>1, <1>3, <1>4 DEF FS!AllocateRefused, FS!Answer

\* A free that is done returns the bytes of its block.
LEMMA FreeMaps ==
  ASSUME IInv, pc' = "idle",
         FreeIntoEmptyList \/ FreeAtRightEnd \/ FreeBefore \/ FreeAfterLast
  PROVE  \E b \in Owned : FS!Free(b)
<1> DEFINE b == [at |-> at, size |-> want]
<1>1. pc = "free"
  BY DEF FreeIntoEmptyList, FreeAtRightEnd, FreeBefore, FreeAfterLast
<1>2. freeing # {}
  BY <1>1, FreeAgainFacts
<1>3. /\ freeing = {b} /\ at \in Nat /\ want \in Nat \ {0}
  BY <1>1, <1>2, FreeingFacts
<1>4. /\ freeing' = {} /\ live' = live
      /\ answer' = [call |-> "free", ok |-> TRUE, size |-> want, at |-> at]
  BY <1>1 DEF FreeIntoEmptyList, FreeAtRightEnd, FreeBefore, FreeAfterLast, Return, Fault
<1>5. b \in Owned /\ Owned' = Owned \ {b} /\ b.at = at /\ b.size = want
  BY <1>3, <1>4 DEF Owned, IInv, FreeingInv
<1>6. IInv' /\ GivenBack
  BY FreeIntoEmptyListInv, FreeAtRightEndInv, FreeBeforeInv, FreeAfterLastInv
<1>7. FreeBytes' = FreeBytes \cup FS!Span(at, want)
  <2>1. (TypeOK => /\ FreeBytes \subseteq Nat
                   /\ \A x \in Nat : x \in FreeBytes <=> InNode(nodes, x))'
    BY FreeBytesFacts, PTL
  <2>2. /\ FreeBytes' \subseteq Nat
        /\ \A x \in Nat : x \in FreeBytes' <=> InNode(nodes', x)
    BY <2>1, <1>6 DEF IInv
  <2>3. /\ FreeBytes \subseteq Nat
        /\ \A x \in Nat : x \in FreeBytes <=> InNode(nodes, x)
    BY FreeBytesFacts DEF IInv
  <2>4. \A x : x \in Bytes(at, want) <=> x \in Nat /\ at <= x /\ x < at + want
    BY <1>3, BytesFacts
  <2>5. ASSUME NEW x PROVE x \in FreeBytes' <=> x \in FreeBytes \cup Bytes(at, want)
    BY <2>2, <2>3, <2>4, <1>6 DEF GivenBack
  <2>6. QED
    BY <2>5, SpanIsBytes
<1>8. FS!Free(b)
  BY <1>4, <1>5, <1>7 DEF FS!Free, FS!Answer
<1>9. QED
  BY <1>5, <1>8

\* A refused free was of bytes that are free already.
LEMMA FreeRefusedMaps ==
  ASSUME IInv, FreeTwice \/ FreeNotFound
  PROVE  FS!FreeRefused(want, at) /\ want \in Sizes /\ at \in 0 .. TotalSize - 1
<1>1. /\ pc = "free" /\ freeing = {} /\ freeing' = {} /\ nodes' = nodes /\ live' = live
      /\ answer' = [call |-> "free", ok |-> FALSE, size |-> want, at |-> at]
  BY LiveIsFreed DEF FreeTwice, FreeNotFound, Return
<1>2. want \in Sizes /\ want \in Nat \ {0} /\ at \in Nat
  BY <1>1, SizesAssumption DEF IInv, FreeInv, TypeOK
<1>3. PICK i \in Used : Recognised([at |-> at, size |-> want], i)
  BY <1>1 DEF IInv, FreeInv
<1>4. /\ nodes[i].offset \in Nat /\ End(i) \in Nat /\ nodes[i].offset <= at
      /\ at + want <= End(i)
  BY <1>2, <1>3, UsedFacts DEF IInv, Recognised
<1>5. at \in 0 .. TotalSize - 1
  <2>1. End(i) <= TotalSize
    BY <1>1, ByteFacts
  <2>2. QED
    BY <2>1, <1>2, <1>4, TotalSizeAssumption
<1>6. FS!Span(at, want) \subseteq FreeBytes
  <2>1. ASSUME NEW x \in Bytes(at, want) PROVE x \in FreeBytes
    <3>1. x \in Nat /\ at <= x /\ x < at + want
      BY <1>2, BytesFacts
    <3>2. nodes[i].offset <= x /\ x < End(i)
      BY <3>1, <1>2, <1>4
    <3>3. InNode(nodes, x)
      BY <3>2 DEF InNode, Used, End
    <3>4. QED
      BY <3>1, <3>3, FreeBytesFacts DEF IInv
  <2>2. QED
    BY <2>1, SpanIsBytes
<1>7. FreeBytes' = FreeBytes /\ Owned' = Owned
  BY <1>1 DEF FreeBytes, Used, Owned
<1>8. QED
  BY <1>1, <1>2, <1>5, <1>6, <1>7 DEF FS!FreeRefused, FS!Answer

LEMMA DestroyedFacts ==
  ASSUME IInv, pc = "destroyed" PROVE FreeBytes = {} /\ Owned = {}
<1>1. Used = {} /\ Owned = {}
  BY HeadFacts DEF IInv, FreeingInv, Owned
<1>2. QED
  BY <1>1 DEF FreeBytes

LEMMA RefuseMaps ==
  ASSUME IInv, NEW n \in Sizes \cup {0}, NEW call,
         Refuse(call, n),
         call = "free" \/ (call = "allocate" /\ n \in Sizes)
  PROVE  (FS!AllocateRefused(n) /\ n \in Sizes) \/ FS!FreeRefused(n, 0)
<1>n. n \in Nat /\ (n \in Sizes => n > 0) /\ 0 \in 0 .. TotalSize - 1
  BY SizesAssumption, TotalSizeAssumption
<1>1. /\ answer' = [call |-> call, ok |-> FALSE, size |-> n, at |-> 0]
      /\ (pc = "destroyed" \/ (call = "free" /\ n = 0))
      /\ nodes' = nodes /\ live' = live /\ freeing' = freeing
  BY DEF Refuse
<1>2. FreeBytes' = FreeBytes /\ Owned' = Owned
  BY <1>1 DEF FreeBytes, Used, Owned
<1>3. CASE call = "free"
  <2>1. n > 0 => (FreeBytes = {} /\ Owned = {})
    BY <1>1, <1>n, DestroyedFacts
  <2>2. FS!FreeRefused(n, 0)
    BY <2>1, <1>1, <1>2, <1>3 DEF FS!FreeRefused, FS!Answer
  <2>3. QED
    BY <2>2
<1>4. CASE call = "allocate"
  <2>1. pc = "destroyed" /\ n \in Sizes
    BY <1>1, <1>4
  <2>2. FS!Fits(n) = {}
    <3>1. ASSUME NEW o \in FS!Fits(n) PROVE FALSE
      <4>1. o \in Nat /\ \A x \in Nat : o <= x /\ x < o + n => InNode(nodes, x)
        BY <2>1, <3>1, FitsFacts
      <4>2. InNode(nodes, o)
        BY <4>1, <2>1, <1>n
      <4>3. o \in FreeBytes
        BY <4>1, <4>2, FreeBytesFacts DEF IInv
      <4>4. QED
        BY <4>3, <2>1, DestroyedFacts
    <3>2. QED
      BY <3>1
  <2>3. QED
    BY <2>1, <2>2, <1>1, <1>2, <1>4 DEF FS!AllocateRefused, FS!Answer
<1>5. QED
  BY <1>3, <1>4

LEMMA DestroyMaps ==
  ASSUME IInv, freelist_destroy PROVE FS!Destroy
<1>1. /\ IInv' /\ pc' = "destroyed"
      /\ answer' = [call |-> "destroy", ok |-> TRUE, size |-> 0, at |-> 0]
  BY DestroyInv DEF freelist_destroy
<1>2. (IInv /\ pc = "destroyed" => FreeBytes = {} /\ Owned = {})'
  BY DestroyedFacts, PTL
<1>3. FreeBytes' = {} /\ Owned' = {}
  BY <1>1, <1>2
<1>4. QED
  BY <1>1, <1>3 DEF FS!Destroy, FS!Answer

-----------------------------------------------------------------------------
LEMMA StepMaps == ASSUME IInv, [Next]_vars PROVE [FS!Next]_(FS!vars)
<1>1. ASSUME NEW n \in Sizes, CallAllocate(n) PROVE UNCHANGED FS!vars
  <2>1. nodes' = nodes /\ Owned' = Owned /\ answer' = answer
    BY <1>1 DEF CallAllocate, Enter, Owned
  <2>2. QED
    BY <2>1, QuietSteps
<1>2. ASSUME NEW b \in live, CallFree(b) PROVE UNCHANGED FS!vars
  <2>1. nodes' = nodes /\ answer' = answer /\ Owned' = Owned
    BY <1>2 DEF CallFree, Enter, Owned, IInv, FreeingInv
  <2>2. QED
    BY <2>1, QuietSteps
<1>3. ASSUME NEW b, CallFreeAgain(b) PROVE UNCHANGED FS!vars
  <2>1. nodes' = nodes /\ Owned' = Owned /\ answer' = answer
    BY <1>3 DEF CallFreeAgain, Enter, Owned
  <2>2. QED
    BY <2>1, QuietSteps
<1>4. ASSUME AllocateAdvance \/ FreeAdvance PROVE UNCHANGED FS!vars
  <2>1. nodes' = nodes /\ Owned' = Owned /\ answer' = answer
    BY <1>4 DEF AllocateAdvance, FreeAdvance, Advance, Owned
  <2>2. QED
    BY <2>1, QuietSteps
<1>5. ASSUME NEW kind, Fault(kind) PROVE UNCHANGED FS!vars
  <2>1. nodes' = nodes /\ Owned' = Owned /\ answer' = answer
    BY <1>5 DEF Fault, Owned
  <2>2. QED
    BY <2>1, QuietSteps
<1>6. ASSUME AllocateSplit \/ AllocateExact \/ AllocateRefused PROVE FS!Next
  BY <1>6, GrantMaps, RefusedMaps DEF FS!Next
<1>7. ASSUME FreeIntoEmptyList \/ FreeAtRightEnd \/ FreeBefore \/ FreeAfterLast
      PROVE  FS!Next \/ UNCHANGED FS!vars
  <2>1. pc' = "idle" \/ Fault("null_node")
    BY <1>7 DEF FreeIntoEmptyList, FreeAtRightEnd, FreeBefore, FreeAfterLast, Return
  <2>2. CASE pc' = "idle"
    BY <2>2, <1>7, FreeMaps DEF FS!Next
  <2>3. CASE Fault("null_node")
    BY <2>3, <1>5
  <2>4. QED
    BY <2>1, <2>2, <2>3
<1>8. ASSUME FreeTwice \/ FreeNotFound PROVE FS!Next
  <2>1. FS!FreeRefused(want, at) /\ want \in Sizes /\ at \in 0 .. TotalSize - 1
    BY <1>8, FreeRefusedMaps
  <2>2. QED
    BY <2>1 DEF FS!Next
<1>9. ASSUME NEW n \in Sizes \cup {0}, NEW call, Refuse(call, n),
             call = "free" \/ (call = "allocate" /\ n \in Sizes)
      PROVE  FS!Next
  <2>1. (FS!AllocateRefused(n) /\ n \in Sizes) \/ FS!FreeRefused(n, 0)
    BY <1>9, RefuseMaps
  <2>2. 0 \in 0 .. TotalSize - 1
    BY TotalSizeAssumption
  <2>3. QED
    BY <2>1, <2>2 DEF FS!Next
<1>10. ASSUME freelist_create PROVE FS!Next
  <2>1. /\ IInv' /\ pc' = "idle" /\ Owned' = {}
        /\ answer' = [call |-> "create", ok |-> TRUE, size |-> 0, at |-> 0]
    BY <1>10, CreateInv DEF freelist_create, Owned, IInv, FreeingInv
  <2>2. FS!Fresh("create")
    BY <2>1, FreshMaps
  <2>3. QED
    BY <2>2 DEF FS!Next
<1>11. ASSUME freelist_clear PROVE FS!Next \/ UNCHANGED FS!vars
  <2>1. CASE head = nullptr
    BY <2>1, <1>11, <1>5 DEF freelist_clear
  <2>2. CASE head # nullptr
    <3>1. /\ IInv' /\ pc' = "idle" /\ Owned' = {}
          /\ answer' = [call |-> "clear", ok |-> TRUE, size |-> 0, at |-> 0]
      BY <2>2, <1>11, ClearInv DEF freelist_clear, Owned, IInv, FreeingInv
    <3>2. FS!Fresh("clear")
      BY <3>1, FreshMaps
    <3>3. QED
      BY <3>2 DEF FS!Next
  <2>3. QED
    BY <2>1, <2>2
<1>12. ASSUME freelist_destroy PROVE FS!Next
  BY <1>12, DestroyMaps DEF FS!Next
<1>13. ASSUME UNCHANGED vars PROVE UNCHANGED FS!vars
  <2>1. nodes' = nodes /\ Owned' = Owned /\ answer' = answer
    BY <1>13 DEF vars, Owned
  <2>2. QED
    BY <2>1, QuietSteps
<1>14. ASSUME Step PROVE FS!Next \/ UNCHANGED FS!vars
  BY <1>14, <1>4, <1>6, <1>7, <1>8 DEF Step, freelist_allocate_block, freelist_free_block
<1>15. QED
  BY <1>1, <1>2, <1>3, <1>9, <1>10, <1>11, <1>12, <1>13, <1>14 DEF Next

\* Whatever is asked of it, in whatever order, the linked list answers as a
\* first-fit set of bytes does.
THEOREM Implements == Spec => ImplementsFreeSpace
<1>1. Init => FS!Init
  BY InitMaps
<1>2. IInv /\ [Next]_vars => [FS!Next]_(FS!vars)
  BY StepMaps
<1>3. QED
  BY <1>1, <1>2, Inductive, PTL DEF Spec, ImplementsFreeSpace, FS!Spec

-----------------------------------------------------------------------------
LEMMA OwnedFinite == ASSUME IInv, pc # "destroyed" PROVE IsFiniteSet(Owned)
<1> DEFINE f == [b \in Owned |-> b.at]
<1>1. \A b \in Owned : b.at \in 0 .. TotalSize - 1
  <2>1. ASSUME NEW b \in Owned PROVE b.at \in 0 .. TotalSize - 1
    <3>1. b.at \in Nat /\ b.size \in Nat /\ b.at + b.size <= TotalSize /\ b.size > 0
      BY ByteFacts DEF IInv, BlocksApart
    <3>2. TotalSize \in Nat
      BY TotalSizeAssumption
    <3> QED BY <3>1, <3>2
  <2> QED BY <2>1
<1>2. \A b \in Owned, c \in Owned : b.at = c.at => b = c
  <2>1. ASSUME NEW b \in Owned, NEW c \in Owned, b.at = c.at, b # c PROVE FALSE
    <3>1. /\ b.at \in Nat /\ b.size \in Nat /\ b.size > 0
          /\ c.at \in Nat /\ c.size \in Nat /\ c.size > 0
      BY ByteFacts DEF IInv, BlocksApart
    <3>2. b.at + b.size <= c.at \/ c.at + c.size <= b.at
      BY <2>1 DEF IInv, BlocksApart
    <3> QED BY <2>1, <3>1, <3>2
  <2> QED BY <2>1
<1>3. f \in Injection(Owned, 0 .. TotalSize - 1)
  BY <1>1, <1>2 DEF Injection, IsInjective
<1>4. IsFiniteSet(0 .. TotalSize - 1)
  BY FS_Interval, TotalSizeAssumption
<1> QED BY <1>3, <1>4, FS_Injection

\* Where a block starts at the end of no node, the blocks between the nodes,
\* and that block for the last node, are as many as the nodes.
LEMMA AsManyBlocks ==
  ASSUME IInv, pc # "destroyed", NEW d \in Owned, \A i \in Used : End(i) # d.at
  PROVE  Cardinality(Used) <= Cardinality(Owned)
<1>1. /\ TypeOK /\ Links /\ TotalSize \in Nat
      /\ \A k \in Used : /\ nodes[k].offset \in Nat /\ End(k) \in Nat
                         /\ nodes[k].offset < End(k) /\ End(k) <= TotalSize
  BY UsedFacts, ByteFacts, TotalSizeAssumption DEF IInv
<1> DEFINE Holds(i, b) == IF nodes[i].next = nullptr THEN b = d
                                                      ELSE b.at <= End(i) /\ End(i) < b.at + b.size
           f == [i \in Used |-> CHOOSE b \in Owned : Holds(i, b)]
<1>2. ASSUME NEW i \in Used PROVE \E b \in Owned : Holds(i, b)
  <2>1. CASE nodes[i].next # nullptr
    <3> DEFINE l == nodes[i].next
               x == End(i)
    <3>1. /\ l \in Used /\ End(i) < nodes[l].offset
          /\ \A j \in Used \ {i, l} : End(j) <= nodes[i].offset \/ End(l) <= nodes[j].offset
      <4>1. /\ l \in Used /\ End(i) <= nodes[l].offset /\ End(i) # nodes[l].offset
            /\ \A j \in Used \ {i, l} : End(j) <= nodes[i].offset \/ End(l) <= nodes[j].offset
        BY <1>1, <2>1 DEF Links, Sorted, Fused, FusedAt, Used, End
      <4> QED BY <1>1, <4>1
    <3>2. x \in Nat /\ x < TotalSize
      BY <1>1, <3>1
    <3>3. ASSUME NEW j \in Used, nodes[j].offset <= x, x < End(j) PROVE FALSE
      <4>1. j # i /\ j # l
        BY <1>1, <3>1, <3>3
      <4> QED BY <1>1, <3>1, <3>3, <4>1
    <3>4. ~ InNode(nodes, x)
      BY <3>3 DEF InNode, Used, End
    <3>5. InBlock(Owned, x)
      BY <3>2, <3>4 DEF IInv, ByteInv
    <3> QED BY <2>1, <3>5 DEF InBlock
  <2> QED BY <2>1
<1>3. \A i \in Used : f[i] \in Owned /\ Holds(i, f[i])
  BY <1>2
<1>4. f \in [Used -> Owned]
  BY <1>2
<1> HIDE DEF f
<1>5. ASSUME NEW i \in Used, NEW j \in Used, nodes[i].next # nullptr, i # j, f[i] = f[j]
      PROVE  FALSE
  <2> DEFINE b == f[i]
  <2>1. /\ b \in Owned /\ b.at <= End(i) /\ End(i) < b.at + b.size
        /\ b.at \in Nat /\ b.size \in Nat
        /\ End(i) <= b.at \/ b.at + b.size <= nodes[i].offset
        /\ End(j) <= b.at \/ b.at + b.size <= nodes[j].offset
    BY <1>3, <1>5, ByteFacts
  <2>2. b.at = End(i)
    BY <1>1, <2>1
  <2>3. CASE nodes[j].next # nullptr
    <3>1. b.at <= End(j) /\ End(j) < b.at + b.size
      BY <1>3, <1>5, <2>3
    <3>2. End(j) = End(i)
      BY <1>1, <2>1, <2>2, <3>1
    <3>3. End(i) <= nodes[j].offset \/ End(j) <= nodes[i].offset
      BY <1>1, <1>5, SortedApart DEF Links, Used, End, TypeOK, Link
    <3> QED BY <1>1, <3>2, <3>3
  <2>4. CASE nodes[j].next = nullptr
    <3>1. b = d
      BY <1>3, <1>5, <2>4
    <3> QED BY <2>2, <3>1
  <2> QED BY <2>3, <2>4
<1>6. ASSUME NEW i \in Used, NEW j \in Used, nodes[i].next = nullptr, nodes[j].next = nullptr, i # j
      PROVE  FALSE
  <2>1. End(j) <= nodes[i].offset /\ End(i) <= nodes[j].offset
    BY <1>1, <1>6 DEF Links, Sorted, Used, End
  <2> QED BY <1>1, <2>1
<1>7. f \in Injection(Used, Owned)
  <2>1. \A i \in Used, j \in Used : f[i] = f[j] => i = j
    BY <1>5, <1>6
  <2> QED BY <1>4, <2>1 DEF Injection, IsInjective
<1> QED BY <1>7, OwnedFinite, FS_Injection

\* With no slot but the head's first to spare, nearly all nodes are in use.
LEMMA PoolExhausted ==
  ASSUME FreeSlots = {}
  PROVE  /\ IsFiniteSet(Used) /\ Cardinality(Used) \in Nat /\ max_entries \in Nat
         /\ max_entries - 1 <= Cardinality(Used)
<1>1. max_entries \in Nat \ {0}
  BY TotalSizeAssumption, EntriesAssumption, SMTT(30) DEF max_entries
<1>2. IsFiniteSet(Slots) /\ Cardinality(Slots) = max_entries
  BY <1>1, FS_Interval DEF Slots
<1>3. Used \subseteq Slots /\ Slots \ {0} \subseteq Used
  BY DEF FreeSlots, Used, UsedIn
<1>4. IsFiniteSet(Slots \ {0}) /\ Cardinality(Slots \ {0}) = max_entries - 1
  BY <1>1, <1>2, FS_RemoveElement, SlotsFacts
<1>5. IsFiniteSet(Used)
  BY <1>2, <1>3, FS_Subset
<1>6. Cardinality(Slots \ {0}) <= Cardinality(Used)
  BY <1>3, <1>5, FS_Subset
<1> QED BY <1>1, <1>4, <1>5, <1>6, FS_CardinalityType

\* A free that dies leaves the callers with a block for each node.
LEMMA ExhaustionStep ==
  ASSUME IInv, FreeIntoEmptyList \/ FreeBefore \/ FreeAfterLast, get_node = nullptr
  PROVE  max_entries - 1 <= Cardinality(Owned)
<1>1. pc = "free" /\ TypeOK /\ Links /\ at \in Nat
  BY DEF FreeIntoEmptyList, FreeBefore, FreeAfterLast, IInv, TypeOK
<1>2. freeing = {[at |-> at, size |-> want]}
  BY <1>1, FreeAgainFacts, FreeingFacts
<1>3. FreeSlots = {}
  BY GetNodeFacts
<1>4. IsFiniteSet(Owned) /\ Cardinality(Owned) \in Nat
  BY <1>1, OwnedFinite, FS_CardinalityType
<1>5. CASE FreeIntoEmptyList
  <2>1. Used = {}
    BY <1>1, <1>5, HeadFacts DEF FreeIntoEmptyList
  <2>2. Cardinality(Used) = 0
    BY <2>1, FS_EmptySet
  <2> QED BY <1>3, <1>4, <2>2, PoolExhausted
<1>6. CASE FreeBefore \/ FreeAfterLast
  <2> DEFINE d == [at |-> at, size |-> want]
  <2>1. d \in Owned /\ d.at = at
    BY <1>2 DEF Owned
  <2>2. node \in Used
    BY <1>1, <1>6 DEF FreeBefore, FreeAfterLast, IInv, Cursor, Running
  <2>3. \A i \in Used : /\ nodes[i].offset \in Nat /\ End(i) \in Nat
                        /\ nodes[i].offset < End(i)
    BY <1>1, UsedFacts
  <2>4. ASSUME NEW i \in Used PROVE End(i) # at
    <3>1. CASE FreeBefore
      <4>1. nodes[node].offset > at
        BY <3>1 DEF FreeBefore
      <4>2. nodes[i].offset < nodes[node].offset => End(i) # at
        BY <1>1 DEF IInv, FreeInv, Passed
      <4> QED BY <1>1, <2>2, <2>3, <4>1, <4>2
    <3>2. CASE FreeAfterLast
      <4>1. nodes[node].offset < at /\ nodes[node].next = nullptr /\ End(node) < at
        BY <3>2 DEF FreeAfterLast
      <4>2. i # node => End(i) <= nodes[node].offset
        BY <1>1, <2>2, <4>1 DEF Links, Sorted, Used, End
      <4> QED BY <1>1, <2>2, <2>3, <4>1, <4>2
    <3> QED BY <1>6, <3>1, <3>2
  <2> HIDE DEF d
  <2>5. Cardinality(Used) <= Cardinality(Owned)
    BY <1>1, <2>1, <2>4, AsManyBlocks
  <2> QED BY <1>3, <1>4, <2>5, PoolExhausted
<1> QED BY <1>5, <1>6

(***************************************************************************)
(* However the memory is cut up: a free finds the pool exhausted only when *)
(* the callers hold at least as many blocks as there are reusable nodes.   *)
(***************************************************************************)
THEOREM ExhaustedByBlocks == Spec => []ExhaustedOnlyByFragmentation
<1>1. Init => ExhaustedOnlyByFragmentation
  BY DEF Init, ExhaustedOnlyByFragmentation
<1>2. ASSUME IInv, ExhaustedOnlyByFragmentation, [Next]_vars
      PROVE  ExhaustedOnlyByFragmentation'
  <2> SUFFICES ASSUME pc' = "null_node" PROVE Cardinality(Owned') >= max_entries - 1
    BY DEF ExhaustedOnlyByFragmentation
  <2>1. CASE UNCHANGED vars
    BY <1>2, <2>1 DEF vars, Owned, ExhaustedOnlyByFragmentation
  <2>2. CASE Next
    <3>1. /\ FreeIntoEmptyList \/ FreeBefore \/ FreeAfterLast
          /\ get_node = nullptr /\ Owned' = Owned
      <4>1. \/ FreeIntoEmptyList /\ get_node = nullptr /\ Fault("null_node")
            \/ FreeBefore /\ get_node = nullptr /\ Fault("null_node")
            \/ FreeAfterLast /\ get_node = nullptr /\ Fault("null_node")
        BY <2>2 DEF Next, CallAllocate, CallFree, CallFreeAgain, Enter, Refuse, freelist_clear,
             freelist_create, freelist_destroy, vars, Step, freelist_allocate_block,
             freelist_free_block, AllocateExact, AllocateSplit, AllocateAdvance,
             AllocateRefused, FreeIntoEmptyList, FreeAtRightEnd, FreeTwice, FreeBefore,
             FreeAfterLast, FreeAdvance, FreeNotFound, Grant, Return, Fault, Advance
      <4> QED BY <4>1 DEF Fault, Owned
    <3>2. max_entries - 1 <= Cardinality(Owned)
      BY <1>2, <3>1, ExhaustionStep
    <3>3. pc = "free"
      BY <3>1 DEF FreeIntoEmptyList, FreeBefore, FreeAfterLast
    <3>4. Cardinality(Owned) \in Nat /\ max_entries \in Nat
      BY <1>2, <3>3, <3>1, GetNodeFacts, PoolExhausted, OwnedFinite, FS_CardinalityType
    <3> QED BY <3>1, <3>2, <3>4
  <2> QED BY <1>2, <2>1, <2>2
<1> QED BY <1>1, <1>2, Inductive, PTL DEF Spec

-----------------------------------------------------------------------------
\* The sum along the list is what its recursion says.
LEMMA SpaceFromFacts ==
  ASSUME TypeOK
  PROVE  \A k \in 0 .. max_entries, i \in Link :
           /\ space_from[k][i] = IF k = 0 \/ i = nullptr THEN 0
                                 ELSE nodes[i].size + space_from[k - 1][nodes[i].next]
           /\ space_from[k][i] \in Nat
<1> DEFINE M == max_entries
           V == [Link -> Nat]
           More(t) == [i \in Link |-> IF i = nullptr THEN 0 ELSE nodes[i].size + t[nodes[i].next]]
           zero == [i \in Link |-> 0]
           T == {n \in Nat : \E f \in [Nat -> V] :
                   f[0] = zero /\ \A k \in 1 .. n : f[k] = More(f[k - 1])}
<1>0. M \in Nat
  BY TotalSizeAssumption, EntriesAssumption, SMTT(30) DEF max_entries
<1>1. \A i \in Link : i # nullptr => nodes[i].size \in Nat /\ nodes[i].next \in Link
  BY DEF TypeOK, Node, Link
<1>2. zero \in V /\ \A t \in V : More(t) \in V
  <2>1. ASSUME NEW t \in V PROVE More(t) \in V
    <3>1. \A i \in Link : i # nullptr => nodes[i].size + t[nodes[i].next] \in Nat
      BY <1>1
    <3> QED BY <3>1
  <2> QED BY <2>1
<1> HIDE DEF V, M
<1>3. 0 \in T
  <2> DEFINE f == [k \in Nat |-> zero]
  <2>1. f \in [Nat -> V] /\ f[0] = zero
    BY <1>2
  <2>2. 1 .. 0 = {}
    OBVIOUS
  <2> QED BY <2>1, <2>2
<1>4. ASSUME NEW n \in Nat, n \in T PROVE n + 1 \in T
  <2> HIDE DEF More, zero
  <2>1. PICK f : f \in [Nat -> V] /\ f[0] = zero /\ \A k \in 1 .. n : f[k] = More(f[k - 1])
    BY <1>4
  <2> DEFINE g == [f EXCEPT ![n + 1] = More(f[n])]
  <2>2. n + 1 \in Nat /\ f[n] \in V /\ n # n + 1 /\ n + 1 # 0
    BY <2>1
  <2>3. g \in [Nat -> V] /\ g[0] = zero /\ g[n + 1] = More(f[n])
    BY <1>2, <2>1, <2>2
  <2>4. \A k \in 0 .. n : k \in Nat /\ g[k] = f[k]
    BY <2>1
  <2> HIDE DEF g
  <2>5. ASSUME NEW k \in 1 .. n + 1 PROVE g[k] = More(g[k - 1])
    <3>1. CASE k = n + 1
      BY <2>2, <2>3, <2>4, <3>1
    <3>2. CASE k # n + 1
      <4>1. k \in 1 .. n /\ k \in 0 .. n /\ k - 1 \in 0 .. n
        BY <3>2
      <4> QED BY <2>1, <2>4, <4>1
    <3> QED BY <3>1, <3>2
  <2> QED BY <2>2, <2>3, <2>5
<1>5. M \in T
  <2> HIDE DEF T
  <2>1. T \subseteq Nat
    BY DEF T
  <2>2. Nat \subseteq T
    BY <1>3, <1>4, AllNaturals
  <2> QED BY <1>0, <2>2
<1>6. PICK f : f \in [Nat -> V] /\ f[0] = zero /\ \A k \in 1 .. M : f[k] = More(f[k - 1])
  BY <1>5
<1> DEFINE F == [k \in 0 .. M |-> f[k]]
<1>7. \A k \in 0 .. M : F[k] \in V /\ F[k] = IF k = 0 THEN zero ELSE More(F[k - 1])
  <2> HIDE DEF More, zero
  <2>1. ASSUME NEW k \in 0 .. M PROVE F[k] \in V /\ F[k] = IF k = 0 THEN zero ELSE More(F[k - 1])
    <3>1. k # 0 => k - 1 \in 0 .. M /\ k \in 1 .. M
      BY <1>0
    <3>2. k \in Nat
      BY <1>0
    <3> QED BY <1>6, <3>1, <3>2
  <2> QED BY <2>1
<1>8. \A k \in 0 .. M :
         F[k] = [i \in Link |-> IF k = 0 \/ i = nullptr THEN 0
                                ELSE nodes[i].size + F[k - 1][nodes[i].next]]
  <2> HIDE DEF F
  <2> QED BY <1>7
<1>9. F = [k \in 0 .. M |-> [i \in Link |-> IF k = 0 \/ i = nullptr THEN 0
                                ELSE nodes[i].size + F[k - 1][nodes[i].next]]]
  <2>1. F = [k \in 0 .. M |-> F[k]]
    OBVIOUS
  <2> HIDE DEF F
  <2> QED BY <1>8, <2>1
<1> HIDE DEF F, More, zero, T
<1>10. space_from = [k \in 0 .. M |-> [i \in Link |-> IF k = 0 \/ i = nullptr THEN 0
                                ELSE nodes[i].size + space_from[k - 1][nodes[i].next]]]
  BY <1>9 DEF space_from, Link, M
<1> DEFINE S == space_from
<1> HIDE DEF S
<1>11. \A k \in 0 .. M, i \in Link :
         S[k][i] = IF k = 0 \/ i = nullptr THEN 0 ELSE nodes[i].size + S[k - 1][nodes[i].next]
  <2>1. S = [k \in 0 .. M |-> [i \in Link |-> IF k = 0 \/ i = nullptr THEN 0
                                ELSE nodes[i].size + S[k - 1][nodes[i].next]]]
    BY <1>10 DEF S
  <2>2. \A k \in 0 .. M :
          S[k] = [i \in Link |-> IF k = 0 \/ i = nullptr THEN 0
                                 ELSE nodes[i].size + S[k - 1][nodes[i].next]]
    <3> DEFINE e(k) == [i \in Link |-> IF k = 0 \/ i = nullptr THEN 0
                                       ELSE nodes[i].size + S[k - 1][nodes[i].next]]
    <3>1. S = [k \in 0 .. M |-> e(k)]
      BY <2>1
    <3> HIDE DEF e
    <3>2. \A k \in 0 .. M : S[k] = e(k)
      BY <3>1
    <3> QED BY <3>2 DEF e
  <2>3. ASSUME NEW k \in 0 .. M, NEW i \in Link
        PROVE  S[k][i] = IF k = 0 \/ i = nullptr THEN 0 ELSE nodes[i].size + S[k - 1][nodes[i].next]
    BY <2>2
  <2> QED BY <2>3
<1> DEFINE R == {k \in Nat : k <= M => \A i \in Link : S[k][i] \in Nat}
<1>12. 0 \in R
  BY <1>0, <1>11
<1>13. ASSUME NEW k \in Nat, k \in R PROVE k + 1 \in R
  <2>1. ASSUME k + 1 <= M, NEW i \in Link PROVE S[k + 1][i] \in Nat
    <3>1. k + 1 \in 0 .. M /\ (k + 1) - 1 = k /\ k <= M /\ k + 1 # 0
      BY <1>0, <2>1
    <3>2. CASE i = nullptr
      BY <1>11, <3>1, <3>2
    <3>3. CASE i # nullptr
      <4>1. S[k + 1][i] = nodes[i].size + S[k][nodes[i].next]
        BY <1>11, <3>1, <3>3
      <4>2. S[k][nodes[i].next] \in Nat
        BY <1>1, <1>13, <3>1, <3>3
      <4> QED BY <1>1, <3>3, <4>1, <4>2
    <3> QED BY <3>2, <3>3
  <2> QED BY <2>1
<1>14. \A k \in 0 .. M, i \in Link : S[k][i] \in Nat
  <2> HIDE DEF R
  <2>1. Nat \subseteq R
    BY <1>12, <1>13, AllNaturals
  <2>2. \A k \in 0 .. M : k \in Nat /\ k <= M
    BY <1>0
  <2> QED BY <2>1, <2>2 DEF R
<1> QED BY <1>11, <1>14 DEF S, M

\* What the nodes from i on hold is what is free from there on.
FreeFrom(x) == {y \in FreeBytes : y >= x}

Behind(i) == {j \in Used : nodes[j].offset >= nodes[i].offset}

LEMMA BytesCounted ==
  ASSUME NEW o \in Nat, NEW n \in Nat
  PROVE  IsFiniteSet(Bytes(o, n)) /\ Cardinality(Bytes(o, n)) = n
BY FS_Interval DEF Bytes

LEMMA SpaceFromCounts ==
  ASSUME TypeOK, Links
  PROVE  \A k \in 0 .. max_entries : \A i \in Used :
           Cardinality(Behind(i)) <= k =>
             /\ IsFiniteSet(FreeFrom(nodes[i].offset))
             /\ space_from[k][i] = Cardinality(FreeFrom(nodes[i].offset))
<1> DEFINE Counts(k, i) == /\ IsFiniteSet(FreeFrom(nodes[i].offset))
                           /\ space_from[k][i] = Cardinality(FreeFrom(nodes[i].offset))
           T == {k \in Nat : k <= max_entries =>
                   \A i \in Used : Cardinality(Behind(i)) <= k => Counts(k, i)}
<1>0. max_entries \in Nat
  BY TotalSizeAssumption, EntriesAssumption, SMTT(30) DEF max_entries
<1>1. ASSUME NEW i \in Used
      PROVE  /\ i \in Slots /\ i # nullptr /\ i \in Link
             /\ nodes[i].offset \in Nat /\ nodes[i].size \in Nat /\ nodes[i].size > 0
             /\ End(i) \in Nat /\ End(i) = nodes[i].offset + nodes[i].size
             /\ IsFiniteSet(Behind(i)) /\ Cardinality(Behind(i)) \in Nat /\ i \in Behind(i)
  <2>1. /\ i \in Slots /\ i # nullptr /\ i \in Link
        /\ nodes[i].offset \in Nat /\ nodes[i].size \in Nat /\ nodes[i].size > 0
        /\ End(i) \in Nat /\ End(i) = nodes[i].offset + nodes[i].size
    BY UsedFacts DEF Link
  <2>2. IsFiniteSet(Slots)
    BY <1>0, FS_Interval DEF Slots
  <2>3. Behind(i) \subseteq Slots
    BY UsedFacts DEF Behind
  <2>4. IsFiniteSet(Behind(i)) /\ Cardinality(Behind(i)) \in Nat
    BY <2>2, <2>3, FS_Subset, FS_CardinalityType
  <2> QED BY <2>1, <2>4 DEF Behind
<1>2. FreeBytes \subseteq Nat /\ \A x \in Nat : x \in FreeBytes <=> InNode(nodes, x)
  BY FreeBytesFacts
<1>3. 0 \in T
  <2>1. ASSUME NEW i \in Used, Cardinality(Behind(i)) <= 0 PROVE FALSE
    <3>1. Cardinality(Behind(i)) = 0
      BY <1>1, <2>1
    <3>2. Behind(i) = {}
      BY <1>1, <3>1, FS_EmptySet
    <3> QED BY <1>1, <3>2
  <2> QED BY <2>1
<1>4. ASSUME NEW k \in Nat, k \in T PROVE k + 1 \in T
  <2>1. ASSUME k + 1 <= max_entries, NEW i \in Used, Cardinality(Behind(i)) <= k + 1
        PROVE  Counts(k + 1, i)
    <3> DEFINE o == nodes[i].offset
               n == nodes[i].size
               l == nodes[i].next
    <3>1. k + 1 \in 0 .. max_entries /\ k \in 0 .. max_entries /\ k <= max_entries
          /\ (k + 1) - 1 = k /\ k + 1 # 0
      BY <1>0, <2>1
    <3>2. space_from[k + 1][i] = n + space_from[k][l] /\ l \in Link
      <4>1. l \in Link
        BY <1>1 DEF TypeOK, Node, Link
      <4> QED BY <1>1, <3>1, <4>1, SpaceFromFacts
    <3>3. \A x : x \in Bytes(o, n) <=> x \in Nat /\ o <= x /\ x < End(i)
      BY <1>1, BytesFacts
    <3>4. IsFiniteSet(Bytes(o, n)) /\ Cardinality(Bytes(o, n)) = n
      BY <1>1, BytesCounted
    <3>5. CASE l = nullptr
      <4>1. space_from[k][l] = 0
        BY <3>1, <3>2, <3>5, SpaceFromFacts
      <4>2. \A j \in Used : j = i \/ End(j) <= o
        BY <3>5, <1>1 DEF Links, Sorted, Used, End
      <4>3. ASSUME NEW x PROVE x \in FreeFrom(o) <=> x \in Bytes(o, n)
        <5>1. CASE x \in Nat /\ o <= x
          <6>1. InNode(nodes, x) <=> x < End(i)
            <7>1. ASSUME x < End(i) PROVE InNode(nodes, x)
              BY <5>1, <7>1 DEF InNode, Used, End
            <7>2. ASSUME InNode(nodes, x) PROVE x < End(i)
              <8>1. PICK j \in Used : nodes[j].offset <= x /\ x < End(j)
                BY <7>2 DEF InNode, Used, End
              <8> QED BY <1>1, <4>2, <5>1, <8>1
            <7> QED BY <7>1, <7>2
          <6> QED BY <1>2, <3>3, <5>1, <6>1 DEF FreeFrom
        <5>2. CASE ~ (x \in Nat /\ o <= x)
          BY <1>2, <3>3, <5>2 DEF FreeFrom
        <5> QED BY <5>1, <5>2
      <4>4. FreeFrom(o) = Bytes(o, n)
        BY <4>3
      <4> QED BY <1>1, <3>2, <3>4, <4>1, <4>4
    <3>6. CASE l # nullptr
      <4>1. /\ l \in Used /\ End(i) <= nodes[l].offset
            /\ \A j \in Used \ {i, l} : End(j) <= o \/ End(l) <= nodes[j].offset
        BY <3>6 DEF Links, Sorted, Used, End
      <4>2. /\ i # l /\ o \in Nat /\ nodes[l].offset \in Nat /\ o < nodes[l].offset
            /\ End(l) \in Nat /\ nodes[l].offset < End(l)
        BY <1>1, <4>1
      <4>3. Behind(l) = Behind(i) \ {i}
        <5>1. ASSUME NEW j \in Used PROVE j \in Behind(l) <=> j \in Behind(i) /\ j # i
          <6>a. j \in Behind(l) <=> nodes[j].offset >= nodes[l].offset
            BY DEF Behind
          <6>b. j \in Behind(i) <=> nodes[j].offset >= o
            BY DEF Behind
          <6>c. nodes[j].offset \in Nat /\ End(j) \in Nat /\ nodes[j].offset < End(j)
            <7>1. /\ End(j) = nodes[j].offset + nodes[j].size
                  /\ nodes[j].offset \in Nat /\ nodes[j].size \in Nat /\ nodes[j].size > 0
              BY <1>1
            <7> QED BY <7>1
          <6>0. /\ j \in Behind(l) <=> nodes[j].offset >= nodes[l].offset
                /\ j \in Behind(i) <=> nodes[j].offset >= o
                /\ nodes[j].offset \in Nat /\ End(j) \in Nat /\ nodes[j].offset < End(j)
            BY <6>a, <6>b, <6>c
          <6>1. CASE j = i
            BY <4>2, <6>0, <6>1
          <6>2. CASE j = l
            BY <4>2, <6>0, <6>2
          <6>3. CASE j \notin {i, l}
            <7>1. End(j) <= o \/ End(l) <= nodes[j].offset
              BY <4>1, <6>3
            <7> QED BY <4>2, <6>0, <6>3, <7>1
          <6> QED BY <6>1, <6>2, <6>3
        <5> QED BY <5>1 DEF Behind
      <4>4. Cardinality(Behind(l)) <= k
        <5>1. Cardinality(Behind(l)) = Cardinality(Behind(i)) - 1
          BY <1>1, <4>3, FS_RemoveElement
        <5> QED BY <1>1, <2>1, <5>1
      <4>5. Counts(k, l)
        BY <1>4, <3>1, <4>1, <4>4
      <4>6. ASSUME NEW x PROVE x \in FreeFrom(o) <=> x \in Bytes(o, n) \cup FreeFrom(nodes[l].offset)
        <5>1. CASE x \in Nat /\ o <= x
          <6>1. InNode(nodes, x) <=> x < End(i) \/ (nodes[l].offset <= x /\ InNode(nodes, x))
            <7>1. ASSUME x < End(i) PROVE InNode(nodes, x)
              BY <5>1, <7>1 DEF InNode, Used, End
            <7>2. ASSUME InNode(nodes, x) PROVE x < End(i) \/ nodes[l].offset <= x
              <8>1. PICK j \in Used : nodes[j].offset <= x /\ x < End(j)
                BY <7>2 DEF InNode, Used, End
              <8>2. CASE j \in {i, l}
                BY <8>1, <8>2
              <8>3. CASE j \notin {i, l}
                BY <1>1, <4>1, <5>1, <8>1, <8>3
              <8> QED BY <8>2, <8>3
            <7> QED BY <7>1, <7>2
          <6> QED BY <1>1, <1>2, <3>3, <4>1, <5>1, <6>1 DEF FreeFrom
        <5>2. CASE ~ (x \in Nat /\ o <= x)
          <6>1. x \notin FreeFrom(o) /\ x \notin Bytes(o, n)
            BY <1>2, <3>3, <5>2 DEF FreeFrom
          <6>2. x \notin FreeFrom(nodes[l].offset)
            <7>1. CASE x \notin Nat
              <8>1. x \notin FreeBytes
                BY <1>2, <7>1
              <8> QED BY <8>1 DEF FreeFrom
            <7>2. CASE x \in Nat
              <8>1. ~ (x >= nodes[l].offset)
                BY <4>2, <5>2, <7>2
              <8> QED BY <8>1 DEF FreeFrom
            <7> QED BY <7>1, <7>2
          <6> QED BY <6>1, <6>2
        <5> QED BY <5>1, <5>2
      <4>7. FreeFrom(o) = Bytes(o, n) \cup FreeFrom(nodes[l].offset)
        BY <4>6
      <4>8. Bytes(o, n) \cap FreeFrom(nodes[l].offset) = {}
        BY <1>1, <3>3, <4>1 DEF FreeFrom
      <4>9. /\ IsFiniteSet(FreeFrom(o))
            /\ Cardinality(FreeFrom(o)) = n + Cardinality(FreeFrom(nodes[l].offset)) - Cardinality({})
        BY <3>4, <4>5, <4>7, <4>8, FS_Union
      <4>10. Cardinality({}) = 0 /\ Cardinality(FreeFrom(nodes[l].offset)) \in Nat
        BY <4>5, FS_EmptySet, FS_CardinalityType
      <4> QED BY <1>1, <3>2, <4>5, <4>9, <4>10
    <3> QED BY <3>5, <3>6
  <2> QED BY <2>1
<1> HIDE DEF Counts, T
<1>5. Nat \subseteq T
  BY <1>3, <1>4, AllNaturals DEF T
<1>6. \A k \in 0 .. max_entries : k \in Nat /\ k <= max_entries
  BY <1>0
<1> QED BY <1>5, <1>6 DEF T, Counts

(***************************************************************************)
(* What freelist_free_space adds up along the list is, between calls, all  *)
(* that no caller holds, for every size of memory and pool.                *)
(***************************************************************************)
THEOREM FreeSpaceCounted == Spec => []FreeSpaceIsWhatIsLeft
<1>1. ASSUME IInv, Partition, pc = "idle"
      PROVE  freelist_free_space + Cardinality(OwnedBytes) = TotalSize
  <2>1. /\ TypeOK /\ Links /\ TotalSize \in Nat /\ head \in Link
        /\ FreeBytes \cap OwnedBytes = {} /\ FreeBytes \cup OwnedBytes = 0 .. TotalSize - 1
    BY <1>1, TotalSizeAssumption DEF IInv, Partition, TypeOK, Link
  <2>2. max_entries \in Nat
    BY TotalSizeAssumption, EntriesAssumption, SMTT(30) DEF max_entries
  <2>3. IsFiniteSet(0 .. TotalSize - 1) /\ Cardinality(0 .. TotalSize - 1) = TotalSize
    BY <2>1, FS_Interval
  <2>4. IsFiniteSet(FreeBytes) /\ IsFiniteSet(OwnedBytes)
    BY <2>1, <2>3, FS_Subset
  <2>5. Cardinality(FreeBytes) + Cardinality(OwnedBytes) = TotalSize
    <3>1. TotalSize = Cardinality(FreeBytes) + Cardinality(OwnedBytes) - Cardinality({})
      BY <2>1, <2>3, <2>4, FS_Union
    <3> QED BY <2>1, <2>4, <3>1, FS_EmptySet, FS_CardinalityType
  <2>6. freelist_free_space = Cardinality(FreeBytes)
    <3>1. CASE head = nullptr
      <4>1. FreeBytes = {}
        BY <2>1, <3>1, HeadFacts DEF FreeBytes
      <4>2. space_from[max_entries][head] = 0
        BY <2>1, <2>2, <3>1, SpaceFromFacts
      <4> QED BY <4>1, <4>2, FS_EmptySet DEF freelist_free_space
    <3>2. CASE head # nullptr
      <4>1. head \in Used /\ \A i \in Used : nodes[head].offset <= nodes[i].offset
        BY <2>1, <3>2, HeadFacts
      <4>2. FreeFrom(nodes[head].offset) = FreeBytes
        <5>1. ASSUME NEW x \in FreeBytes PROVE x >= nodes[head].offset
          <6>1. x \in Nat /\ InNode(nodes, x)
            BY <2>1, FreeBytesFacts
          <6>2. PICK i \in Used : nodes[i].offset <= x
            BY <6>1 DEF InNode, Used
          <6> QED BY <2>1, <4>1, <6>1, <6>2, UsedFacts
        <5> QED BY <5>1 DEF FreeFrom
      <4>3. Cardinality(Behind(head)) <= max_entries
        <5>1. Behind(head) \subseteq Slots
          BY <2>1, UsedFacts DEF Behind
        <5>2. IsFiniteSet(Slots) /\ Cardinality(Slots) = max_entries
          BY <2>2, FS_Interval DEF Slots
        <5> QED BY <5>1, <5>2, FS_Subset
      <4>4. max_entries \in 0 .. max_entries
        BY <2>2
      <4> QED BY <2>1, <4>1, <4>2, <4>3, <4>4, SpaceFromCounts DEF freelist_free_space
    <3> QED BY <3>1, <3>2
  <2> QED BY <2>5, <2>6
<1>2. IInv /\ Partition => FreeSpaceIsWhatIsLeft
  BY <1>1 DEF FreeSpaceIsWhatIsLeft
<1> QED BY <1>2, Inductive, BytesPartitioned, PTL
=============================================================================
