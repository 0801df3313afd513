------------------------------- MODULE Hashtable -------------------------------
(***************************************************************************)
(* containers/hashtable.c: one slot per hash value and no record of the    *)
(* key that it was filled under.  ideal maps each key to the value that it *)
(* was last given, by itself or by hashtable_fill.                         *)
(***************************************************************************)
EXTENDS ContainerState, SequencesExt

CONSTANTS
  HashWord,      \* the values of a u64: 0 .. HashWord - 1
  Keys,          \* strings, as sequences of their bytes
  element_counts \* the numbers of slots that tables are created with

ASSUME HashtableAssumption ==
  HashWord \in Nat \ {0} /\ element_counts \subseteq Nat /\ Keys \subseteq Seq(0 .. 255)

multiplier == 97

hash_key(key, element_count) ==
  FoldLeft(LAMBDA hash, us : (hash * multiplier + us) % HashWord, 0, key) % element_count

no_hashtable == [is_pointer_type |-> FALSE, memory |-> nullptr]

Slots == DOMAIN object.memory

Slot(key) == hash_key(key, Cardinality(Slots))

HashtableInit ==
  /\ subject = "hashtable"
  /\ object = no_hashtable
  /\ ideal = [k \in Keys |-> unwritten]
  /\ answer = "none"

hashtable_create(element_count, is_pointer_type) ==
  /\ Calls("hashtable")
  /\ object = no_hashtable
  /\ \/ element_count = 0 /\ Returns("refused")
     \/ /\ element_count > 0
        /\ object' = [is_pointer_type |-> is_pointer_type,
                      memory |-> [i \in 0 .. element_count - 1 |-> unwritten]]
        /\ ideal' = [k \in Keys |-> unwritten]
        /\ answer' = "done"
  /\ UNCHANGED subject

hashtable_destroy ==
  /\ Calls("hashtable")
  /\ object' = no_hashtable
  /\ answer' = "done"
  /\ UNCHANGED <<subject, ideal>>

\* The table is there.
CallsTable == Calls("hashtable") /\ object.memory # nullptr

Sets(key, value) ==
  /\ object' = [object EXCEPT !.memory[Slot(key)] = value]
  /\ ideal' = [ideal EXCEPT ![key] = value]
  /\ answer' = "done"

hashtable_set(key, value) ==
  /\ CallsTable
  /\ \/ object.is_pointer_type /\ Returns("refused")
     \/ ~object.is_pointer_type /\ Sets(key, value)
  /\ UNCHANGED subject

\* A null value empties the slot, whoever filled it.
hashtable_set_ptr(key, value) ==
  /\ CallsTable
  /\ \/ ~object.is_pointer_type /\ Returns("refused")
     \/ object.is_pointer_type /\ Sets(key, value)
  /\ UNCHANGED subject

hashtable_get(key) ==
  /\ CallsTable
  /\ \/ object.is_pointer_type /\ Returns("refused")
     \/ ~object.is_pointer_type /\ Returns(object.memory[Slot(key)])
  /\ UNCHANGED subject

\* A null pointer is reported as a failure.
hashtable_get_ptr(key) ==
  /\ CallsTable
  /\ Returns(IF object.is_pointer_type /\ object.memory[Slot(key)] # unwritten
             THEN object.memory[Slot(key)] ELSE "refused")
  /\ UNCHANGED subject

\* Mutant: the loop ends one slot early.
hashtable_fill_short(value) ==
  /\ CallsTable
  /\ \/ object.is_pointer_type /\ Returns("refused")
     \/ /\ ~object.is_pointer_type
        /\ object' = [object EXCEPT !.memory = [i \in Slots |->
             IF i < Cardinality(Slots) - 1 THEN value ELSE @[i]]]
        /\ ideal' = [k \in Keys |-> value]
        /\ answer' = "done"
  /\ UNCHANGED subject

hashtable_fill(value) ==
  /\ CallsTable
  /\ \/ object.is_pointer_type /\ Returns("refused")
     \/ /\ ~object.is_pointer_type
        /\ object' = [object EXCEPT !.memory = [i \in Slots |-> value]]
        /\ ideal' = [k \in Keys |-> value]
        /\ answer' = "done"
  /\ UNCHANGED subject

HashtableNext ==
  \/ \E n \in element_counts, p \in BOOLEAN : hashtable_create(n, p)
  \/ hashtable_destroy
  \/ \E k \in Keys, v \in Values : hashtable_set(k, v)
  \/ \E k \in Keys, v \in Values \cup {unwritten} : hashtable_set_ptr(k, v)
  \/ \E k \in Keys : hashtable_get(k) \/ hashtable_get_ptr(k)
  \/ \E v \in Values : hashtable_fill(v)

HashtableSpec == HashtableInit /\ [][HashtableNext]_vars

-----------------------------------------------------------------------------
\* What a table holds for a key is what the key was last given, or what a key
\* with the same slot was: only collisions are lost, and nothing is invented.
HashtableLosesOnlyCollisions ==
  subject = "hashtable" /\ object.memory # nullptr =>
    \A k \in Keys : \E j \in Keys :
      /\ Slot(j) = Slot(k)
      /\ object.memory[Slot(k)] = ideal[j]
=============================================================================
