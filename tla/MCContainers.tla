----------------------------- MODULE MCContainers -----------------------------
(***************************************************************************)
(* Keys for the hash table: "a", "b" and "ba", the first and the last of   *)
(* which share a slot of a table of two.                                   *)
(***************************************************************************)
EXTENDS Containers

SomeKeys == {<<97>>, <<98>>, <<98, 97>>}
=============================================================================
