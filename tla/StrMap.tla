------------------------------- MODULE StrMap -------------------------------
(***************************************************************************)
(* What a client of src/std/collections/hashmap.mc sees: a finite map, and *)
(* what each call does to it.                                              *)
(***************************************************************************)
VARIABLE map

New == DOMAIN map = {}

Put(k, v) == map' = [x \in DOMAIN map \cup {k} |-> IF x = k THEN v ELSE map[x]]

Del(k) == map' = [x \in DOMAIN map \ {k} |-> map[x]]

Free == DOMAIN map' = {}

Same == map' = map
============================================================================
