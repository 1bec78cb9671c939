---------------------------- MODULE MCStatCache ----------------------------
(* Hashes for model checking: the name "a" looked for with symlinks and    *)
(* the name "b" looked for without them have the same key.                 *)
EXTENDS StatCache

MChash == [name \in Name |-> CASE name = "a" -> 1 [] name = "b" -> 2 [] OTHER -> 4]
MCJumps == {1, 3}
MCJumpsBack == {-1, 1}
=============================================================================
