----------------------------- MODULE StatTable -----------------------------
(***************************************************************************)
(* What the stat cache promises its users, with a table in place of the    *)
(* tree: an entry is found under its key until it is replaced or thrown    *)
(* away for its age, and nothing done to one key touches another.          *)
(***************************************************************************)
EXTENDS Integers

CONSTANTS
  Slot, Entry, Jumps,
  NoAnswer,
  Older(_, _),    \* an entry after the clock has moved by some seconds
  Old(_)          \* an entry that has to go

VARIABLES table, answer

vars == <<table, answer>>

Without(gone) == [i \in (DOMAIN table) \ gone |-> table[i]]

Init == table = [i \in {} |-> {}] /\ answer = NoAnswer

Find(i) == i \in DOMAIN table /\ answer' = table[i] /\ UNCHANGED table

Store(i) ==
  /\ answer' \in Entry
  /\ table' = [j \in (DOMAIN table) \union {i} |-> IF j = i THEN answer' ELSE table[j]]

Fail == answer' = NoAnswer /\ UNCHANGED table

Tick(seconds) ==
  /\ answer' = NoAnswer
  /\ LET aged == [i \in DOMAIN table |-> Older(table[i], seconds)]
     IN table' = [i \in {j \in DOMAIN table : ~Old(aged[j])} |-> aged[i]]

\* At the end the entries go one by one.
Remove(i) == i \in DOMAIN table /\ answer' = NoAnswer /\ table' = Without({i})

Next ==
  \/ Fail \/ \E seconds \in Jumps : Tick(seconds)
  \/ \E i \in Slot : Find(i) \/ Store(i) \/ Remove(i)

Spec == Init /\ [][Next]_vars
=============================================================================
