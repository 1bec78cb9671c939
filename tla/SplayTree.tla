----------------------------- MODULE SplayTree -----------------------------
(***************************************************************************)
(* The top-down splay tree with sizes of splaytree.c, on trees as values:  *)
(* a node is a record with the fields of splay_tree, and what the code     *)
(* links through the pointers l and r while it goes down is a path, a      *)
(* sequence of nodes from the top on.  size is a field the operations      *)
(* maintain, never computed from the tree.                                 *)
(***************************************************************************)
EXTENDS Integers, Sequences
LOCAL INSTANCE SequencesExt

\* NULL; node_size is the field size then.
Nil == [size |-> 0]

Other(side) == IF side = "left" THEN "right" ELSE "left"
Side(i, t) == IF i < t.key THEN "left" ELSE "right"

RotateKeepingSize(t, side) ==
  LET y == t[side]
  IN [y EXCEPT ![Other(side)] = [t EXCEPT ![side] = y[Other(side)]]]

\* The child on that side comes up; its own size is put right later.
Rotate(t, side) ==
  LET y == t[side]
      down == [t EXCEPT ![side] = y[Other(side)]]
  IN [y EXCEPT ![Other(side)] = [down EXCEPT !.size = down.left.size + down.right.size + 1]]

\* The loop of splaytree_splay: l and r are the paths linked left and right.
RECURSIVE Descend(_, _, _, _)
Descend(t, i, l, r) ==
  IF i = t.key THEN [top |-> t, l |-> l, r |-> r]
  ELSE LET s == Side(i, t)
           zigzig == t[s] # Nil /\ i # t[s].key /\ Side(i, t[s]) = s
           top == IF zigzig THEN Rotate(t, s) ELSE t
       IN IF top[s] = Nil THEN [top |-> top, l |-> l, r |-> r]
          ELSE Descend(top[s], i, IF s = "right" THEN Append(l, top) ELSE l,
                                  IF s = "left" THEN Append(r, top) ELSE r)

\* l_size and r_size as they are counted while going down.
PathSize(path, side) == FoldLeft(LAMBDA total, y : total + 1 + y[side].size, 0, path)

\* The nodes of a path, linked on that side down to last, with their sizes
\* corrected from the top on.
RECURSIVE Link(_, _, _, _)
Link(path, side, total, last) ==
  IF path = <<>> THEN last
  ELSE LET y == Head(path)
       IN [y EXCEPT !.size = total,
                    ![side] = Link(Tail(path), side, total - 1 - y[Other(side)].size, last)]

splaytree_splay(t, i) ==
  IF t = Nil THEN t
  ELSE LET d == Descend(t, i, <<>>, <<>>)
           l_size == PathSize(d.l, "left") + d.top.left.size
           r_size == PathSize(d.r, "right") + d.top.right.size
       IN [d.top EXCEPT !.size = l_size + r_size + 1,
                        !.left = Link(d.l, "right", l_size, d.top.left),
                        !.right = Link(d.r, "left", r_size, d.top.right)]

\* The key is at the root, where splaytree_splay brings it.
AtRoot(t, i) == t # Nil /\ t.key = i

\* The new node takes over one side of the old root.
NewRoot(t, i, data) ==
  LET s == Side(i, t)
      old == [t EXCEPT ![s] = Nil, !.size = 1 + t[Other(s)].size]
      new == [key |-> i, data |-> data, size |-> 0, left |-> Nil, right |-> Nil]
      joined == [new EXCEPT ![s] = t[s], ![Other(s)] = old]
  IN [joined EXCEPT !.size = 1 + joined.left.size + joined.right.size]

splaytree_insert(t, i, data) ==
  IF t = Nil
  THEN [key |-> i, data |-> data, size |-> 1, left |-> Nil, right |-> Nil]
  ELSE LET top == splaytree_splay(t, i)
       IN IF top.key = i THEN top ELSE NewRoot(top, i, data)

splaytree_delete_left(t, i) ==
  LET top == splaytree_splay(t, i)
      x == IF top.left = Nil THEN top.right ELSE splaytree_splay(top.left, i)
  IN IF ~AtRoot(top, i) THEN top
     ELSE IF x = Nil THEN Nil ELSE [x EXCEPT !.size = t.size - 1]

splaytree_delete(t, i) ==
  LET top == splaytree_splay(t, i)
      x == IF top.left = Nil THEN top.right
           ELSE [splaytree_splay(top.left, i) EXCEPT !.right = top.right]
  IN IF ~AtRoot(top, i) THEN top
     ELSE IF x = Nil THEN Nil ELSE [x EXCEPT !.size = t.size - 1]

-----------------------------------------------------------------------------
\* What a tree is, for the properties.

RECURSIVE Nodes(_)
Nodes(t) == IF t = Nil THEN {} ELSE {t} \union Nodes(t.left) \union Nodes(t.right)

RECURSIVE Keys(_)
Keys(t) == IF t = Nil THEN {} ELSE {t.key} \union Keys(t.left) \union Keys(t.right)

RECURSIVE Pairs(_)
Pairs(t) ==
  IF t = Nil THEN {} ELSE {<<t.key, t.data>>} \union Pairs(t.left) \union Pairs(t.right)
=============================================================================
