SPECIFICATION Spec
CONSTANTS
  BoxType = {"in", "draft"}
  UnboxedType = {"unread"}
  limit <- MClimit
  Time = {1, 2}
  MaxIndex = 3
INVARIANTS LimitKept BoxesFresh
PROPERTIES DeadStaysDead OldestFirst
