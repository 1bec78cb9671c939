SPECIFICATION Spec
CONSTANTS
  Name = {"a", "b", "c"}
  hash <- MChash
  Jumps <- MCJumps
  MaxBack = 0
INVARIANTS TreeSound AnswersRight
PROPERTY ImplementsTable
