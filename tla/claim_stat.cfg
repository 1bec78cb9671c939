SPECIFICATION Spec
CONSTANTS
  Name = {"a", "b", "c"}
  hash <- MChash
  Jumps <- MCJumpsBack
  MaxBack = 1
INVARIANTS AnswersOwnFile AnswersOfThisSecond
