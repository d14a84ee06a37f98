CONSTANTS
  MaxLen = 7
  MaxTokens = 3
  MaxAtoms = 3
SPECIFICATION Spec
INVARIANTS CommentsRemoved HitIsSameStatement FoundAgain MatchIsSubstitution PatternForgetsValues PatternIsItsRule
CHECK_DEADLOCK FALSE
