CONSTANTS
  Texts <- MCTexts
  Keyword <- Words
  Reserved <- Strict
SPECIFICATION Spec
INVARIANTS LinesSeen GoalsRight ParsesAsGrammar
PROPERTY Ends
CHECK_DEADLOCK FALSE
