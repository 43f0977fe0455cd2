SPECIFICATION FairSpec
CONSTANTS
  Sessions <- MCSessions
  ParseTheory <- Parse
INVARIANTS RepliesAgree Sound
PROPERTY Answered
CHECK_DEADLOCK FALSE
