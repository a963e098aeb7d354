SPECIFICATION LiveSpec
CONSTANTS
  Stores = {"redis", "mysql"}
  Procs = {p1, p2}
  MaxTokens = 4
  MaxLogins = 2
INVARIANTS TypeOK OneActivePerFamily SingleSuccessor PredecessorSpent LogoutEndsLogin
INVARIANTS SecondTryEnds CookieIsCurrent
PROPERTIES RotationOfFamilies EveryRequestAnswered
