CONSTANTS
  Times = {1, 2}
  MaxIOs = 5
  MaxScopes = 4
SPECIFICATION TPSpec
INVARIANTS
  AnswersAreOfTheTimes
  ScopesAreTheCallers
