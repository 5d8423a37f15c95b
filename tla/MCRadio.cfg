CONSTANTS
  w1 = w1
  c1 = c1
  s1 = s1
  Workers <- MCWorkers
  Room <- MCRoom
  Queries <- MCQueries
  Settings <- MCSettings
  IdModulus = 3
  MaxOwed = 2
  None = None
  Callers <- MCCallers
SPECIFICATION Spec
INVARIANTS TypeOK AnswerReturnedOnce ReportsAreNotAnswers RouterHolderGoesOn
PROPERTY ReleaseIsNearer
