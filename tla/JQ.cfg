SPECIFICATION MCSpec
CONSTANTS
  q = q
  h1 = h1
  h2 = h2
  h3 = h3
  Request = {q}
  Schedule = {1, 2}
  Host = {h1, h2, h3}
  MaxAttempts <- MCMaxAttempts
  MaxFaults = 1
  MaxEdits = 2
INVARIANTS CancellationWins AttemptLeft OneResult NoneSkipped
PROPERTIES FinalStays AllWorkEnds
