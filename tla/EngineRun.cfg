CONSTANTS
  p1 = p1
  p2 = p2
  a = a
  b = b
  r = r
  q = q
  Pid = {p1, p2}
  Server = {a, b}
  Request = {r, q}
  Kinds = {"start", "stop", "status"}
  MaxDeaths = 2
  MaxRaces = 1
  MaxRestarts = 1
SPECIFICATION Spec
INVARIANTS TypeOK OneTrackedLoop AnswersAreTrue
SYMMETRY Symmetry
