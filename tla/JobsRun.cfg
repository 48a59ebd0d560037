\* Two server processes, a client; the thread may hang, processes may
\* die, writes may fail, and deadlines pass at any time.
CONSTANTS
  Server = {a, b}
  Owner = a
  Client = {c}
  JobBars = 2
  MayHang = TRUE
  MaxFailures = 2
SPECIFICATION FairSpec
CHECK_DEADLOCK FALSE
INVARIANTS
  TypeOK
  VerdictsAreTrue
  FileSettles
PROPERTIES
  NoPollForever
