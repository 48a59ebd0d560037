\* One of the two server processes restarts.
CONSTANTS
  Server = {a, b}
  Owner = a
  Client = {c}
  JobBars = 2
  MayHang = TRUE
  MaxFailures = 1
SPECIFICATION Spec
CHECK_DEADLOCK FALSE
INVARIANT OnlyOrphansFail
