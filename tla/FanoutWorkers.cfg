\* Two workers on one cursor: passes that die, an insert that fails.
CONSTANTS
  u1 = u1
  u2 = u2
  w1 = w1
  w2 = w2
  User = {u1, u2}
  Worker = {w1, w2}
  InitFollows = {u1}
  FollowRank <- UsersInOrder
  MaxSignal = 3
  Batch = 2
  OrderedIds = TRUE
  MaxChanges = 1
  MaxErrors = 1
  MaxCrashes = 1
SPECIFICATION FairSpec
CHECK_DEADLOCK TRUE
INVARIANT TypeOK
INVARIANT LosesNothing
PROPERTY CatchesUp
