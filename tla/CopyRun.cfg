\* One worker beside one API process; the account starts with the price of
\* one item, so its cash reaches zero.
CONSTANTS
  Worker = {w}
  Api = {a}
  Start = 1
  Limit = 2
  Window = 2
  Kinds = {"buy", "sell", "bad"}
  MaxItems = 3
  MaxUser = 1
  MaxFailures = 1
SPECIFICATION FairSpec
INVARIANTS
  TypeOK
  ExecutionsAreBooked
  AccountIsExplained
  DisablingStops
PROPERTIES
  EventuallyBooked
