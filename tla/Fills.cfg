\* A spot or a perpetual account at three times leverage, a fee of a tenth.
CONSTANTS
  Unit = 15120000
  Leverage = 3
  FeeDiv = 10
  Start = 8
  Qty = {1, 2}
  Price = {1, 2, 3}
  MaxFills = 4
SPECIFICATION TradingSpec
CHECK_DEADLOCK FALSE
INVARIANTS
  TradingTypeOK
  BooksBalance
  EquityIsKept
