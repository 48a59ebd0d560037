\* Two symbols, one led by the agents and one by VCP, four bars four hours apart.
CONSTANTS
  NSym = 2
  Unit = 30
  Leverage = 3
  TakerDiv = 30
  MakerDiv = 30
  SlipDiv = 20
  FundDiv = 20
  Tiers <- MCTiers
  TakeDiv = 5
  StopDiv = 5
  MaxHold = 2
  Cooldown = 2
  WeightDen = 20
  Bars = 4
  Candle <- MCCandle
  Conf = {20}
  Cap = 9
  AgentLed = {1}
  DrawdownStop = 12
  MaxLeverage = 2
  InitialCash = 300
  Warmup = 1
  StartMin = 0
  BarMin = 240
  Gaps = 0
SPECIFICATION RunSpec
CHECK_DEADLOCK FALSE
INVARIANTS RunTypeOK MoneyIsExplained BarsAreSound
PROPERTY EntriesAreSound
