CONSTANTS
  ta = ta
  news = news
  Agent = {ta, news}
  DefaultWeight <- DeskWeight
  Deployment <- Deployments
  AbsentScore <- DeskAbsent
  Factors <- DeskFactors
  TaDesk = ta
  NewsDesk = news
  MinFactors = 3
  BuyComposite = 53
  BuyConf = 16
  SellComposite = 41
  SellConf = 26
  TaBuy = 57
  TaSell = 43
  TaConf = 14
  Unit = 10
  Leverage = 2
  FeeDiv = 10
  Price = {2, 20}
  Score = {30, 100}
  Conf = {2000, 9000}
  LlmQty = {5, 20}
  Probe = 1
  Start = 170
  MinConf = 26
  IntentDiv = 2
  OrderDiv = 2
  MinNotional = 20
  MaxOrders = 2
  MaxPasses = 2
  MaxDeploys = 1
SPECIFICATION Spec
INVARIANTS TypeOK OrdersAreJustified ReportIsTrue
PROPERTY DecisionsAreGated
