SPECIFICATION Spec
CONSTANTS
  Browsers = {b1}
  Market = {1, 2, 3, 5}
  Bundle = {2}
  Week = 2
  Month = 6
  YahooLacks = {3}
  MaxGap = 2
  TTL = 1
  ErrTTL = 1
  PageSize = 2
  CronAt = {6}
  Start = 4
  MaxTime = 6
PROPERTIES CronOkMeansSaved TradingViewWins 
