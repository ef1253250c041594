SPECIFICATION PagesSpec
CONSTANTS
  Trades <- MCTrades
  DayOf <- MCDayOf
  SymbolOf <- MCSymbolOf
  NetOf <- MCNetOf
  StartRows <- MCStartRows
  Symbols = {2}
  Days = {59}
  Origin = 24336
  OriginWeekday = 6
  Months <- MCMonths
  DefaultSize = 2
  PageSizes = {1, 2}
  MaxPageSize = 3
  DialogPage = 2
  TooltipTrades = 1
  FirstUrls <- MCFirstUrls
  NoData = NoData
  MaxMoves = 3
  MaxChanges = 1
  MaxPages = 3
INVARIANTS EmptyMeansEmpty NumbersAgree GridIsTheMonth
CHECK_DEADLOCK FALSE
