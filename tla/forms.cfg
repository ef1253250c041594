SPECIFICATION FormsSpec
CONSTANTS
  None = None
  Prices <- MCPrices
  Volumes <- MCVolumes
  Percents <- MCPercents
  MaxPieces = 2
  MaxEdits = 2
  MaxForms = 2
  MaxSends = 2
  MaxOthers = 1
INVARIANTS SuggestionIsExact FailedSaveIsSaid
PROPERTIES SavesExactlyTheChange 
CHECK_DEADLOCK FALSE
