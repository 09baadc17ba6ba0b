SPECIFICATION FairPluginSpec
CONSTANTS
  Lines = {1, 2}
  Texts = {0, 1}
  Printers = {"vlc", "http"}
  LinesOf <- MCLinesOf
  MaxPrints = 3
  Recorders = {"vlc", "control", "http", "main"}
  KindsOf <- MCKindsOf
  Flags = {"scalar", "tcp"}
  MaxConn = 2
  MaxRequests = 2
  Options <- MCOptions
  MaxOpens = 2
INVARIANTS OverlayShowsLastPrint FaultsAreExplained ComponentsOutliveTheirUsers TracesAreComplete
PROPERTIES PrintsAreShown CloseReturns
CHECK_DEADLOCK FALSE
