CONSTANTS
  Handles <- MCHandles
  NoHandle = "-"
  Toc <- MCToc
  Hubs <- MCHubs
  Links <- MCLinks
  Names <- MCNames
  Lookup <- MCLookup
  Starts = {"memroy", "zzz"}
  Queries = {"", "free"}
  EmptyQuery = ""
  Found <- MCFound
  LiveLines = {0, 2}
  Answer = 1
  AskLines = 2
  Heights = {0, 1, 3}
  MaxUsize = 15
  Keys <- KeyRunKeys
  Digits = {0, 1}
  Buttons = {"wheel"}
  MaxHistory = 0
SPECIFICATION Spec
\* The program stops when the reader quits.
CHECK_DEADLOCK FALSE
PROPERTY DownGoesDown
