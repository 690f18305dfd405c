CONSTANTS
  Handles <- MCHandles
  NoHandle = "-"
  Toc <- MCToc
  Hubs <- MCHubs
  Links <- MCLinks
  Names <- MCNames
  Lookup <- MCLookup
  Starts = {"memroy", "zzz"}
  Queries = {"", "free"}
  EmptyQuery = ""
  Found <- MCFound
  LiveLines = {1}
  Answer = 1
  AskLines = 2
  Heights = {2}
  MaxUsize = 15
  Keys <- NavKeys
  Digits = {}
  Buttons = {"click", "right"}
  MaxHistory = 2
SPECIFICATION Spec
\* The program stops when the reader quits.
CHECK_DEADLOCK FALSE
INVARIANTS ItemsAreTheScreens ExpandedAreQuestions AskIsAboutThePage
PROPERTIES IsABrowser ContentsFollowThePage
