CONSTANTS
  MAX_LINKS = 3
  TLDR_MAX_LINES = 2
  DropIns <- MCDropIns
  Unset = Unset
  NoLine = NoLine
  Letters = {"a", "l"}
  Walks = {}
  Configs <- MCConfigs
  Prompts = {}
  Bodies = {}
  Queries = {}
  Searches = {}
  Wraps = {}
  Documents = {}
  NoLink = NoLink
  NoMarker = NoMarker
  Pending = Pending
SPECIFICATION Spec
\* One call.
CHECK_DEADLOCK FALSE
INVARIANT FirstValueOrUnreadable
