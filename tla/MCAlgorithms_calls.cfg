CONSTANTS
  MAX_LINKS = 3
  TLDR_MAX_LINES = 2
  DropIns <- MCDropIns
  Unset = Unset
  NoLine = NoLine
  Letters = {"a", "l"}
  Walks <- MCWalks
  Configs <- MCConfigs
  Prompts <- MCPrompts
  Bodies <- MCBodies
  Queries <- MCQueries
  Searches <- MCSearches
  Wraps <- MCWraps
  Documents <- MCDocuments
  NoLink = NoLink
  NoMarker = NoMarker
  Pending = Pending
SPECIFICATION Spec
\* One call.
CHECK_DEADLOCK FALSE
INVARIANTS WalksAsChroot FirstValueWins NamesHidden SectionsByTheRules ClosestComesFirst BestHitsShown WrapsWhole StandsWhereItBelongs
