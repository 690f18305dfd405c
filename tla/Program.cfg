CONSTANTS
  MaxRequests = 2
SPECIFICATION FairSpec
\* The program exits, or a probe does not come back.
CHECK_DEADLOCK FALSE
INVARIANTS CodeTells TerminalGivenBack MouseFollows
PROPERTIES Serves
