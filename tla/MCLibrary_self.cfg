CONSTANTS
  SUMMARY = "SUMMARY.md"
  Paths <- MCPaths
  NoFile = "cmd"
  Texts <- MCTexts
  LowerCase <- MCLowerCase
  RESERVED = {"toc"}
  Registry = {"mem.summary"}
  Books <- MCBooks
SPECIFICATION Spec
\* Loading ends.
CHECK_DEADLOCK FALSE
INVARIANT ListedFilesAreThere
