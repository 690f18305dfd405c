CONSTANTS
  Probed <- MCProbed
  RootsOwn <- MCRootsOwn
  NoAnswer = NoAnswer
SPECIFICATION Spec
INVARIANTS SaysWhy
PROPERTIES RootKnowsMore
