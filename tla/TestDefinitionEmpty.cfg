SPECIFICATION Spec
CONSTANTS
  Documents <- MCDocuments
  Options <- MCOptions
INVARIANTS
  EmptyElementsAreRead
