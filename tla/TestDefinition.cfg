\* Every file of MCDocuments with every command line of MCOptions.
SPECIFICATION Spec
CONSTANTS
  Documents <- MCDocuments
  Options <- MCOptions
INVARIANTS
  TypeOK
  ReportIsComplete
  NestingIsValid
  MemoryIsThere
  OnlyMarkedFilesAreRemoved
