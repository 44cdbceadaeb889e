\* Both modes, in development and in production, broken off and run again anywhere,
\* while someone registers and books.
SPECIFICATION SeedingSpec
CONSTANTS
  Visitors = {"visitor"}
INVARIANTS
  NothingIsRefused
  AdminMeansSeeded
  AttachmentsHaveFiles
  SeededHistoryIsLegal
  SeededFigures
  SeededBillsAgree
PROPERTIES
  ProductionKeepsAccounts
CHECK_DEADLOCK FALSE
