\* Two requests of any kind over a pool of one connection, as in production.
SPECIFICATION Spec
CONSTANTS
  PoolSize = 1
  Requests = {r1, r2}
  Attempts = 2
  BulkRows = 2
INVARIANTS
  PoolTypeOK
  HolderNeverWaits
PROPERTIES
  EveryRequestIsAnswered
