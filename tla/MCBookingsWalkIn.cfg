\* A walk-in booking whose request ends before its audit row is written.
SPECIFICATION Spec
CONSTANTS
  Routes <- OneRoute
  Offers <- SomeOffers
  Seed <- SeededOne
  Admins = {}
  MaxRates = 1
  Emails = {adm}
  Admin = adm
  Clerks = {}
  Weights <- SomeWeights
  Numbers = {n1}
  Desks = {d1}
  MaxBookings = 1
  TRACKING_NUMBER_ATTEMPTS = 2
INVARIANTS
  WalkInsAreAudited
CHECK_DEADLOCK FALSE
