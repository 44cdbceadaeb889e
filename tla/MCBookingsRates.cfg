\* An empty database: an admin creates, switches and prices two routes beside a
\* booking.
SPECIFICATION Spec
CONSTANTS
  Routes <- TwoRoutes
  Offers <- SomeOffers
  Seed <- NoSeed
  Admins = {a1}
  MaxRates = 2
  Emails = {adm}
  Admin = adm
  Clerks = {}
  Weights <- SomeWeights
  Numbers = {n1}
  Desks = {d1}
  MaxBookings = 1
  TRACKING_NUMBER_ATTEMPTS = 2
INVARIANTS
  PricedStaysPriced
  OneActiveRate
  PricedFromItsRoute
PROPERTIES
  RateAuditTellsTheChange
  KeepsShop
CHECK_DEADLOCK FALSE
