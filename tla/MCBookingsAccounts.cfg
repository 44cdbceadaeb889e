\* A seeded database: two bookings at a time beside registrations, reviews and
\* suspensions.
SPECIFICATION Spec
CONSTANTS
  Routes <- OneRoute
  Offers <- SomeOffers
  Seed <- SeededOne
  Admins = {}
  MaxRates = 1
  Emails = {adm, u1}
  Admin = adm
  Clerks = {c1}
  Weights <- SomeWeights
  Numbers = {n1, n2}
  Desks = {d1, d2}
  MaxBookings = 2
  TRACKING_NUMBER_ATTEMPTS = 2
INVARIANTS
  TypeOK
  VerdictsAreOnRecord
  NumbersAreUnique
  AgentsWereApproved
  SavedWithItsBooking
  BookingsInFlight
SYMMETRY Symmetric
CHECK_DEADLOCK FALSE
