\* Two requests about sessions beside registrations, reviews and suspensions.
CONSTANTS
  Admin = admin
  Emails = {admin, ana}
  Clerks = {k1}
  Callers = {c1, c2}
  Tokens = {t1, t2}
  MaxChanges = 1
  NoToken = NoToken
SPECIFICATION MCSpec
CHECK_DEADLOCK FALSE
INVARIANTS
  ExchangedByRacersOnly
  OldSessionsAreExplained
PROPERTIES
  SuspensionEndsSessions
