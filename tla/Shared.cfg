CONSTANTS
  Runs = {1, 2}
  Headrooms = {"claude"}
  Credentials = "credentials"
  Configs = {"x", "y"}
  Off = "off"
  Unbound = "unbound"
  Routes = {"create", "restart", "desktop"}
  Plans <- SecondNeedsMore
  Wishes <- FirstAsksFirst
  AtStart <- NoHeadroomYet
  MaxTroubles = 1

SPECIFICATION Spec
INVARIANTS UsersExcludeChanges OneConfig NoOrphanLease CommitFindsItsTicket StopDischarges ClosedStaysEmpty
PROPERTY NoOneWaitsForEver
CHECK_DEADLOCK FALSE
