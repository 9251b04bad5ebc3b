CONSTANTS
  Runs = {1}
  Headrooms = {"claude"}
  Credentials = "credentials"
  Configs = {"x", "y"}
  Off = "off"
  Unbound = "unbound"
  Routes = {"create"}
  Plans <- SecondNeedsMore
  Wishes <- FirstAsksFirst
  AtStart <- NoHeadroomYet
  MaxTroubles = 1

SPECIFICATION Spec
INVARIANT ClaimsAreReleased
CHECK_DEADLOCK FALSE
