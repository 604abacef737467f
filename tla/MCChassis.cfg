SPECIFICATION Spec
CONSTANTS
  RcFrame <- MCRcFrame
  Mailboxes = 2
INVARIANTS TypeOK SteadyCycleObeys SilentUntilHeard
PROPERTIES ZeroForceSendsZero StickReleaseStops
