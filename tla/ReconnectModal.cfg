CONSTANTS
  Call = {c1, c2, c3}
SPECIFICATION Spec
INVARIANT TypeOK
INVARIANT RetryArmed
INVARIANT DialogMatches
PROPERTY OutageEnds
PROPERTY ReloadsOnlyLost
