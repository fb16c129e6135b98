\* Two sockets, three events in four ticks, three ticks to a second.
SPECIFICATION FairSpec
CONSTANTS
  Clients = {c1, c2}
  Limit = 3
  Window = 4
  Second = 3
INVARIANTS TypeOK AtMostLimit RetryAfterSuffices
PROPERTIES OnlyBurstsRejected GoneAreForgotten
