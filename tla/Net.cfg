\* The slices and the quarter second of rv_net.c in units of one active slice, the
\* quarter second shortened.  Connections fail with newlib's ECONNREFUSED, ENETUNREACH,
\* ENETDOWN and EADDRNOTAVAIL.
SPECIFICATION NetSpec
CONSTANTS
  Fds = {1, 2}
  ActiveSlice = 1
  IdleSlice = 4
  GoesIdleAfter = 6
  Timeouts <- SomeTimeouts
  SocketFds = {1, 2}
  Peers = {"ann", "bob"}
  Networks = {"home"}
  MaxInbox = 1
  Failures = {111, 114, 115, 125}
INVARIANTS NoticedSoon EndsInTime NamesItsSender ModeAsAsked ConnectsAsSeen
PROPERTIES WaitEnds
