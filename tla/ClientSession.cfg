SPECIFICATION FairSpec
CONSTANTS
  Fds = {f1, f2, f3}
  NoFd = NoFd
  MaxClients = 2
INVARIANTS
  ExclusiveUnlessStale
  ClaimAccounted
  NoInheritedBytes
  SocketsOpen
PROPERTIES
  StaleOnlyByDeferredRelease
  AbandonedSessionFreed
