SPECIFICATION FileSpec
CONSTANTS
  Threads = {t1, t2, t3}
  Fds = {0, 1, 2, 3}
  Errnos = {2, 11, 13}
INVARIANTS DescriptorsOwned
PROPERTIES ImplementsAtomic GetReturns
