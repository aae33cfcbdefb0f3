SPECIFICATION FairSpec
CONSTANTS
  v1 = v1
  v2 = v2
  r1 = r1
  VAddr <- Pages
  Roots <- Tables
  Bare = bare
  Zero = zero
  DenyRead <- PageTwo
  DenyWrite <- PageTwo
  Locked = FALSE
  EntryAddrs = {1, 2, 3, 4, 7, 11, 511}
  Addrs = {0, 3, 4, 5, 7, 8, 9, 11, 12, 13, 15, 16, 17, 27, 28, 29, 31, 32, 33, 43, 44, 45, 47, 48, 49, 63, 64, 65, 2043, 2044, 2045, 4095, 4096, 4097}
INVARIANTS TypeOK StableOnBus FetchGetsItsWord BareAccessIsServed ProtectedUntouched 
PROPERTIES BusReleasedUnlessDenied FetchesGoOn
