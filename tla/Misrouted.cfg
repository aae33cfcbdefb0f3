SPECIFICATION Spec
CONSTANTS
  v1 = v1
  v2 = v2
  r1 = r1
  VAddr <- Pages
  Roots <- Tables
  Bare = bare
  Zero = zero
  DenyRead <- Nothing
  DenyWrite <- Nothing
  Locked = FALSE
  EntryAddrs = {1}
  Addrs = {0}
INVARIANTS DataGetsItsWord
