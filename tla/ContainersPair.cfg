\* Two containers of one image, interchangeable, and one outside change: both
\* checks miss the cache and fetch, and their answers arrive in either order.
CONSTANTS
  app = app
  Checkers = {web, db}
  Images = {app}
  Checkable = {app}
  Digests = {d1, d2}
  NONE = NONE
  TTL = 2
  RequestLimit = 1
  Horizon = 6
  ImageOf <- MCImageOf
  Tagged = {app}
  Budget = 3
  Nap = 1
  Breakable = {"cli"}
  MaxChanges = 1
SPECIFICATION ContainersSpec
PROPERTY VerdictHolds ImplementsRegistry
SYMMETRY Symmetry
