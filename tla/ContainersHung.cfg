\* The smallest instance in which the daemon hangs after a refresh was published.
CONSTANTS
  app = app
  Checkers = {web}
  Images = {app}
  Checkable = {app}
  Digests = {d1, d2}
  NONE = NONE
  TTL = 2
  RequestLimit = 1
  Horizon = 6
  ImageOf <- MCImageOf
  Tagged = {app}
  Budget = 3
  Nap = 1
  Breakable = {"cli"}
  MaxChanges = 1
SPECIFICATION FairContainersSpec
PROPERTY HungIsShown
