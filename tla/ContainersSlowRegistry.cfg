\* The smallest instance in which a registry that answers nothing meets a
\* daemon that is up.
CONSTANTS
  app = app
  Checkers = {web}
  Images = {app}
  Checkable = {app}
  Digests = {d1, d2}
  NONE = NONE
  TTL = 2
  RequestLimit = 1
  Horizon = 6
  ImageOf <- MCImageOf
  Tagged = {app}
  Budget = 3
  Nap = 1
  Breakable = {"cli"}
  MaxChanges = 1
SPECIFICATION FairContainersSpec
PROPERTY RenewedDespiteSlowRegistry
