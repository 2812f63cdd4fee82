\* One container whose image the registry serves, two outside changes (of the
\* daemon, a backend, the container, the image or the tag) at any moment, a request limit
\* of one tick (10 s) and a budget of three (30 s), so that three slow requests
\* exhaust it.
CONSTANTS
  app = app
  Checkers = {web}
  Images = {app}
  Checkable = {app}
  Digests = {d1, d2}
  NONE = NONE
  TTL = 2
  RequestLimit = 1
  Horizon = 6
  ImageOf <- MCImageOf
  Tagged = {app}
  Budget = 3
  Nap = 1
  Breakable = {"cli", "socket"}
  MaxChanges = 2
SPECIFICATION FairContainersSpec
INVARIANT ContainersTypeOK
PROPERTY ReadersSeeWholeRefreshes VerdictHolds UnavailableMeansBoth RenewedWhenPrompt DownIsShown
