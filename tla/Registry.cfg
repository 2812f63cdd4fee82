\* Two concurrent checks of an image whose registry can be asked and of one
\* whose reference is not checkable; entries live for two ticks and a request
\* for one, so a digest can be old on arrival and outlive a push in the cache.
CONSTANTS
  Checkers = {c1, c2}
  Images = {app, pinned}
  Checkable = {app}
  Digests = {d1, d2}
  NONE = NONE
  TTL = 2
  RequestLimit = 1
  Horizon = 3
SPECIFICATION FairSpec
INVARIANT RegistryInv
PROPERTY FreshVerdict UnknownHasCause RetryRateLimited EveryFetchEnds
