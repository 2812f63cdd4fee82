\* Polls for ever, see MCStats; functions take up to five seconds together.
CONSTANTS
  NONE = NONE
  Order <- MCOrder
  TTL <- MCTTL
  Cost <- MCCost
  MaxWaiting = 7
SPECIFICATION Spec
INVARIANT PollingKeepsUp PartsAreFresh
