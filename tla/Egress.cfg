\* Six sockets of four processes, see MCEgress; sockets and processes are
\* used up, but the collections and the refreshes go on for ever.
CONSTANTS
  s1 = s1  s2 = s2  s3 = s3  local = local  mesh = mesh  udp = udp
  p1 = p1  p2 = p2  steady = steady  hidden = hidden
  NONE = NONE
  Width = 3
  LocalHosts = {0}
  SharedHosts = {1}
  Fallback <- MCFallback
  AwsLists <- MCAws
  GcpLists <- MCGcp
  NetworkStates = {"up"}
  Sockets <- MCSockets
  Processes <- MCProcesses
  EndsOf <- MCEndsOf
  PeerOf <- MCPeerOf
  InodeOf <- MCInodeOf
  HoldersOf <- MCHoldersOf
  PidOf <- MCPidOf
  LastPid = 3
  Churning = {s1, s2, s3, p1, p2}
  V6 <- MCV6
  Udp <- MCUdp
  Hidden <- MCHidden
  Silent <- MCSilent
SPECIFICATION Spec
INVARIANT TypeOK RowsDescribeTheirSocket StandingSocketsAreListed OnlyEgressIsListed ShadowAlertHasCause LiveLabelIsEarned
