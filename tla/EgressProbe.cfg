\* Two ids with two processes each in turn, two threads, and a map of one
\* element, so that it can be full and be taken over; four sends.
\* Processes, ids and sends run out, so the system may stop.
CONSTANTS
  Pids = {p1, p2}
  Threads = {leader, worker}
  Leader = leader
  Elements = {e1}
  Sends = {x1, x2, x3, x4}
  MaxLives = 2
  NONE = NONE
SPECIFICATION Spec
INVARIANT TypeOK OwnBytesOnly AllBytesUnlessRaced
SYMMETRY Symmetry
CHECK_DEADLOCK FALSE
