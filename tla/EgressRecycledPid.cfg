\* One process id, used twice, and room in the map.
CONSTANTS
  Pids = {p1}
  Threads = {leader, worker}
  Leader = leader
  Elements = {e1, e2}
  Sends = {x1, x2}
  MaxLives = 2
  NONE = NONE
SPECIFICATION Spec
INVARIANT RecycledPidStartsClean
SYMMETRY Symmetry
CHECK_DEADLOCK FALSE
