\* A clock that is set once and one fault, see MCTelemetry.  The end of
\* the bounded time leaves nothing to do but to poll and to restart.
CONSTANTS
  d1 = d1  d2 = d2  nvme = nvme  intel = intel  intel_lbas = intel_lbas
  kingston = kingston  micron = micron  b1 = b1
  Devices = {d1, d2, nvme, intel, intel_lbas, kingston, micron, b1}
  NONE = NONE
  DataUnit = 7
  Mib32 = 31
  Gib = 101
  Block = 1
  KindOf <- MCKindOf
  SubjectOf <- MCSubjectOf
  Setups <- MCSetups
  Interval = 2
  Window = 4
  MinHistory = 3
  MinDrop = 2
  EndOfLife = 0
  MaxTime = 5
  MaxWear <- MCMaxWear
  MaxSteps = 1
  MaxFaults = 1
SPECIFICATION Spec
INVARIANT HistoryIsSparse HighMeansMeasured SamplesAreBytes
PROPERTY SilenceHasCause
