\* Two concurrent requests, see MCAiProxy, and one row that is refused.
CONSTANTS
  chat = chat  completion = completion
  Requests = {chat, completion}
  EngineOf <- MCEngineOf
  Bodies <- MCBodies
  MaxBody = 2
  MaxTime = 1
  MaxFailures = 1
SPECIFICATION Spec
INVARIANT SamplesAreTheLines CompleteMeansWhole RatesAreNotOverstated RateIsCounted
