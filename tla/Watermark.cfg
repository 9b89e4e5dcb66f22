\* Does every decision on a request the agent waits for arrive?
SPECIFICATION FairGateSpec
CONSTANTS
  Request = {r1}
  Stranger = stranger
  File = {f1}
  Hash = {h1}
  Nonce = {n1}
  Device = {here}
  Here = here
  TokenTTL = 1
  Garbled = {}
  MaxBatch = 2
  MaxTime = 2
  None = None
  RequestTTL = 1
  Reviewed = {r1}
PROPERTIES
  DecisionReachesTray
