\* Two requests and one token, crossed and repeated, with files that change, a
\* second device, an expiry and restarts.
SPECIFICATION Spec
CONSTANTS
  r1 = r1
  r2 = r2
  f1 = f1
  h1 = h1
  h2 = h2
  n1 = n1
  here = here
  there = there
  Request = {r1, r2}
  Stranger = stranger
  File = {f1}
  Hash = {h1, h2}
  Nonce = {n1}
  Device = {here, there}
  Here = here
  TokenTTL = 1
  Garbled = {}
  MaxBatch = 1
  MaxTime = 1
  None = None
INVARIANTS
  TypeOK
  AuditExplainsLaunches
  StatusIsEarned
  LaunchesAreLicensed
  OneRunPerApproval
PROPERTIES
  RefinesLicence
SYMMETRY Interchangeable
