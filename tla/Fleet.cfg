\* A machine that enrolls, is asked to update, updates and is stopped anywhere.
SPECIFICATION FairSpec
CONSTANTS
  Id = {i1, i2}
  Caller = {p, c}
  MaxStops = 1
  Handler = {h1, h2}
  Poller = p
  Server = c
  Garbled = Garbled
  None = None
  MaxRelease = 1
  Managed = {i1}
  Timer = timer
  Telemetry = telemetry
INVARIANTS
  UpdatesTypeOK
  CredentialIsEnrolled
  OneApply
  BuildSurvives
PROPERTIES
  IdentityIsKept
  RefinesUpgrade
  RequestReachesDevice
  ShownVersionConverges
  EventuallyEnrolled
\* A machine whose executable is gone stays down.
CHECK_DEADLOCK FALSE
