\* Does a release that stays the latest get installed, if every step is repeated?
SPECIFICATION UpdatingSpec
CONSTANTS
  Id = {i1}
  Caller = {p}
  MaxStops = 0
  Handler = {h1}
  Poller = p
  Server = p
  Garbled = Garbled
  None = None
  MaxRelease = 1
  Managed = {i1}
  Timer = timer
  Telemetry = telemetry
PROPERTIES
  UpdateLands
\* A machine whose executable is gone stays down.
CHECK_DEADLOCK FALSE
