\* Each query of the dashboard with the pages that show or change what it reads.
SPECIFICATION FairSpec
CONSTANTS
  Request = {r1, r2}
  Slot = {s1}
  RequestedAt <- SomeOrder
  Focus <- EachQuery
  MaxRetries = 1
  MaxVersion = 2
  Null = Null
INVARIANTS
  TypeOK
  OwnChangesShow
  ArrivalsAnnouncedOnce
PROPERTIES
  OpenViewsConverge
