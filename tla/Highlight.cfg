\* Does the mark of a new request ever go away?
SPECIFICATION FairSpec
CONSTANTS
  Request = {r1,r2}
  Slot = {s1}
  RequestedAt <- SomeOrder
  Focus <- OnlyNotifier
  MaxRetries = 2
  MaxVersion = 2
  Null = Null
PROPERTIES
  HighlightIsBrief
