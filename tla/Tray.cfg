\* One form, two requests after another, two calls through the pipe at a time,
\* two outcomes.
SPECIFICATION FairSpec
CONSTANTS
  Request = {r1, r2}
  Call = {c1, c2}
  Other = other
  Outcome = {"Approved"}
  None = None
INVARIANTS
  TypeOK
  AnnouncementIsTrue
PROPERTIES
  CallsEnd
  OutcomeIsAnnounced
  FormComesBack
