\* Two reviewers, the allowlist and two devices' polls race for one request.
SPECIFICATION FairSpec
CONSTANTS
  Request = {r1}
  Device = {d1, d2}
  Reviewer = {v1, v2}
  Nonce = {n1}
  Trusted = {r1}
  RequestTTL = 1
  ApprovalTTL = 1
  MaxTime = 2
  None = None
INVARIANTS
  TypeOK
  ApprovalsMatchVerdicts
  AuditMatchesState
  AnswersAreTrue
  ExpiryIsHonest
  InboxIsTrue
PROPERTIES
  DecisionIsFinal
  LapsedRequestIsSettled
  RefinesVerdict
