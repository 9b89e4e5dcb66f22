\* Can a verdict be dated after the review window?
SPECIFICATION Spec
CONSTANTS
  Request = {r1}
  Device = {d1}
  Reviewer = {v1}
  Nonce = {n1}
  Trusted = {}
  RequestTTL = 1
  ApprovalTTL = 1
  MaxTime = 2
  None = None
INVARIANTS
  NoLateVerdict
