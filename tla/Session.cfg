\* Two tabs of one browser and two logins.
SPECIFICATION FairSpec
CONSTANTS
  Tab = {t1, t2}
  Token = {k1, k2}
  None = None
INVARIANTS
  RefusedIsGone
PROPERTIES
  SignOutIsFinal
  DeadSessionEndsAtLogin
