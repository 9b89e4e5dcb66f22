------------------------------- MODULE Verdict -------------------------------
(***************************************************************************)
(* What the review of elevation requests promises, with no handlers, locks *)
(* or clocks: every request is settled at most once, and a signed token    *)
(* exists for a request exactly when it was settled by approving it.       *)
(* The transactions of backend/app/api/v1 are shown to implement this in   *)
(* ElevationRequests.                                                      *)
(***************************************************************************)
CONSTANTS
  Request,  \* identities of elevation requests
  Nonce,    \* nonces that a token can carry
  None      \* "no token"

VARIABLES
  verdict,  \* verdict[r]: where request r stands
  token     \* token[r]: the nonce of r's signed token, or None

vars == <<verdict, token>>

Settled == {"approved", "denied", "expired"}

Verdicts == {"absent", "pending"} \cup Settled

TypeOK ==
  /\ verdict \in [Request -> Verdicts]
  /\ token \in [Request -> Nonce \cup {None}]

Init ==
  /\ verdict = [r \in Request |-> "absent"]
  /\ token = [r \in Request |-> None]

Unused == Nonce \ {token[r] : r \in Request}

-----------------------------------------------------------------------------
\* A device files a request that a reviewer will have to look at.
Enter(r) ==
  /\ verdict[r] = "absent"
  /\ verdict' = [verdict EXCEPT ![r] = "pending"]
  /\ UNCHANGED token

\* A request is approved, by a reviewer or, in the step that files it, by
\* the allowlist; its token comes into being in the same step.
Approve(r) ==
  /\ verdict[r] \in {"absent", "pending"}
  /\ verdict' = [verdict EXCEPT ![r] = "approved"]
  /\ \E n \in Unused : token' = [token EXCEPT ![r] = n]

Deny(r) ==
  /\ verdict[r] = "pending"
  /\ verdict' = [verdict EXCEPT ![r] = "denied"]
  /\ UNCHANGED token

\* Any number of requests that nobody settled lapse together.
Expire(R) ==
  /\ \A r \in R : verdict[r] = "pending"
  /\ verdict' = [r \in Request |-> IF r \in R THEN "expired" ELSE verdict[r]]
  /\ UNCHANGED token

Next ==
  \/ \E r \in Request : Enter(r) \/ Approve(r) \/ Deny(r)
  \/ \E R \in SUBSET Request : Expire(R)

Spec == Init /\ [][Next]_vars

=============================================================================
