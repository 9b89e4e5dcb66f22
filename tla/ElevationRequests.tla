-------------------------- MODULE ElevationRequests --------------------------
(***************************************************************************)
(* The backend's elevation requests: the transactions of                   *)
(* api/v1/elevation_requests.py, api/v1/agent_compat.py, api/v1/agent.py   *)
(* and api/v1/approvals.py over the tables elevation_requests, approvals   *)
(* and audit_logs, under PostgreSQL's READ COMMITTED.                      *)
(*                                                                         *)
(* A handler runs as several steps, one per await on the database, so      *)
(* handlers interleave as they do on one asyncio loop or in several worker *)
(* processes. An UPDATE that matched a row holds the row's lock until the  *)
(* commit, and what it wrote is visible to others only from the commit on. *)
(* Time is a counter shared by all handlers; a handler's datetime.now() is *)
(* the value of the counter at the step that reads it.                     *)
(***************************************************************************)
EXTENDS Naturals, FiniteSets

CONSTANTS
  Request,      \* request_uuid values
  Device,       \* enrolled, ACTIVE devices
  Reviewer,     \* approve/deny handlers that can run at once, one per admin
  Nonce,        \* what secrets.token_urlsafe can return
  Trusted,      \* requests whose file carries a trusted signature and a publisher
  RequestTTL,   \* elevation_request_ttl_seconds
  ApprovalTTL,  \* approval_ttl_seconds
  MaxTime,      \* bound on the clock
  None          \* SQL NULL, and "no value" in handler state

ASSUME ConstantsAssumption ==
  /\ RequestTTL \in Nat /\ ApprovalTTL \in Nat /\ MaxTime \in Nat
  /\ Trusted \subseteq Request
  /\ None \notin Nat
  /\ None \notin Request \cup Device \cup Reviewer \cup Nonce

VARIABLES
  now,          \* the clock
  row,          \* row[r]: the committed row of request r
  approval,     \* the committed rows of the approvals table
  audit,        \* audit[r][a]: committed audit rows of action a about r
  submission,   \* submission[r]: the open transaction that inserts r, or None
  handler,      \* handler[v]: the approve or deny handler of reviewer v
  poll,         \* poll[d]: the decisions poll of device d
  inbox         \* inbox[d]: the answer to d's latest poll

vars == <<now, row, approval, audit, submission, handler, poll, inbox>>
backend == <<row, approval, audit>>

-----------------------------------------------------------------------------
Decided == {"approved", "denied", "expired"}

\* ElevationRequestStatus, and "absent" for a uuid no row has yet.
Status == {"absent", "pending"} \cup Decided

\* A row has its review columns set exactly when it is decided.
Row ==
  [status : {"absent"}, device : {None}, expiresAt : {None},
   reviewedAt : {None}, reviewedBy : {None}]
  \cup
  [status : {"pending"}, device : Device, expiresAt : Nat,
   reviewedAt : {None}, reviewedBy : {None}]
  \cup
  [status : Decided, device : Device, expiresAt : Nat,
   reviewedAt : Nat, reviewedBy : Reviewer \cup {None}]

Approval ==
  [request : Request, device : Device, nonce : Nonce, expiresAt : Nat,
   consumed : BOOLEAN]

AuditAction == {"submitted", "approved", "auto_approved", "denied", "consumed"}

Submission == [device : Device, begunAt : Nat]

\* "loaded": past the status test; "fresh" and "stale": past the expiry test;
\* "staged" and "expiring": the UPDATE matched, the row is locked.
HandlerPC == {"idle", "loaded", "fresh", "stale", "staged", "expiring"}

\* "lost": the caller saw an error or no answer at all.
Reply == {"none", "ok", "conflict", "not_found", "lost"}

\* A running handler has a target and no reply yet; an idle one keeps the
\* last call's target, verdict and reply.
Handler ==
  [pc : HandlerPC \ {"idle"}, target : Request,
   verdict : {"approved", "denied"}, stamp : Nat, reply : {"none"}]
  \cup
  [pc : {"idle"}, target : Request,
   verdict : {"approved", "denied"}, stamp : Nat, reply : Reply]
  \cup
  [pc : {"idle"}, target : {None},
   verdict : {"approved", "denied"}, stamp : Nat, reply : {"none"}]

Poll == [pc : {"idle", "begun", "expired"}, stamp : Nat]

\* AgentApprovalDecision: a token stands for its nonce.
Decision == [request : Request, status : Decided, token : Nonce \cup {None}]

TypeOK ==
  /\ now \in Nat
  /\ row \in [Request -> Row]
  /\ approval \subseteq Approval
  /\ audit \in [Request -> [AuditAction -> Nat]]
  /\ submission \in [Request -> Submission \cup {None}]
  /\ handler \in [Reviewer -> Handler]
  /\ poll \in [Device -> Poll]
  /\ inbox \in [Device -> SUBSET Decision]

NoRow ==
  [status |-> "absent", device |-> None, expiresAt |-> None,
   reviewedAt |-> None, reviewedBy |-> None]

Init ==
  /\ now = 0
  /\ row = [r \in Request |-> NoRow]
  /\ approval = {}
  /\ audit = [r \in Request |-> [a \in AuditAction |-> 0]]
  /\ submission = [r \in Request |-> None]
  /\ handler = [v \in Reviewer |->
       [pc |-> "idle", target |-> None, verdict |-> "approved",
        stamp |-> 0, reply |-> "none"]]
  /\ poll = [d \in Device |-> [pc |-> "idle", stamp |-> 0]]
  /\ inbox = [d \in Device |-> {}]

-----------------------------------------------------------------------------
\* The clauses and statements the handlers share.

\* WHERE status = 'pending', evaluated against the latest committed row; a
\* plausible slip is an UPDATE by id alone.
AnyStatus(r) == row[r].status # "absent"
StillPending(r) == row[r].status = "pending"

\* expires_at <= now; a plausible slip is off by one.
WindowNearlyPassed(r, t) == row[r].expiresAt <= t + 1
WindowPassed(r, t) == row[r].expiresAt <= t

\* An UPDATE of the row waits for the transaction that updated it before.
Locked(r) ==
  \E v \in Reviewer : /\ handler[v].pc \in {"staged", "expiring"}
                      /\ handler[v].target = r

\* SET status, reviewed_at, reviewed_by
Settle(x, status, at, by) ==
  [status |-> status, device |-> x.device, expiresAt |-> x.expiresAt,
   reviewedAt |-> at, reviewedBy |-> by]

PendingRow(d, begunAt) ==
  [status |-> "pending", device |-> d, expiresAt |-> begunAt + RequestTTL,
   reviewedAt |-> None, reviewedBy |-> None]

\* secrets.token_urlsafe never repeats a value.
FreshNonce == Nonce \ {a.nonce : a \in approval}

\* issue_approval, reading its own clock somewhere between the decision and
\* the commit that publishes it.
IssueApproval(r, d, decidedAt) ==
  \E n \in FreshNonce, issuedAt \in decidedAt .. now :
    approval' = approval \cup
      {[request |-> r, device |-> d, nonce |-> n,
        expiresAt |-> issuedAt + ApprovalTTL, consumed |-> FALSE]}

\* write_audit_log for each action of A, committed with the caller's changes.
WriteAudit(r, A) ==
  audit' = [audit EXCEPT ![r] =
    [a \in AuditAction |-> IF a \in A THEN @[a] + 1 ELSE @[a]]]

Tick ==
  /\ now < MaxTime
  /\ now' = now + 1
  /\ UNCHANGED <<backend, submission, handler, poll, inbox>>

-----------------------------------------------------------------------------
\* Submission: POST /requests and POST /elevation-requests.

\* The handler reads the clock and inserts the row; nobody else sees it yet.
SubmitBegin(d, r) ==
  /\ row[r].status = "absent"
  /\ submission[r] = None
  /\ submission' = [submission EXCEPT ![r] = [device |-> d, begunAt |-> now]]
  /\ UNCHANGED <<now, backend, handler, poll, inbox>>

\* No allowlist entry applies, or the route is the one that never looks for
\* one: the row commits as pending.
SubmitCommit(r) ==
  /\ submission[r] # None
  /\ row' = [row EXCEPT ![r] =
       PendingRow(submission[r].device, submission[r].begunAt)]
  /\ WriteAudit(r, {"submitted"})
  /\ submission' = [submission EXCEPT ![r] = None]
  /\ UNCHANGED <<now, approval, handler, poll, inbox>>

\* An allowlist entry matches a trusted file: the same transaction inserts
\* the row, approves it and issues the token.
AutoApprove(r) ==
  /\ submission[r] # None
  /\ r \in Trusted
  /\ \E at \in submission[r].begunAt .. now :
       /\ row' = [row EXCEPT ![r] =
            Settle(PendingRow(submission[r].device, submission[r].begunAt),
                   "approved", at, None)]
       /\ IssueApproval(r, submission[r].device, at)
  /\ WriteAudit(r, {"submitted", "auto_approved"})
  /\ submission' = [submission EXCEPT ![r] = None]
  /\ UNCHANGED <<now, handler, poll, inbox>>

\* The connection or the process goes away before the commit.
SubmitRollback(r) ==
  /\ submission[r] # None
  /\ submission' = [submission EXCEPT ![r] = None]
  /\ UNCHANGED <<now, backend, handler, poll, inbox>>

-----------------------------------------------------------------------------
\* Review: POST /elevation-requests/{id}/approve and /deny.

\* The handler ends and its caller receives reply.
Answer(v, reply) ==
  handler' = [handler EXCEPT ![v] = [@ EXCEPT !.pc = "idle", !.stamp = 0, !.reply = reply]]

Goto(v, pc, stamp) ==
  handler' = [handler EXCEPT ![v] = [@ EXCEPT !.pc = pc, !.stamp = stamp]]

\* get_by_id finds the row pending.
LoadPending(v, r, verdict) ==
  /\ handler[v].pc = "idle"
  /\ row[r].status = "pending"
  /\ handler' = [handler EXCEPT ![v] =
       [pc |-> "loaded", target |-> r, verdict |-> verdict,
        stamp |-> 0, reply |-> "none"]]
  /\ UNCHANGED <<now, backend, submission, poll, inbox>>

\* get_by_id finds no row, or one that is decided: 404 or 409.
Refuse(v, r, verdict) ==
  /\ handler[v].pc = "idle"
  /\ row[r].status # "pending"
  /\ handler' = [handler EXCEPT ![v] =
       [pc |-> "idle", target |-> r, verdict |-> verdict, stamp |-> 0,
        reply |-> IF row[r].status = "absent" THEN "not_found" ELSE "conflict"]]
  /\ UNCHANGED <<now, backend, submission, poll, inbox>>

\* _reject_if_expired reads the clock and compares it with the loaded row.
FindFresh(v) ==
  /\ handler[v].pc = "loaded"
  /\ ~WindowPassed(handler[v].target, now)
  /\ Goto(v, "fresh", now)
  /\ UNCHANGED <<now, backend, submission, poll, inbox>>

FindStale(v) ==
  /\ handler[v].pc = "loaded"
  /\ WindowPassed(handler[v].target, now)
  /\ Goto(v, "stale", now)
  /\ UNCHANGED <<now, backend, submission, poll, inbox>>

\* transition_status(PENDING -> EXPIRED) with the clock value of the test.
StageExpiry(v) ==
  LET r == handler[v].target IN
  /\ handler[v].pc = "stale"
  /\ ~Locked(r)
  /\ IF StillPending(r) THEN Goto(v, "expiring", handler[v].stamp)
                        ELSE Answer(v, "conflict")
  /\ UNCHANGED <<now, backend, submission, poll, inbox>>

CommitExpiry(v) ==
  LET r == handler[v].target IN
  /\ handler[v].pc = "expiring"
  /\ row' = [row EXCEPT ![r] = Settle(@, "expired", handler[v].stamp, None)]
  /\ Answer(v, "conflict")
  /\ UNCHANGED <<now, approval, audit, submission, poll, inbox>>

\* A plausible slip: the token is stored outside the review's transaction.
IssueBeforeCommit(v) ==
  LET r == handler[v].target IN
  /\ handler[v].pc = "fresh"
  /\ ~Locked(r)
  /\ StillPending(r)
  /\ Goto(v, "staged", now)
  /\ IssueApproval(r, row[r].device, now)
  /\ UNCHANGED <<now, row, audit, submission, poll, inbox>>

\* transition_status(PENDING -> the verdict) matches the row. The clock is
\* read again for reviewed_at, at any time since the expiry test.
StageVerdict(v) ==
  LET r == handler[v].target IN
  /\ handler[v].pc = "fresh"
  /\ ~Locked(r)
  /\ StillPending(r)
  /\ \E at \in handler[v].stamp .. now : Goto(v, "staged", at)
  /\ UNCHANGED <<now, backend, submission, poll, inbox>>

\* A plausible slip: the None of transition_status is not looked at.
IgnoreLostRace(v) ==
  LET r == handler[v].target IN
  /\ handler[v].pc = "fresh"
  /\ ~Locked(r)
  /\ ~StillPending(r)
  /\ Answer(v, "ok")
  /\ UNCHANGED <<now, backend, submission, poll, inbox>>

\* transition_status matches nothing: somebody else settled the request.
LoseRace(v) ==
  LET r == handler[v].target IN
  /\ handler[v].pc = "fresh"
  /\ ~Locked(r)
  /\ ~StillPending(r)
  /\ Answer(v, "conflict")
  /\ UNCHANGED <<now, backend, submission, poll, inbox>>

\* The verdict, the token of an approval and the audit row commit together;
\* the answer may be lost on its way to the caller.
CommitApproval(v) ==
  LET r == handler[v].target IN
  /\ handler[v].pc = "staged"
  /\ handler[v].verdict = "approved"
  /\ row' = [row EXCEPT ![r] = Settle(@, "approved", handler[v].stamp, v)]
  /\ IssueApproval(r, row[r].device, handler[v].stamp)
  /\ WriteAudit(r, {"approved"})
  /\ \E reply \in {"ok", "lost"} : Answer(v, reply)
  /\ UNCHANGED <<now, submission, poll, inbox>>

CommitDenial(v) ==
  LET r == handler[v].target IN
  /\ handler[v].pc = "staged"
  /\ handler[v].verdict = "denied"
  /\ row' = [row EXCEPT ![r] = Settle(@, "denied", handler[v].stamp, v)]
  /\ WriteAudit(r, {"denied"})
  /\ \E reply \in {"ok", "lost"} : Answer(v, reply)
  /\ UNCHANGED <<now, approval, submission, poll, inbox>>

\* A plausible slip: the audit row is committed by a session of its own.
RollbackKeepsAudit(v) ==
  /\ handler[v].pc # "idle"
  /\ IF handler[v].pc = "staged"
       THEN WriteAudit(handler[v].target, {handler[v].verdict})
       ELSE UNCHANGED audit
  /\ Answer(v, "lost")
  /\ UNCHANGED <<now, row, approval, submission, poll, inbox>>

\* The connection or the process goes away before the commit: the database
\* rolls back and drops the lock.
Rollback(v) ==
  /\ handler[v].pc # "idle"
  /\ Answer(v, "lost")
  /\ UNCHANGED <<now, backend, submission, poll, inbox>>

-----------------------------------------------------------------------------
\* Decisions poll: GET /devices/{id}/decisions and GET /agent/decisions.

PollBegin(d) ==
  /\ poll[d].pc = "idle"
  /\ poll' = [poll EXCEPT ![d] = [pc |-> "begun", stamp |-> now]]
  /\ UNCHANGED <<now, backend, submission, handler, inbox>>

\* The rows of device d that the bulk UPDATE with clock value t matches.
Lapsed(d, t) ==
  {r \in Request : row[r].device = d /\ StillPending(r) /\ WindowPassed(r, t)}

\* A plausible slip: only an administrator's click ever expires a request.
PollSkipsExpiry(d) ==
  /\ poll[d].pc = "begun"
  /\ poll' = [poll EXCEPT ![d].pc = "expired"]
  /\ UNCHANGED <<now, backend, submission, handler, inbox>>

\* A plausible slip: the bulk UPDATE forgets reviewed_at.
PollForgetsReviewTime(d) ==
  LET R == Lapsed(d, poll[d].stamp) IN
  /\ poll[d].pc = "begun"
  /\ row' = [r \in Request |->
       IF r \in R THEN Settle(row[r], "expired", None, None) ELSE row[r]]
  /\ poll' = [poll EXCEPT ![d].pc = "expired"]
  /\ UNCHANGED <<now, approval, audit, submission, handler, inbox>>

\* expire_stale_pending_requests_for_device and its commit. It waits while a
\* handler holds the lock of a row it would update; no audit row is written.
PollExpire(d) ==
  LET R == Lapsed(d, poll[d].stamp) IN
  /\ poll[d].pc = "begun"
  /\ \A r \in R : ~Locked(r)
  /\ row' = [r \in Request |->
       IF r \in R THEN Settle(row[r], "expired", poll[d].stamp, None) ELSE row[r]]
  /\ poll' = [poll EXCEPT ![d].pc = "expired"]
  /\ UNCHANGED <<now, approval, audit, submission, handler, inbox>>

\* The outer join with approvals.
TokenOf(r) ==
  IF \E a \in approval : a.request = r
    THEN (CHOOSE a \in approval : a.request = r).nonce
    ELSE None

\* A plausible slip: the query forgets WHERE device_id.
DecisionsForAnyone(d, since) ==
  {[request |-> r, status |-> row[r].status, token |-> TokenOf(r)] :
     r \in {q \in Request : row[q].status \in Decided /\ row[q].reviewedAt >= since}}

\* list_decisions_for_device_since
DecisionsSince(d, since) ==
  {[request |-> r, status |-> row[r].status, token |-> TokenOf(r)] :
     r \in {q \in Request : /\ row[q].device = d
                            /\ row[q].status \in Decided
                            /\ row[q].reviewedAt >= since}}

\* The query runs in a transaction of its own, for whatever since the agent
\* asked about.
PollList(d) ==
  /\ poll[d].pc = "expired"
  /\ \E since \in 0 .. now : inbox' = [inbox EXCEPT ![d] = DecisionsSince(d, since)]
  /\ poll' = [poll EXCEPT ![d] = [pc |-> "idle", stamp |-> 0]]
  /\ UNCHANGED <<now, backend, submission, handler>>

\* The backend's connection to the database, or to the agent, breaks.
PollAbort(d) ==
  /\ poll[d].pc # "idle"
  /\ poll' = [poll EXCEPT ![d] = [pc |-> "idle", stamp |-> 0]]
  /\ UNCHANGED <<now, backend, submission, handler, inbox>>

-----------------------------------------------------------------------------
\* POST /approvals/{id}/consumed: mark_consumed is one conditional UPDATE, so
\* of two concurrent calls the second matches nothing (409) and leaves no
\* trace, as does a call of another device (404).
Consume(d, a) ==
  /\ a \in approval
  /\ a.device = d
  /\ ~a.consumed
  /\ approval' = (approval \ {a}) \cup {[a EXCEPT !.consumed = TRUE]}
  /\ WriteAudit(a.request, {"consumed"})
  /\ UNCHANGED <<now, row, submission, handler, poll, inbox>>

-----------------------------------------------------------------------------
SubmissionStep(r) ==
  \/ \E d \in Device : SubmitBegin(d, r)
  \/ SubmitCommit(r)
  \/ AutoApprove(r)
  \/ SubmitRollback(r)

\* What a running handler does next, whoever asked for it.
HandlerStep(v) ==
  \/ FindFresh(v) \/ FindStale(v)
  \/ StageExpiry(v) \/ CommitExpiry(v)
  \/ StageVerdict(v) \/ LoseRace(v)
  \/ CommitApproval(v) \/ CommitDenial(v)
  \/ Rollback(v)

ReviewStep(v) ==
  \/ \E r \in Request, verdict \in {"approved", "denied"} :
       LoadPending(v, r, verdict) \/ Refuse(v, r, verdict)
  \/ HandlerStep(v)

PollStep(d) == PollBegin(d) \/ PollExpire(d) \/ PollList(d) \/ PollAbort(d)

Next ==
  \/ Tick
  \/ \E r \in Request : SubmissionStep(r)
  \/ \E v \in Reviewer : ReviewStep(v)
  \/ \E d \in Device : PollStep(d)
  \/ \E d \in Device : \E a \in approval : Consume(d, a)

\* Time passes, a handler that runs gets to its end, and every device keeps
\* polling. A poll waiting for a lock is in PostgreSQL's first-come queue of
\* that row, so no later handler overtakes it forever: strong fairness.
\* Polls break off before they have expired anything, but not for ever. Nobody
\* has to submit or to review.
Fairness ==
  /\ WF_vars(Tick)
  /\ \A v \in Reviewer : WF_vars(HandlerStep(v))
  /\ \A d \in Device : /\ WF_vars(PollBegin(d))
                       /\ SF_vars(PollExpire(d))
                       /\ WF_vars(PollList(d))
                       /\ <>[][poll[d].pc = "begun" => ~PollAbort(d)]_vars

Spec == Init /\ [][Next]_vars

FairSpec == Spec /\ Fairness

-----------------------------------------------------------------------------
\* Properties.

\* Once a request is approved, denied or expired, its row never changes again,
\* whichever administrators, polls and late clicks race for it
\* (transition_status: "never retry-and-overwrite").
DecisionIsFinal ==
  [][\A r \in Request : row[r].status \in Decided => row'[r] = row[r]]_vars

\* Signed tokens and approved requests correspond one to one: a token never
\* outlives a rolled-back approval, a denied or expired request has none, the
\* token names the request's own device, two tokens never share a nonce, and a
\* token is good for ApprovalTTL from a moment not before the decision.
ApprovalsMatchVerdicts ==
  /\ \A a \in approval :
       /\ row[a.request].status = "approved"
       /\ row[a.request].device = a.device
       /\ row[a.request].reviewedAt + ApprovalTTL <= a.expiresAt
       /\ \A b \in approval : a.request = b.request \/ a.nonce = b.nonce => a = b
  /\ \A r \in Request :
       row[r].status = "approved" => \E a \in approval : a.request = r

\* "an audit entry must never exist for an action that didn't commit, or be
\* missing for one that did" (core/audit.py:19-20): the rows about a request
\* are those its present state accounts for, each exactly once.
Accounted(r, a) ==
  CASE a = "submitted"     -> row[r].status # "absent"
    [] a = "approved"      -> row[r].status = "approved" /\ row[r].reviewedBy # None
    [] a = "auto_approved" -> row[r].status = "approved" /\ row[r].reviewedBy = None
    [] a = "denied"        -> row[r].status = "denied"
    [] a = "consumed"      -> \E x \in approval : x.request = r /\ x.consumed

AuditMatchesState ==
  \A r \in Request, a \in AuditAction :
    audit[r][a] = IF Accounted(r, a) THEN 1 ELSE 0

\* An administrator who was told 200 sees the verdict and the own name on the
\* request, for good; one who was told 409 clicked on a request that is
\* settled. So of any number of racing clicks at most one hears 200.
AnswersAreTrue ==
  \A v \in Reviewer :
    LET h == handler[v] IN
    /\ h.reply = "ok" =>
         /\ row[h.target].status = h.verdict
         /\ row[h.target].reviewedBy = v
    /\ h.reply = "conflict" => row[h.target].status \in Decided

\* Whatever a device was told about a request is what the backend will stand
\* by: the request is the device's own, its status is final, and an approval
\* always comes with its token (the agent fails an approval without one).
InboxIsTrue ==
  \A d \in Device : \A x \in inbox[d] :
    /\ row[x.request].device = d
    /\ row[x.request].status = x.status
    /\ IF x.status = "approved"
         THEN \E a \in approval : a.request = x.request /\ a.nonce = x.token
         ELSE x.token = None

\* A request expires on nobody's authority and only after its window, and no
\* row is dated in the future.
ExpiryIsHonest ==
  \A r \in Request :
    /\ row[r].status = "expired" =>
         row[r].reviewedBy = None /\ row[r].expiresAt <= row[r].reviewedAt
    /\ row[r].status \in Decided => row[r].reviewedAt <= now

\* The transactions implement the abstract review of module Verdict.
V == INSTANCE Verdict WITH
  verdict <- [r \in Request |-> row[r].status],
  token <- [r \in Request |-> TokenOf(r)]

RefinesVerdict == V!Spec

\* "a request that nobody ever acted on still eventually surfaces as expired":
\* a pending request whose window closes within the modelled time is settled
\* as long as its device polls, even if handlers hold its lock and fail.
LapsedRequestIsSettled ==
  \A r \in Request :
    (row[r].status = "pending" /\ row[r].expiresAt <= MaxTime)
      ~> (row[r].status \in Decided)

\* "Called at the top of both approve and deny so neither action can be taken
\* on a stale request" (_reject_if_expired). The code does not keep it: the
\* clock is read again for reviewed_at, after the test.
NoLateVerdict ==
  \A r \in Request :
    row[r].reviewedBy # None => row[r].reviewedAt < row[r].expiresAt

=============================================================================
