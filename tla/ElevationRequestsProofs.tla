----------------------- MODULE ElevationRequestsProofs -----------------------
(***************************************************************************)
(* Theorems about ElevationRequests, for every set of requests, devices,   *)
(* reviewers and nonces and every value of the time limits.                *)
(***************************************************************************)
EXTENDS ElevationRequests, TLAPS

-----------------------------------------------------------------------------
\* The inductive invariant.

Holds(v) == handler[v].pc \in {"staged", "expiring"}

\* A row lock is held by one handler, and the row under it is still pending:
\* this is what makes the commit of a verdict safe although the status was
\* tested steps earlier.
LockInv ==
  /\ \A v \in Reviewer : Holds(v) => StillPending(handler[v].target)
  /\ \A v, w \in Reviewer :
       Holds(v) /\ Holds(w) /\ handler[v].target = handler[w].target => v = w

\* Clock values that handlers carry are not in the future, and a handler that
\* is about to expire a request carries one from after the window.
StampInv ==
  /\ \A v \in Reviewer :
       LET h == handler[v] IN
       /\ h.stamp <= now
       /\ h.pc # "idle" => row[h.target].status # "absent"
       /\ h.pc \in {"stale", "expiring"} => WindowPassed(h.target, h.stamp)
  /\ \A d \in Device : poll[d].stamp <= now

\* The row that an open transaction inserts is not there yet.
SubmissionInv ==
  \A r \in Request :
    submission[r] # None =>
      row[r].status = "absent" /\ submission[r].begunAt <= now

IInv == TypeOK /\ LockInv /\ StampInv /\ SubmissionInv

-----------------------------------------------------------------------------
\* What the statements do to the tables.

LEMMA SettleType ==
  ASSUME NEW x \in Row, x.status = "pending",
         NEW s \in Decided, NEW t \in Nat, NEW by \in Reviewer \cup {None}
  PROVE  Settle(x, s, t, by) \in Row
<1>1. x.device \in Device /\ x.expiresAt \in Nat
  BY DEF Row, Decided
<1>. QED  BY <1>1 DEF Settle, Row

LEMMA PendingRowType ==
  ASSUME NEW d \in Device, NEW t \in Nat
  PROVE  PendingRow(d, t) \in Row /\ PendingRow(d, t).status = "pending"
BY ConstantsAssumption DEF PendingRow, Row

LEMMA WriteAuditType ==
  ASSUME NEW r \in Request, NEW A \in SUBSET AuditAction,
         audit \in [Request -> [AuditAction -> Nat]], WriteAudit(r, A)
  PROVE  audit' \in [Request -> [AuditAction -> Nat]]
BY DEF WriteAudit

LEMMA IssueApprovalType ==
  ASSUME NEW r \in Request, NEW d \in Device, NEW t \in Nat,
         approval \subseteq Approval, now \in Nat, IssueApproval(r, d, t)
  PROVE  approval' \subseteq Approval
<1>1. PICK n \in FreshNonce, issuedAt \in t .. now :
        approval' = approval \cup
          {[request |-> r, device |-> d, nonce |-> n,
            expiresAt |-> issuedAt + ApprovalTTL, consumed |-> FALSE]}
  BY DEF IssueApproval
<1>2. n \in Nonce /\ issuedAt + ApprovalTTL \in Nat
  BY ConstantsAssumption DEF FreshNonce
<1>3. [request |-> r, device |-> d, nonce |-> n,
       expiresAt |-> issuedAt + ApprovalTTL, consumed |-> FALSE] \in Approval
  BY <1>2 DEF Approval
<1>. QED  BY <1>1, <1>3

LEMMA HandlerUpdate ==
  ASSUME NEW v \in Reviewer, NEW h \in Handler,
         handler \in [Reviewer -> Handler],
         handler' = [handler EXCEPT ![v] = h]
  PROVE  /\ handler' \in [Reviewer -> Handler]
         /\ handler'[v] = h
         /\ \A w \in Reviewer \ {v} : handler'[w] = handler[w]
OBVIOUS

LEMMA AnswerType ==
  ASSUME NEW v \in Reviewer, NEW reply \in Reply,
         handler \in [Reviewer -> Handler], handler[v].pc # "idle",
         Answer(v, reply)
  PROVE  /\ handler' \in [Reviewer -> Handler]
         /\ handler'[v].pc = "idle" /\ handler'[v].stamp = 0
         /\ handler'[v].target = handler[v].target
         /\ handler'[v].verdict = handler[v].verdict
         /\ handler'[v].reply = reply
         /\ \A w \in Reviewer \ {v} : handler'[w] = handler[w]
<1>1. handler[v] \in [pc : HandlerPC \ {"idle"}, target : Request,
        verdict : {"approved", "denied"}, stamp : Nat, reply : {"none"}]
  BY DEF Handler
<1>2. [handler[v] EXCEPT !.pc = "idle", !.stamp = 0, !.reply = reply] \in Handler
  BY <1>1 DEF Handler
<1>. QED  BY <1>1, <1>2 DEF Answer

LEMMA GotoType ==
  ASSUME NEW v \in Reviewer, NEW pc \in HandlerPC \ {"idle"}, NEW t \in Nat,
         handler \in [Reviewer -> Handler], handler[v].pc # "idle",
         Goto(v, pc, t)
  PROVE  /\ handler' \in [Reviewer -> Handler]
         /\ handler'[v].pc = pc /\ handler'[v].stamp = t
         /\ handler'[v].target = handler[v].target
         /\ handler'[v].verdict = handler[v].verdict
         /\ handler'[v].reply = "none"
         /\ \A w \in Reviewer \ {v} : handler'[w] = handler[w]
<1>1. handler[v] \in [pc : HandlerPC \ {"idle"}, target : Request,
        verdict : {"approved", "denied"}, stamp : Nat, reply : {"none"}]
  BY DEF Handler
<1>2. [handler[v] EXCEPT !.pc = pc, !.stamp = t] \in Handler
  BY <1>1 DEF Handler
<1>. QED  BY <1>1, <1>2 DEF Goto

-----------------------------------------------------------------------------
\* The invariant is inductive.

\* A step of one handler that leaves the tables alone.
LEMMA HandlerOnly ==
  ASSUME IInv, NEW v \in Reviewer,
         handler' \in [Reviewer -> Handler],
         \A w \in Reviewer \ {v} : handler'[w] = handler[w],
         UNCHANGED <<now, backend, submission, poll, inbox>>,
         handler'[v].stamp <= now,
         handler'[v].pc # "idle" => row[handler'[v].target].status # "absent",
         handler'[v].pc \in {"stale", "expiring"} =>
           WindowPassed(handler'[v].target, handler'[v].stamp),
         handler'[v].pc \in {"staged", "expiring"} =>
           /\ StillPending(handler'[v].target)
           /\ \A w \in Reviewer \ {v} :
                ~(Holds(w) /\ handler[w].target = handler'[v].target)
  PROVE  IInv'
<1>. USE DEF IInv, backend
<1>1. TypeOK'
  BY DEF TypeOK
<1>2. LockInv'
  BY DEF LockInv, Holds, StillPending
<1>3. StampInv'
  BY DEF StampInv, WindowPassed
<1>4. SubmissionInv'
  BY DEF SubmissionInv
<1>. QED  BY <1>1, <1>2, <1>3, <1>4

LEMMA LoadPendingStep ==
  ASSUME IInv, NEW v \in Reviewer, NEW r \in Request,
         NEW x \in {"approved", "denied"}, LoadPending(v, r, x)
  PROVE  IInv'
<1>1. handler' = [handler EXCEPT ![v] =
        [pc |-> "loaded", target |-> r, verdict |-> x, stamp |-> 0, reply |-> "none"]]
  BY DEF LoadPending
<1>2. [pc |-> "loaded", target |-> r, verdict |-> x, stamp |-> 0, reply |-> "none"]
        \in Handler
  BY DEF Handler, HandlerPC
<1>3. /\ handler' \in [Reviewer -> Handler]
      /\ handler'[v] =
           [pc |-> "loaded", target |-> r, verdict |-> x, stamp |-> 0, reply |-> "none"]
      /\ \A w \in Reviewer \ {v} : handler'[w] = handler[w]
  BY <1>1, <1>2, HandlerUpdate DEF IInv, TypeOK
<1>4. 0 <= now /\ row[r].status # "absent"
  BY DEF IInv, TypeOK, LoadPending
<1>. QED  BY <1>3, <1>4, HandlerOnly DEF LoadPending

LEMMA RefuseStep ==
  ASSUME IInv, NEW v \in Reviewer, NEW r \in Request,
         NEW x \in {"approved", "denied"}, Refuse(v, r, x)
  PROVE  IInv'
<1>. DEFINE h == [pc |-> "idle", target |-> r, verdict |-> x, stamp |-> 0,
                  reply |-> IF row[r].status = "absent" THEN "not_found" ELSE "conflict"]
<1>1. handler' = [handler EXCEPT ![v] = h]
  BY DEF Refuse
<1>2. h \in Handler
  BY DEF Handler, Reply
<1>3. /\ handler' \in [Reviewer -> Handler]
      /\ handler'[v] = h
      /\ \A w \in Reviewer \ {v} : handler'[w] = handler[w]
  BY <1>1, <1>2, HandlerUpdate DEF IInv, TypeOK
<1>4. 0 <= now
  BY DEF IInv, TypeOK
<1>. QED  BY <1>3, <1>4, HandlerOnly DEF Refuse

\* A handler that ends without having written anything.
LEMMA AnswerStep ==
  ASSUME IInv, NEW v \in Reviewer, NEW reply \in Reply,
         handler[v].pc # "idle", Answer(v, reply),
         UNCHANGED <<now, backend, submission, poll, inbox>>
  PROVE  IInv'
<1>1. handler \in [Reviewer -> Handler] /\ 0 <= now
  BY DEF IInv, TypeOK
<1>. QED  BY <1>1, AnswerType, HandlerOnly

LEMMA FindStep ==
  ASSUME IInv, NEW v \in Reviewer, FindFresh(v) \/ FindStale(v)
  PROVE  IInv'
<1>. USE DEF FindFresh, FindStale
<1>1. handler \in [Reviewer -> Handler] /\ now \in Nat /\ handler[v].pc # "idle"
  BY DEF IInv, TypeOK
<1>2. row[handler[v].target].status # "absent"
  BY <1>1 DEF IInv, StampInv
<1>3. CASE FindFresh(v)
  BY <1>1, <1>2, <1>3, GotoType, HandlerOnly DEF HandlerPC
<1>4. CASE FindStale(v)
  BY <1>1, <1>2, <1>4, GotoType, HandlerOnly DEF HandlerPC
<1>. QED  BY <1>3, <1>4

\* The conditional UPDATE takes a lock that nobody holds.
LEMMA StageStep ==
  ASSUME IInv, NEW v \in Reviewer,
         StageExpiry(v) \/ StageVerdict(v) \/ LoseRace(v)
  PROVE  IInv'
<1>. USE DEF StageExpiry, StageVerdict, LoseRace
<1>. DEFINE r == handler[v].target
<1>1. handler \in [Reviewer -> Handler] /\ now \in Nat /\ handler[v].pc # "idle"
  BY DEF IInv, TypeOK
<1>2. /\ row[r].status # "absent"
      /\ handler[v].stamp <= now /\ handler[v].stamp \in Nat
      /\ handler[v].pc = "stale" => WindowPassed(r, handler[v].stamp)
  BY <1>1 DEF IInv, StampInv, Handler
<1>3. \A w \in Reviewer \ {v} : ~(Holds(w) /\ handler[w].target = r)
  BY DEF Locked, Holds
<1>4. ASSUME StillPending(r), StageExpiry(v)  PROVE IInv'
  BY <1>1, <1>2, <1>3, <1>4, GotoType, HandlerOnly DEF HandlerPC
<1>5. ASSUME StageVerdict(v)  PROVE IInv'
  <2>1. PICK at \in handler[v].stamp .. now : Goto(v, "staged", at)
    BY <1>5
  <2>2. at \in Nat /\ at <= now
    BY <1>1, <1>2
  <2>. QED  BY <1>1, <1>2, <1>3, <1>5, <2>1, <2>2, GotoType, HandlerOnly DEF HandlerPC
<1>6. ASSUME ~StillPending(r), StageExpiry(v) \/ LoseRace(v)  PROVE IInv'
  BY <1>1, <1>6, AnswerStep DEF Reply
<1>. QED  BY <1>4, <1>5, <1>6

\* The holder of a row's lock decides the row and lets go of it.
LEMMA CommitStep ==
  ASSUME IInv, NEW v \in Reviewer, Holds(v),
         NEW s \in Decided, NEW by \in Reviewer \cup {None}, NEW reply \in Reply,
         row' = [row EXCEPT ![handler[v].target] =
                   Settle(@, s, handler[v].stamp, by)],
         Answer(v, reply),
         approval' \subseteq Approval,
         audit' \in [Request -> [AuditAction -> Nat]],
         UNCHANGED <<now, submission, poll, inbox>>
  PROVE  IInv'
<1>. DEFINE r == handler[v].target
<1>1. /\ handler \in [Reviewer -> Handler] /\ handler[v].pc # "idle"
      /\ row \in [Request -> Row]
  BY DEF IInv, TypeOK, Holds
<1>2. r \in Request /\ handler[v].stamp \in Nat /\ row[r].status = "pending"
  BY <1>1 DEF IInv, LockInv, StillPending, Handler
<1>3. /\ handler' \in [Reviewer -> Handler]
      /\ handler'[v].pc = "idle" /\ handler'[v].stamp = 0
      /\ \A w \in Reviewer \ {v} : handler'[w] = handler[w]
  BY <1>1, AnswerType
<1>4. Settle(row[r], s, handler[v].stamp, by) \in Row
  BY <1>1, <1>2, SettleType
<1>5. /\ row' \in [Request -> Row]
      /\ row'[r].status \in Decided
      /\ row'[r].expiresAt = row[r].expiresAt
      /\ \A q \in Request \ {r} : row'[q] = row[q]
  BY <1>1, <1>2, <1>4 DEF Settle
<1>6. TypeOK'
  BY <1>3, <1>5 DEF IInv, TypeOK
<1>7. LockInv'
  <2>1. ASSUME NEW w \in Reviewer, Holds(w)'
        PROVE  w # v /\ Holds(w) /\ handler'[w] = handler[w] /\ handler[w].target \in Request \ {r}
    <3>1. w # v /\ Holds(w) /\ handler'[w] = handler[w]
      BY <1>3, <2>1 DEF Holds
    <3>2. handler[w].target # r
      BY <3>1 DEF IInv, LockInv
    <3>3. handler[w].target \in Request
      BY <1>1, <3>1 DEF Holds, Handler
    <3>. QED  BY <3>1, <3>2, <3>3
  <2>2. \A w \in Reviewer : Holds(w)' => StillPending(handler[w].target)'
    BY <1>5, <2>1 DEF IInv, LockInv, StillPending
  <2>. QED  BY <2>1, <2>2 DEF IInv, LockInv, StillPending
<1>8. StampInv'
  <2>1. ASSUME NEW w \in Reviewer, w # v, handler[w].pc # "idle"
        PROVE  /\ row'[handler[w].target].status # "absent"
               /\ row'[handler[w].target].expiresAt = row[handler[w].target].expiresAt
    <3>1. handler[w].target \in Request
      BY <1>1, <2>1 DEF Handler
    <3>. QED  BY <1>5, <2>1, <3>1 DEF IInv, StampInv, Decided
  <2>2. 0 <= now
    BY DEF IInv, TypeOK
  <2>. QED  BY <1>3, <2>1, <2>2 DEF IInv, StampInv, WindowPassed
<1>9. SubmissionInv'
  BY <1>2, <1>5 DEF IInv, SubmissionInv
<1>. QED  BY <1>6, <1>7, <1>8, <1>9 DEF IInv

LEMMA CommitActions ==
  ASSUME IInv, NEW v \in Reviewer,
         CommitExpiry(v) \/ CommitApproval(v) \/ CommitDenial(v)
  PROVE  IInv'
<1>. DEFINE r == handler[v].target
<1>1. /\ approval \subseteq Approval /\ audit \in [Request -> [AuditAction -> Nat]]
      /\ Holds(v) /\ now \in Nat /\ handler \in [Reviewer -> Handler]
      /\ row \in [Request -> Row]
  BY DEF IInv, TypeOK, Holds, CommitExpiry, CommitApproval, CommitDenial
<1>2. r \in Request /\ row[r].status = "pending" /\ handler[v].stamp \in Nat
  BY <1>1 DEF IInv, LockInv, StillPending, Handler, Holds
<1>3. row[r].device \in Device
  BY <1>1, <1>2 DEF Row, Decided
<1>4. ASSUME CommitExpiry(v)  PROVE IInv'
  BY <1>1, <1>4, CommitStep DEF CommitExpiry, Decided, Reply
<1>5. ASSUME CommitApproval(v)  PROVE IInv'
  <2>1. approval' \subseteq Approval
    BY <1>1, <1>2, <1>3, <1>5, IssueApprovalType DEF CommitApproval
  <2>2. audit' \in [Request -> [AuditAction -> Nat]]
    BY <1>1, <1>2, <1>5, WriteAuditType DEF CommitApproval, AuditAction
  <2>. QED  BY <1>1, <1>5, <2>1, <2>2, CommitStep DEF CommitApproval, Decided, Reply
<1>6. ASSUME CommitDenial(v)  PROVE IInv'
  <2>1. audit' \in [Request -> [AuditAction -> Nat]]
    BY <1>1, <1>2, <1>6, WriteAuditType DEF CommitDenial, AuditAction
  <2>. QED  BY <1>1, <1>6, <2>1, CommitStep DEF CommitDenial, Decided, Reply
<1>. QED  BY <1>4, <1>5, <1>6

\* A row appears that was not there; no handler has loaded it.
LEMMA InsertStep ==
  ASSUME IInv, NEW r \in Request, submission[r] # None,
         NEW x \in Row, x.status # "absent",
         row' = [row EXCEPT ![r] = x],
         submission' = [submission EXCEPT ![r] = None],
         approval' \subseteq Approval,
         audit' \in [Request -> [AuditAction -> Nat]],
         UNCHANGED <<now, handler, poll, inbox>>
  PROVE  IInv'
<1>1. /\ row \in [Request -> Row] /\ handler \in [Reviewer -> Handler]
      /\ submission \in [Request -> Submission \cup {None}]
  BY DEF IInv, TypeOK
<1>2. /\ row' \in [Request -> Row]
      /\ row'[r] = x
      /\ \A q \in Request \ {r} : row'[q] = row[q]
  BY <1>1
<1>3. row[r].status = "absent"
  BY DEF IInv, SubmissionInv
<1>4. TypeOK'
  BY <1>1, <1>2 DEF IInv, TypeOK
<1>5. \A w \in Reviewer : handler[w].pc # "idle" =>
        handler[w].target \in Request /\ handler[w].target # r
  BY <1>1, <1>3 DEF IInv, StampInv, Handler
<1>6. LockInv'
  BY <1>2, <1>5 DEF IInv, LockInv, Holds, StillPending
<1>7. StampInv'
  BY <1>2, <1>5 DEF IInv, StampInv, WindowPassed
<1>8. SubmissionInv'
  BY <1>1, <1>2 DEF IInv, SubmissionInv
<1>. QED  BY <1>4, <1>6, <1>7, <1>8 DEF IInv

LEMMA SubmissionActions ==
  ASSUME IInv, NEW r \in Request, SubmissionStep(r)
  PROVE  IInv'
<1>1. /\ submission \in [Request -> Submission \cup {None}] /\ now \in Nat
      /\ approval \subseteq Approval /\ audit \in [Request -> [AuditAction -> Nat]]
  BY DEF IInv, TypeOK
<1>2. ASSUME NEW d \in Device, SubmitBegin(d, r)  PROVE IInv'
  <2>1. submission' \in [Request -> Submission \cup {None}]
    BY <1>1, <1>2 DEF SubmitBegin, Submission
  <2>2. SubmissionInv'
    BY <1>1, <1>2 DEF IInv, SubmissionInv, SubmitBegin, backend
  <2>. QED
    BY <1>2, <2>1, <2>2
    DEF IInv, TypeOK, LockInv, StampInv, Holds, StillPending, WindowPassed,
        SubmitBegin, backend
<1>3. ASSUME submission[r] # None
      PROVE  /\ submission[r].device \in Device /\ submission[r].begunAt \in Nat
             /\ PendingRow(submission[r].device, submission[r].begunAt) \in Row
             /\ PendingRow(submission[r].device, submission[r].begunAt).status = "pending"
  BY <1>1, <1>3, PendingRowType DEF Submission
<1>4. ASSUME SubmitCommit(r)  PROVE IInv'
  <2>1. audit' \in [Request -> [AuditAction -> Nat]]
    BY <1>1, <1>4, WriteAuditType DEF SubmitCommit, AuditAction
  <2>. QED  BY <1>1, <1>3, <1>4, <2>1, InsertStep DEF SubmitCommit
<1>5. ASSUME AutoApprove(r)  PROVE IInv'
  <2>. DEFINE p == PendingRow(submission[r].device, submission[r].begunAt)
  <2>1. audit' \in [Request -> [AuditAction -> Nat]]
    BY <1>1, <1>5, WriteAuditType DEF AutoApprove, AuditAction
  <2>2. PICK at \in submission[r].begunAt .. now :
          /\ row' = [row EXCEPT ![r] = Settle(p, "approved", at, None)]
          /\ IssueApproval(r, submission[r].device, at)
    BY <1>5 DEF AutoApprove
  <2>3. at \in Nat
    BY <1>1, <1>3, <1>5 DEF AutoApprove
  <2>4. Settle(p, "approved", at, None) \in Row
    BY <1>3, <1>5, <2>3, SettleType DEF AutoApprove, Decided
  <2>5. Settle(p, "approved", at, None).status # "absent"
    BY DEF Settle
  <2>6. approval' \subseteq Approval
    BY <1>1, <1>3, <1>5, <2>2, <2>3, IssueApprovalType DEF AutoApprove
  <2>. HIDE DEF p
  <2>. QED  BY <1>5, <2>1, <2>2, <2>4, <2>5, <2>6, InsertStep DEF AutoApprove
<1>6. ASSUME SubmitRollback(r)  PROVE IInv'
  BY <1>1, <1>6
  DEF IInv, TypeOK, LockInv, StampInv, SubmissionInv, Holds, StillPending,
      WindowPassed, SubmitRollback, backend
<1>. QED  BY <1>2, <1>4, <1>5, <1>6 DEF SubmissionStep

\* The bulk UPDATE of a poll touches pending rows that no handler has locked.
LEMMA PollActions ==
  ASSUME IInv, NEW d \in Device, PollStep(d)
  PROVE  IInv'
<1>1. /\ poll \in [Device -> Poll] /\ inbox \in [Device -> SUBSET Decision]
      /\ row \in [Request -> Row] /\ handler \in [Reviewer -> Handler]
      /\ now \in Nat /\ approval \subseteq Approval
  BY DEF IInv, TypeOK
<1>. DEFINE SameTables == UNCHANGED <<now, backend, submission, handler>>
<1>2. ASSUME SameTables, poll' \in [Device -> Poll],
             inbox' \in [Device -> SUBSET Decision],
             \A e \in Device : poll'[e].stamp <= now
      PROVE  IInv'
  BY <1>2
  DEF IInv, TypeOK, LockInv, StampInv, SubmissionInv, Holds, StillPending,
      WindowPassed, backend
<1>3. ASSUME PollBegin(d)  PROVE IInv'
  <2>1. poll' \in [Device -> Poll] /\ \A e \in Device : poll'[e].stamp <= now
    BY <1>1, <1>3 DEF PollBegin, Poll, IInv, StampInv
  <2>. QED  BY <1>1, <1>2, <1>3, <2>1 DEF PollBegin
<1>4. ASSUME PollAbort(d)  PROVE IInv'
  <2>1. poll' \in [Device -> Poll] /\ \A e \in Device : poll'[e].stamp <= now
    BY <1>1, <1>4 DEF PollAbort, Poll, IInv, StampInv
  <2>. QED  BY <1>1, <1>2, <1>4, <2>1 DEF PollAbort
<1>5. ASSUME PollList(d)  PROVE IInv'
  <2>1. poll' \in [Device -> Poll] /\ \A e \in Device : poll'[e].stamp <= now
    BY <1>1, <1>5 DEF PollList, Poll, IInv, StampInv
  <2>2. \A r \in Request : TokenOf(r) \in Nonce \cup {None}
    BY <1>1 DEF TokenOf, Approval
  <2>3. \A since : DecisionsSince(d, since) \in SUBSET Decision
    BY <2>2 DEF DecisionsSince, Decision
  <2>4. inbox' \in [Device -> SUBSET Decision]
    BY <1>1, <1>5, <2>3 DEF PollList
  <2>. QED  BY <1>2, <1>5, <2>1, <2>4 DEF PollList
<1>6. ASSUME PollExpire(d)  PROVE IInv'
  <2>. DEFINE R == Lapsed(d, poll[d].stamp)
  <2>1. /\ \A r \in R : r \in Request /\ ~Locked(r) /\ row[r].status = "pending"
        /\ row' = [r \in Request |->
             IF r \in R THEN Settle(row[r], "expired", poll[d].stamp, None) ELSE row[r]]
        /\ poll' = [poll EXCEPT ![d].pc = "expired"]
        /\ UNCHANGED <<now, approval, audit, submission, handler, inbox>>
    BY <1>6 DEF PollExpire, Lapsed, StillPending
  <2>. HIDE DEF R
  <2>2. poll[d].stamp \in Nat
    BY <1>1 DEF Poll
  <2>3. \A r \in R : Settle(row[r], "expired", poll[d].stamp, None) \in Row
    BY <1>1, <2>1, <2>2, SettleType DEF Decided
  <2>4. row' \in [Request -> Row]
    BY <1>1, <2>1, <2>3
  <2>5. \A r \in Request : /\ row'[r].expiresAt = row[r].expiresAt
                           /\ row'[r].status = "absent" <=> row[r].status = "absent"
    BY <2>1 DEF Settle
  <2>6. poll' \in [Device -> Poll] /\ \A e \in Device : poll'[e].stamp <= now
    BY <1>1, <2>1 DEF Poll, IInv, StampInv
  <2>7. TypeOK'
    BY <2>1, <2>4, <2>6 DEF IInv, TypeOK
  <2>8. \A w \in Reviewer : handler[w].pc # "idle" => handler[w].target \in Request
    BY <1>1 DEF Handler
  <2>9. ASSUME NEW w \in Reviewer, Holds(w)  PROVE row'[handler[w].target] = row[handler[w].target]
    BY <2>1, <2>8, <2>9 DEF Holds, Locked
  <2>10. LockInv'
    BY <2>1, <2>9 DEF IInv, LockInv, Holds, StillPending
  <2>11. StampInv'
    BY <2>1, <2>5, <2>6, <2>8 DEF IInv, StampInv, WindowPassed
  <2>12. SubmissionInv'
    BY <2>1, <2>5 DEF IInv, SubmissionInv
  <2>. QED  BY <2>7, <2>10, <2>11, <2>12 DEF IInv
<1>. QED  BY <1>3, <1>4, <1>5, <1>6 DEF PollStep

LEMMA ConsumeStep ==
  ASSUME IInv, NEW d \in Device, NEW a \in approval, Consume(d, a)
  PROVE  IInv'
<1>1. approval \subseteq Approval /\ audit \in [Request -> [AuditAction -> Nat]]
  BY DEF IInv, TypeOK
<1>2. a.request \in Request /\ [a EXCEPT !.consumed = TRUE] \in Approval
  BY <1>1 DEF Approval
<1>3. approval' \subseteq Approval
  BY <1>1, <1>2 DEF Consume
<1>4. audit' \in [Request -> [AuditAction -> Nat]]
  BY <1>1, <1>2, WriteAuditType DEF Consume, AuditAction
<1>. QED
  BY <1>3, <1>4
  DEF IInv, TypeOK, LockInv, StampInv, SubmissionInv, Holds, StillPending,
      WindowPassed, Consume

LEMMA TickStep ==
  ASSUME IInv, Tick
  PROVE  IInv'
<1>1. now \in Nat /\ now' = now + 1 /\ now <= now'
  BY DEF IInv, TypeOK, Tick
<1>2. TypeOK' /\ LockInv'
  BY <1>1 DEF IInv, TypeOK, LockInv, Holds, StillPending, Tick, backend
<1>3. /\ \A v \in Reviewer : handler[v].stamp \in Nat
      /\ \A d \in Device : poll[d].stamp \in Nat
      /\ \A r \in Request : submission[r] # None => submission[r].begunAt \in Nat
  BY DEF IInv, TypeOK, Handler, Poll, Submission
<1>4. StampInv' /\ SubmissionInv'
  BY <1>1, <1>3 DEF IInv, StampInv, SubmissionInv, WindowPassed, Tick, backend
<1>. QED  BY <1>2, <1>4 DEF IInv

LEMMA InitIInv == Init => IInv
<1>. SUFFICES ASSUME Init  PROVE IInv
  OBVIOUS
<1>1. NoRow \in Row
  BY DEF NoRow, Row
<1>2. TypeOK
  <2>1. [pc |-> "idle", target |-> None, verdict |-> "approved",
         stamp |-> 0, reply |-> "none"] \in Handler
    BY DEF Handler
  <2>. QED  BY <1>1, <2>1 DEF Init, TypeOK, Poll
<1>3. LockInv /\ StampInv /\ SubmissionInv
  BY DEF Init, LockInv, StampInv, SubmissionInv, Holds
<1>. QED  BY <1>2, <1>3 DEF IInv

LEMMA NextIInv == IInv /\ [Next]_vars => IInv'
<1>. SUFFICES ASSUME IInv, [Next]_vars  PROVE IInv'
  OBVIOUS
<1>1. CASE Tick
  BY <1>1, TickStep
<1>2. ASSUME NEW r \in Request, SubmissionStep(r)  PROVE IInv'
  BY <1>2, SubmissionActions
<1>3. ASSUME NEW v \in Reviewer, ReviewStep(v)  PROVE IInv'
  <2>1. ASSUME Rollback(v)  PROVE IInv'
    BY <2>1, AnswerStep DEF Rollback, Reply
  <2>. QED
    BY <1>3, <2>1, LoadPendingStep, RefuseStep, FindStep, StageStep, CommitActions
    DEF ReviewStep, HandlerStep
<1>4. ASSUME NEW d \in Device, PollStep(d)  PROVE IInv'
  BY <1>4, PollActions
<1>5. ASSUME NEW d \in Device, NEW a \in approval, Consume(d, a)  PROVE IInv'
  BY <1>5, ConsumeStep
<1>6. CASE UNCHANGED vars
  BY <1>6
  DEF IInv, TypeOK, LockInv, StampInv, SubmissionInv, Holds, StillPending,
      WindowPassed, vars, backend
<1>. QED  BY <1>1, <1>2, <1>3, <1>4, <1>5, <1>6 DEF Next

LEMMA Invariance == Spec => []IInv
<1>1. Init => IInv
  BY InitIInv
<1>2. IInv /\ [Next]_vars => IInv'
  BY NextIInv
<1>. QED  BY <1>1, <1>2, PTL DEF Spec

\* Every variable keeps its type in every reachable state; in particular a
\* decided row always has its review columns and a pending row never does.
THEOREM TypeCorrect == Spec => []TypeOK
<1>1. IInv => TypeOK
  BY DEF IInv
<1>. QED  BY <1>1, Invariance, PTL

-----------------------------------------------------------------------------
\* No step overwrites a decided row. A commit writes the row its handler has
\* locked, an insert a row that was not there, a poll rows it found pending.
LEMMA DecidedRowStays ==
  ASSUME IInv, Next, NEW r \in Request, row[r].status \in Decided
  PROVE  row'[r] = row[r]
<1>1. row \in [Request -> Row] /\ row[r].status \notin {"absent", "pending"}
  BY DEF IInv, TypeOK, Decided
<1>2. ASSUME NEW q \in Request, SubmissionStep(q)  PROVE row'[r] = row[r]
  <2>1. submission[q] # None => q # r
    BY <1>1 DEF IInv, SubmissionInv
  <2>. QED
    BY <1>1, <1>2, <2>1
    DEF SubmissionStep, SubmitBegin, SubmitCommit, AutoApprove, SubmitRollback, backend
<1>3. ASSUME NEW v \in Reviewer, ReviewStep(v)  PROVE row'[r] = row[r]
  <2>1. handler[v].pc \in {"staged", "expiring"} => handler[v].target # r
    BY <1>1 DEF IInv, LockInv, Holds, StillPending
  <2>. QED
    BY <1>1, <1>3, <2>1
    DEF ReviewStep, HandlerStep, LoadPending, Refuse, FindFresh, FindStale,
        StageExpiry, CommitExpiry, StageVerdict, LoseRace, CommitApproval,
        CommitDenial, Rollback, backend
<1>4. ASSUME NEW d \in Device, PollStep(d)  PROVE row'[r] = row[r]
  BY <1>1, <1>4
  DEF PollStep, PollBegin, PollExpire, PollList, PollAbort, Lapsed, StillPending, backend
<1>5. ASSUME NEW d \in Device, NEW a \in approval, Consume(d, a)  PROVE row'[r] = row[r]
  BY <1>5 DEF Consume
<1>. QED  BY <1>2, <1>3, <1>4, <1>5 DEF Next, Tick, backend

\* However many administrators, polls and allowlist approvals race, the first
\* commit that decides a request is the last that touches its row.
THEOREM DecisionsAreFinal == Spec => DecisionIsFinal
<1>1. IInv /\ [Next]_vars =>
        [\A r \in Request : row[r].status \in Decided => row'[r] = row[r]]_vars
  BY DecidedRowStays
<1>. QED  BY <1>1, Invariance, PTL DEF Spec, DecisionIsFinal

=============================================================================
