---------------------------- MODULE ReviewProofs ----------------------------
(***************************************************************************)
(* What the tables, the answers and the inboxes of ElevationRequests keep  *)
(* to, for every set of requests, devices, reviewers and nonces. The proof *)
(* first reduces every step of a handler to the change it commits, of      *)
(* which there are six; the properties are then about those.               *)
(***************************************************************************)
EXTENDS ElevationRequestsProofs

-----------------------------------------------------------------------------
\* The changes that are committed.

\* Nothing is.
Quiet == UNCHANGED backend

\* A row is inserted for a reviewer to decide.
Files(r) ==
  /\ row[r].status = "absent"
  /\ \E d \in Device, t \in Nat : row' = [row EXCEPT ![r] = PendingRow(d, t)]
  /\ WriteAudit(r, {"submitted"})
  /\ UNCHANGED <<now, approval>>

\* by approves the row x of r; by is None for the allowlist, which inserts
\* the row in the same transaction.
Approves(r, x, at, by) ==
  /\ \/ /\ row[r].status = "pending" /\ x = row[r] /\ by \in Reviewer
        /\ WriteAudit(r, {"approved"})
     \/ /\ row[r].status = "absent" /\ by = None
        /\ WriteAudit(r, {"submitted", "auto_approved"})
  /\ x.device \in Device
  /\ at <= now
  /\ row' = [row EXCEPT ![r] = Settle(x, "approved", at, by)]
  /\ IssueApproval(r, x.device, at)
  /\ now' = now

Denies(r, at, by) ==
  /\ row[r].status = "pending"
  /\ at <= now
  /\ row' = [row EXCEPT ![r] = Settle(row[r], "denied", at, by)]
  /\ WriteAudit(r, {"denied"})
  /\ UNCHANGED <<now, approval>>

Expires(R, at) ==
  /\ \A r \in R : row[r].status = "pending" /\ WindowPassed(r, at)
  /\ at <= now
  /\ row' = [r \in Request |->
       IF r \in R THEN Settle(row[r], "expired", at, None) ELSE row[r]]
  /\ UNCHANGED <<now, approval, audit>>

Consumes(a) ==
  /\ ~a.consumed
  /\ approval' = (approval \ {a}) \cup {[a EXCEPT !.consumed = TRUE]}
  /\ WriteAudit(a.request, {"consumed"})
  /\ UNCHANGED <<now, row>>

Commits ==
  \/ Quiet
  \/ \E r \in Request : Files(r)
  \/ \E r \in Request, x \in Row, at \in Nat, by \in Reviewer \cup {None} :
       Approves(r, x, at, by)
  \/ \E r \in Request, at \in Nat, by \in Reviewer : Denies(r, at, by)
  \/ \E R \in SUBSET Request, at \in Nat : Expires(R, at)
  \/ \E a \in approval : Consumes(a)

\* Every step of the backend commits one of them.
LEMMA StepCommits ==
  ASSUME IInv, Next
  PROVE  Commits
<1>1. /\ row \in [Request -> Row] /\ handler \in [Reviewer -> Handler]
      /\ submission \in [Request -> Submission \cup {None}]
      /\ poll \in [Device -> Poll] /\ now \in Nat
  BY DEF IInv, TypeOK
<1>2. ASSUME NEW r \in Request, SubmissionStep(r)  PROVE Commits
  <2>1. ASSUME submission[r] # None
        PROVE  /\ submission[r].device \in Device /\ submission[r].begunAt \in Nat
               /\ row[r].status = "absent" /\ submission[r].begunAt <= now
    BY <1>1, <2>1 DEF Submission, IInv, SubmissionInv
  <2>2. ASSUME SubmitCommit(r)  PROVE Files(r)
    BY <2>1, <2>2 DEF SubmitCommit, Files
  <2>3. ASSUME AutoApprove(r)  PROVE Commits
    <3>. DEFINE p == PendingRow(submission[r].device, submission[r].begunAt)
    <3>1. PICK at \in submission[r].begunAt .. now :
            /\ row' = [row EXCEPT ![r] = Settle(p, "approved", at, None)]
            /\ IssueApproval(r, submission[r].device, at)
      BY <2>3 DEF AutoApprove
    <3>2. at \in Nat /\ at <= now
      BY <1>1, <2>1, <2>3 DEF AutoApprove
    <3>3. p \in Row /\ p.device = submission[r].device
      BY <2>1, <2>3, PendingRowType DEF AutoApprove, PendingRow
    <3>. HIDE DEF p
    <3>4. Approves(r, p, at, None)
      BY <2>1, <2>3, <3>1, <3>2, <3>3 DEF AutoApprove, Approves
    <3>. QED  BY <3>2, <3>3, <3>4 DEF Commits
  <2>4. ASSUME SubmitRollback(r) \/ \E d \in Device : SubmitBegin(d, r)  PROVE Quiet
    BY <2>4 DEF SubmitRollback, SubmitBegin, Quiet
  <2>. QED  BY <1>2, <2>2, <2>3, <2>4 DEF SubmissionStep, Commits
<1>3. ASSUME NEW v \in Reviewer, ReviewStep(v)  PROVE Commits
  <2>. DEFINE r == handler[v].target
              at == handler[v].stamp
  <2>1. ASSUME Holds(v)
        PROVE  /\ r \in Request /\ row[r] \in Row /\ row[r].status = "pending"
               /\ row[r].device \in Device /\ at \in Nat /\ at <= now
    <3>1. r \in Request /\ at \in Nat
      BY <1>1, <2>1 DEF Holds, Handler
    <3>2. row[r].status = "pending" /\ at <= now
      BY <2>1 DEF IInv, LockInv, StillPending, StampInv
    <3>. QED  BY <1>1, <3>1, <3>2 DEF Row, Decided
  <2>2. ASSUME CommitExpiry(v)  PROVE Commits
    <3>1. Holds(v) /\ WindowPassed(r, at)
      BY <2>2 DEF CommitExpiry, Holds, IInv, StampInv
    <3>2. row' = [q \in Request |->
            IF q \in {r} THEN Settle(row[q], "expired", at, None) ELSE row[q]]
      BY <1>1, <2>1, <2>2, <3>1 DEF CommitExpiry
    <3>3. Expires({r}, at)
      BY <2>1, <2>2, <3>1, <3>2 DEF CommitExpiry, Expires
    <3>. QED  BY <2>1, <3>1, <3>3 DEF Commits
  <2>3. ASSUME CommitApproval(v)  PROVE Commits
    <3>1. Holds(v)
      BY <2>3 DEF CommitApproval, Holds
    <3>2. Approves(r, row[r], at, v)
      BY <1>1, <2>1, <2>3, <3>1 DEF CommitApproval, Approves
    <3>. QED  BY <2>1, <3>1, <3>2 DEF Commits
  <2>4. ASSUME CommitDenial(v)  PROVE Commits
    <3>1. Holds(v)
      BY <2>4 DEF CommitDenial, Holds
    <3>2. Denies(r, at, v)
      BY <1>1, <2>1, <2>4, <3>1 DEF CommitDenial, Denies
    <3>. QED  BY <2>1, <3>1, <3>2 DEF Commits
  <2>5. ASSUME ~CommitExpiry(v), ~CommitApproval(v), ~CommitDenial(v)  PROVE Quiet
    BY <1>3, <2>5
    DEF ReviewStep, HandlerStep, LoadPending, Refuse, FindFresh, FindStale,
        StageExpiry, StageVerdict, LoseRace, Rollback, Quiet
  <2>. QED  BY <2>2, <2>3, <2>4, <2>5 DEF Commits
<1>4. ASSUME NEW d \in Device, PollStep(d)  PROVE Commits
  <2>1. ASSUME PollExpire(d)  PROVE Expires(Lapsed(d, poll[d].stamp), poll[d].stamp)
    BY <2>1 DEF PollExpire, Expires, Lapsed, StillPending, IInv, StampInv
  <2>2. poll[d].stamp \in Nat /\ Lapsed(d, poll[d].stamp) \in SUBSET Request
    BY <1>1 DEF Poll, Lapsed
  <2>3. ASSUME ~PollExpire(d)  PROVE Quiet
    BY <1>4, <2>3 DEF PollStep, PollBegin, PollList, PollAbort, Quiet
  <2>. QED  BY <2>1, <2>2, <2>3 DEF Commits
<1>5. ASSUME NEW d \in Device, NEW a \in approval, Consume(d, a)  PROVE Commits
  BY <1>5 DEF Consume, Consumes, Commits
<1>6. CASE Tick
  BY <1>6 DEF Tick, Quiet, Commits
<1>. QED  BY <1>2, <1>3, <1>4, <1>5, <1>6 DEF Next

-----------------------------------------------------------------------------
\* Tokens.

LEMMA NewToken ==
  ASSUME approval \subseteq Approval, now \in Nat,
         NEW r, NEW d, NEW t \in Nat, IssueApproval(r, d, t)
  PROVE  \E a : /\ approval' = approval \cup {a}
                /\ a.request = r /\ a.device = d /\ ~a.consumed
                /\ a.nonce \in Nonce /\ \A b \in approval : b.nonce # a.nonce
                /\ t + ApprovalTTL <= a.expiresAt
<1>1. PICK n \in FreshNonce, issuedAt \in t .. now :
        approval' = approval \cup
          {[request |-> r, device |-> d, nonce |-> n,
            expiresAt |-> issuedAt + ApprovalTTL, consumed |-> FALSE]}
  BY DEF IssueApproval
<1>2. n \in Nonce /\ \A b \in approval : b.nonce # n
  BY DEF FreshNonce
<1>3. t + ApprovalTTL <= issuedAt + ApprovalTTL
  BY ConstantsAssumption
<1>. WITNESS [request |-> r, device |-> d, nonce |-> n,
              expiresAt |-> issuedAt + ApprovalTTL, consumed |-> FALSE]
<1>. QED  BY <1>1, <1>2, <1>3

\* The parts of ApprovalsMatchVerdicts.
TokensAreEarned ==
  \A a \in approval :
    /\ row[a.request].status = "approved"
    /\ row[a.request].device = a.device
    /\ row[a.request].reviewedAt + ApprovalTTL <= a.expiresAt

TokensAreDistinct ==
  \A a, b \in approval : a.request = b.request \/ a.nonce = b.nonce => a = b

ApprovalsHaveTokens ==
  \A r \in Request :
    row[r].status = "approved" => \E a \in approval : a.request = r

LEMMA TokenParts ==
  ApprovalsMatchVerdicts <=>
    TokensAreEarned /\ TokensAreDistinct /\ ApprovalsHaveTokens
BY DEF ApprovalsMatchVerdicts, TokensAreEarned, TokensAreDistinct, ApprovalsHaveTokens

\* A step that leaves the approvals and the approved rows alone.
LEMMA TokensStay ==
  ASSUME ApprovalsMatchVerdicts, approval \subseteq Approval, UNCHANGED approval,
         \A r \in Request :
           /\ row[r].status = "approved" => row'[r] = row[r]
           /\ row'[r].status = "approved" => row[r].status = "approved"
  PROVE  ApprovalsMatchVerdicts'
<1>1. \A a \in approval : a.request \in Request
  BY DEF Approval
<1>. QED  BY <1>1 DEF ApprovalsMatchVerdicts

LEMMA ApprovalsStep ==
  ASSUME IInv, ApprovalsMatchVerdicts, Commits
  PROVE  ApprovalsMatchVerdicts'
<1>1. /\ row \in [Request -> Row] /\ approval \subseteq Approval /\ now \in Nat
  BY DEF IInv, TypeOK
<1>2. CASE Quiet
  BY <1>1, <1>2, TokensStay DEF Quiet, backend
<1>3. ASSUME NEW r \in Request, Files(r)  PROVE ApprovalsMatchVerdicts'
  BY <1>1, <1>3, TokensStay DEF Files, PendingRow
<1>4. ASSUME NEW r \in Request, NEW x \in Row, NEW at \in Nat,
             NEW by \in Reviewer \cup {None}, Approves(r, x, at, by)
      PROVE  ApprovalsMatchVerdicts'
  <2>1. PICK a : /\ approval' = approval \cup {a}
                 /\ a.request = r /\ a.device = x.device
                 /\ a.nonce \in Nonce /\ \A b \in approval : b.nonce # a.nonce
                 /\ at + ApprovalTTL <= a.expiresAt
    BY <1>1, <1>4, NewToken DEF Approves
  <2>2. /\ row'[r].status = "approved" /\ row'[r].device = x.device
        /\ row'[r].reviewedAt = at
        /\ \A q \in Request \ {r} : row'[q] = row[q]
    BY <1>1, <1>4 DEF Approves, Settle
  <2>3. \A b \in approval : b.request \in Request \ {r}
    BY <1>1, <1>4 DEF Approves, ApprovalsMatchVerdicts, Approval
  <2>4. TokensAreEarned'
    BY <2>1, <2>2, <2>3, TokenParts DEF TokensAreEarned
  <2>5. TokensAreDistinct'
    BY <2>1, <2>3, TokenParts DEF TokensAreDistinct
  <2>6. ApprovalsHaveTokens'
    BY <2>1, <2>2, TokenParts DEF ApprovalsHaveTokens
  <2>. QED  BY <2>4, <2>5, <2>6
       DEF ApprovalsMatchVerdicts, TokensAreEarned, TokensAreDistinct, ApprovalsHaveTokens
<1>5. ASSUME NEW r \in Request, NEW at \in Nat, NEW by \in Reviewer, Denies(r, at, by)
      PROVE  ApprovalsMatchVerdicts'
  BY <1>1, <1>5, TokensStay DEF Denies, Settle
<1>6. ASSUME NEW R \in SUBSET Request, NEW at \in Nat, Expires(R, at)
      PROVE  ApprovalsMatchVerdicts'
  BY <1>1, <1>6, TokensStay DEF Expires, Settle
<1>7. ASSUME NEW a \in approval, Consumes(a)  PROVE ApprovalsMatchVerdicts'
  <2>. DEFINE c == [a EXCEPT !.consumed = TRUE]
  <2>1. /\ c.request = a.request /\ c.device = a.device
        /\ c.nonce = a.nonce /\ c.expiresAt = a.expiresAt
    BY <1>1 DEF Approval
  <2>2. approval' = (approval \ {a}) \cup {c} /\ row' = row
    BY <1>7 DEF Consumes
  <2>. HIDE DEF c
  <2>. QED  BY <2>1, <2>2 DEF ApprovalsMatchVerdicts
<1>. QED  BY <1>2, <1>3, <1>4, <1>5, <1>6, <1>7 DEF Commits

-----------------------------------------------------------------------------
\* Audit rows.

LEMMA Audited ==
  ASSUME audit \in [Request -> [AuditAction -> Nat]],
         NEW r \in Request, NEW A \in SUBSET AuditAction, WriteAudit(r, A)
  PROVE  \A q \in Request, b \in AuditAction :
           audit'[q][b] = IF q = r /\ b \in A THEN audit[q][b] + 1 ELSE audit[q][b]
BY DEF WriteAudit

\* The audit rows follow a change: what is accounted for stays so, and the
\* rows written are about exactly what has become so.
LEMMA AuditFollows ==
  ASSUME AuditMatchesState, audit \in [Request -> [AuditAction -> Nat]],
         NEW r \in Request, NEW A \in SUBSET AuditAction, WriteAudit(r, A),
         \A b \in AuditAction : Accounted(r, b)' <=> Accounted(r, b) \/ b \in A,
         \A b \in A : ~Accounted(r, b),
         \A q \in Request \ {r}, b \in AuditAction : Accounted(q, b)' <=> Accounted(q, b)
  PROVE  AuditMatchesState'
<1>. SUFFICES ASSUME NEW q \in Request, NEW b \in AuditAction
              PROVE  audit'[q][b] = IF Accounted(q, b)' THEN 1 ELSE 0
  BY DEF AuditMatchesState
<1>1. audit[q][b] = IF Accounted(q, b) THEN 1 ELSE 0
  BY DEF AuditMatchesState
<1>2. CASE q = r
  BY <1>1, <1>2, Audited
<1>3. CASE q # r
  BY <1>1, <1>3, Audited
<1>. QED  BY <1>2, <1>3

LEMMA AuditStep ==
  ASSUME IInv, ApprovalsMatchVerdicts, AuditMatchesState, Commits
  PROVE  AuditMatchesState'
<1>1. /\ row \in [Request -> Row] /\ approval \subseteq Approval /\ now \in Nat
      /\ audit \in [Request -> [AuditAction -> Nat]]
  BY DEF IInv, TypeOK
<1>2. CASE Quiet
  <2>1. \A q \in Request, b \in AuditAction : Accounted(q, b)' <=> Accounted(q, b)
    BY <1>2 DEF Quiet, backend, Accounted, AuditAction
  <2>. QED  BY <1>2, <2>1 DEF Quiet, backend, AuditMatchesState
<1>3. ASSUME NEW r \in Request, Files(r)  PROVE AuditMatchesState'
  <2>1. \A q \in Request \ {r} : row'[q] = row[q]
    BY <1>1, <1>3 DEF Files
  <2>2. row'[r].status = "pending" /\ row[r].status = "absent"
    BY <1>1, <1>3 DEF Files, PendingRow
  <2>3. \A a \in approval : a.request # r
    BY <2>2 DEF ApprovalsMatchVerdicts
  <2>4. \A b \in AuditAction : Accounted(r, b)' <=> Accounted(r, b) \/ b \in {"submitted"}
    BY <1>3, <2>2, <2>3 DEF Files, Accounted, AuditAction
  <2>5. ~Accounted(r, "submitted")
    BY <2>2 DEF Accounted
  <2>6. \A q \in Request \ {r}, b \in AuditAction : Accounted(q, b)' <=> Accounted(q, b)
    BY <1>3, <2>1 DEF Files, Accounted, AuditAction
  <2>. QED  BY <1>1, <1>3, <2>4, <2>5, <2>6, AuditFollows DEF Files, AuditAction
<1>4. ASSUME NEW r \in Request, NEW x \in Row, NEW at \in Nat,
             NEW by \in Reviewer \cup {None}, Approves(r, x, at, by)
      PROVE  AuditMatchesState'
  <2>1. PICK a : /\ approval' = approval \cup {a}
                 /\ a.request = r /\ ~a.consumed
    BY <1>1, <1>4, NewToken DEF Approves
  <2>2. /\ row'[r].status = "approved" /\ row'[r].reviewedBy = by
        /\ row[r].status \in {"absent", "pending"}
        /\ \A q \in Request \ {r} : row'[q] = row[q]
    BY <1>1, <1>4 DEF Approves, Settle
  <2>3. \A b \in approval : b.request # r
    BY <2>2 DEF ApprovalsMatchVerdicts
  <2>4. \A q \in Request \ {r}, b \in AuditAction : Accounted(q, b)' <=> Accounted(q, b)
    BY <2>1, <2>2 DEF Accounted, AuditAction
  <2>5. CASE row[r].status = "pending" /\ by \in Reviewer /\ WriteAudit(r, {"approved"})
    <3>1. by # None
      BY <2>5, ConstantsAssumption
    <3>2. \A b \in AuditAction : Accounted(r, b)' <=> Accounted(r, b) \/ b \in {"approved"}
      BY <2>1, <2>2, <2>3, <2>5, <3>1 DEF Accounted, AuditAction
    <3>3. ~Accounted(r, "approved")
      BY <2>5 DEF Accounted
    <3>. QED  BY <1>1, <2>4, <2>5, <3>2, <3>3, AuditFollows DEF AuditAction
  <2>6. CASE /\ row[r].status = "absent" /\ by = None
             /\ WriteAudit(r, {"submitted", "auto_approved"})
    <3>1. \A b \in AuditAction :
            Accounted(r, b)' <=> Accounted(r, b) \/ b \in {"submitted", "auto_approved"}
      BY <2>1, <2>2, <2>3, <2>6 DEF Accounted, AuditAction
    <3>2. ~Accounted(r, "submitted") /\ ~Accounted(r, "auto_approved")
      BY <2>6 DEF Accounted
    <3>. QED  BY <1>1, <2>4, <2>6, <3>1, <3>2, AuditFollows DEF AuditAction
  <2>. QED  BY <1>4, <2>5, <2>6 DEF Approves
<1>5. ASSUME NEW r \in Request, NEW at \in Nat, NEW by \in Reviewer, Denies(r, at, by)
      PROVE  AuditMatchesState'
  <2>1. /\ row'[r].status = "denied" /\ row[r].status = "pending"
        /\ \A q \in Request \ {r} : row'[q] = row[q]
    BY <1>1, <1>5 DEF Denies, Settle
  <2>2. \A b \in AuditAction : Accounted(r, b)' <=> Accounted(r, b) \/ b \in {"denied"}
    BY <1>5, <2>1 DEF Denies, Accounted, AuditAction
  <2>3. ~Accounted(r, "denied")
    BY <2>1 DEF Accounted
  <2>4. \A q \in Request \ {r}, b \in AuditAction : Accounted(q, b)' <=> Accounted(q, b)
    BY <1>5, <2>1 DEF Denies, Accounted, AuditAction
  <2>. QED  BY <1>1, <1>5, <2>2, <2>3, <2>4, AuditFollows DEF Denies, AuditAction
<1>6. ASSUME NEW R \in SUBSET Request, NEW at \in Nat, Expires(R, at)
      PROVE  AuditMatchesState'
  <2>1. \A q \in Request :
          \/ row'[q] = row[q]
          \/ row'[q].status = "expired" /\ row[q].status = "pending"
    BY <1>1, <1>6 DEF Expires, Settle
  <2>2. \A q \in Request, b \in AuditAction : Accounted(q, b)' <=> Accounted(q, b)
    BY <1>6, <2>1 DEF Expires, Accounted, AuditAction
  <2>. QED  BY <1>6, <2>2 DEF Expires, AuditMatchesState
<1>7. ASSUME NEW a \in approval, Consumes(a)  PROVE AuditMatchesState'
  <2>. DEFINE c == [a EXCEPT !.consumed = TRUE]
  <2>1. c.request = a.request /\ c.consumed /\ a.request \in Request
    BY <1>1 DEF Approval
  <2>2. approval' = (approval \ {a}) \cup {c} /\ row' = row /\ ~a.consumed
    BY <1>7 DEF Consumes
  <2>3. \A b \in approval : b.request = a.request => b = a
    BY DEF ApprovalsMatchVerdicts
  <2>. HIDE DEF c
  <2>4. \A b \in AuditAction :
          Accounted(a.request, b)' <=> Accounted(a.request, b) \/ b \in {"consumed"}
    BY <2>1, <2>2 DEF Accounted, AuditAction
  <2>5. ~Accounted(a.request, "consumed")
    BY <2>2, <2>3 DEF Accounted
  <2>6. \A q \in Request \ {a.request}, b \in AuditAction :
          Accounted(q, b)' <=> Accounted(q, b)
    BY <2>1, <2>2 DEF Accounted, AuditAction
  <2>. QED  BY <1>1, <1>7, <2>1, <2>4, <2>5, <2>6, AuditFollows DEF Consumes, AuditAction
<1>. QED  BY <1>2, <1>3, <1>4, <1>5, <1>6, <1>7 DEF Commits

-----------------------------------------------------------------------------
\* Dates.

LEMMA ExpiryStep ==
  ASSUME IInv, IInv', ExpiryIsHonest, Commits, now <= now'
  PROVE  ExpiryIsHonest'
<1>1. /\ row \in [Request -> Row] /\ row' \in [Request -> Row]
      /\ now \in Nat /\ now' \in Nat
  BY DEF IInv, TypeOK
<1>. SUFFICES ASSUME NEW r \in Request
              PROVE  /\ row'[r].status = "expired" =>
                          /\ row'[r].reviewedBy = None
                          /\ row'[r].expiresAt <= row'[r].reviewedAt
                     /\ row'[r].status \in Decided => row'[r].reviewedAt <= now'
  BY DEF ExpiryIsHonest
<1>2. CASE row'[r] = row[r]
  <2>1. row[r].status \in Decided => row[r].reviewedAt \in Nat
    BY <1>1 DEF Row, Decided
  <2>. QED  BY <1>1, <1>2, <2>1 DEF ExpiryIsHonest
<1>3. CASE row'[r] # row[r]
  <2>1. ~Quiet /\ ~\E a \in approval : Consumes(a)
    BY <1>3 DEF Quiet, backend, Consumes
  <2>2. ASSUME NEW q \in Request, Files(q)  PROVE row'[r].status = "pending"
    BY <1>1, <1>3, <2>2 DEF Files, PendingRow
  <2>3. ASSUME NEW q \in Request, NEW x \in Row, NEW at \in Nat,
               NEW by \in Reviewer \cup {None}, Approves(q, x, at, by)
        PROVE  row'[r].status = "approved" /\ row'[r].reviewedAt <= now'
    BY <1>1, <1>3, <2>3 DEF Approves, Settle
  <2>4. ASSUME NEW q \in Request, NEW at \in Nat, NEW by \in Reviewer, Denies(q, at, by)
        PROVE  row'[r].status = "denied" /\ row'[r].reviewedAt <= now'
    BY <1>1, <1>3, <2>4 DEF Denies, Settle
  <2>5. ASSUME NEW R \in SUBSET Request, NEW at \in Nat, Expires(R, at)
        PROVE  /\ row'[r].reviewedBy = None /\ row'[r].expiresAt <= row'[r].reviewedAt
               /\ row'[r].reviewedAt <= now'
    BY <1>1, <1>3, <2>5 DEF Expires, Settle, WindowPassed
  <2>. QED  BY <2>1, <2>2, <2>3, <2>4, <2>5 DEF Commits, Decided
<1>. QED  BY <1>2, <1>3

-----------------------------------------------------------------------------
\* Answers to administrators.

\* What a step may make of the answer that reviewer v has got.
Told(v) ==
  LET h == handler[v]
      k == handler'[v]
  IN \/ k.reply \in {"none", "lost", "not_found"}
     \/ k.reply = h.reply /\ k.target = h.target /\ k.verdict = h.verdict
     \/ /\ k.reply = "ok"
        /\ row'[k.target].status = k.verdict /\ row'[k.target].reviewedBy = v
     \/ k.reply = "conflict" /\ row'[k.target].status \in Decided

LEMMA StepTells ==
  ASSUME IInv, Next, NEW v \in Reviewer
  PROVE  Told(v)
<1>1. /\ row \in [Request -> Row] /\ handler \in [Reviewer -> Handler]
  BY DEF IInv, TypeOK
<1>2. CASE UNCHANGED handler
  BY <1>2 DEF Told
<1>3. ASSUME NEW w \in Reviewer, ReviewStep(w)  PROVE Told(v)
  <2>. DEFINE r == handler[w].target
  <2>1. ASSUME w # v  PROVE handler'[v] = handler[v]
    BY <1>1, <1>3, <2>1
    DEF ReviewStep, HandlerStep, LoadPending, Refuse, FindFresh, FindStale,
        StageExpiry, CommitExpiry, StageVerdict, LoseRace, CommitApproval,
        CommitDenial, Rollback, Goto, Answer
  <2>2. ASSUME handler[w].pc # "idle"
        PROVE  /\ r \in Request /\ row[r] \in Row /\ row[r].status # "absent"
               /\ handler[w].reply = "none" /\ handler[w].verdict \in {"approved", "denied"}
    BY <1>1, <2>2 DEF Handler, IInv, StampInv
  <2>3. ASSUME NEW reply \in Reply, handler[w].pc # "idle", Answer(w, reply)
        PROVE  /\ handler'[w].reply = reply /\ handler'[w].target = r
               /\ handler'[w].verdict = handler[w].verdict
    BY <1>1, <2>3, AnswerType
  <2>4. ASSUME NEW pc \in HandlerPC \ {"idle"}, NEW t \in Nat,
               handler[w].pc # "idle", Goto(w, pc, t)
        PROVE  handler'[w].reply = "none"
    BY <1>1, <2>4, GotoType
  <2>5. ASSUME NEW q \in Request, NEW x \in {"approved", "denied"},
               LoadPending(w, q, x) \/ Refuse(w, q, x)
        PROVE  Told(w)
    <3>1. CASE LoadPending(w, q, x)
      BY <1>1, <3>1 DEF LoadPending, Told
    <3>2. CASE Refuse(w, q, x)
      <4>1. /\ handler'[w].target = q /\ row' = row
            /\ handler'[w].reply = IF row[q].status = "absent" THEN "not_found" ELSE "conflict"
            /\ row[q].status # "pending"
        BY <1>1, <3>2 DEF Refuse, backend
      <4>2. row[q].status \in {"absent", "pending"} \cup Decided
        BY <1>1 DEF Row
      <4>. QED  BY <4>1, <4>2 DEF Told
    <3>. QED  BY <2>5, <3>1, <3>2
  <2>6. ASSUME FindFresh(w) \/ FindStale(w) \/ StageVerdict(w)  PROVE Told(w)
    <3>1. handler[w].pc # "idle" /\ handler[w].stamp \in Nat /\ now \in Nat
      BY <1>1, <2>6 DEF FindFresh, FindStale, StageVerdict, IInv, TypeOK, Handler
    <3>2. handler'[w].reply = "none"
      BY <2>6, <3>1, <2>4 DEF FindFresh, FindStale, StageVerdict, HandlerPC
    <3>. QED  BY <3>2 DEF Told
  <2>7. ASSUME StageExpiry(w) \/ LoseRace(w)  PROVE Told(w)
    <3>1. handler[w].pc # "idle" /\ handler[w].stamp \in Nat /\ row' = row
      BY <1>1, <2>7 DEF StageExpiry, LoseRace, Handler, backend
    <3>2. CASE StillPending(r)
      BY <2>4, <2>7, <3>1, <3>2 DEF StageExpiry, LoseRace, HandlerPC, Told
    <3>3. CASE ~StillPending(r)
      <4>1. row[r].status \in Decided
        BY <1>1, <2>2, <3>1, <3>3 DEF StillPending, Row
      <4>. QED  BY <2>3, <2>7, <3>1, <3>3, <4>1 DEF StageExpiry, LoseRace, Reply, Told
    <3>. QED  BY <3>2, <3>3
  <2>8. ASSUME CommitExpiry(w) \/ CommitApproval(w) \/ CommitDenial(w)  PROVE Told(w)
    <3>. USE DEF CommitExpiry, CommitApproval, CommitDenial
    <3>1. handler[w].pc # "idle"
      BY <2>8
    <3>2. CASE CommitExpiry(w)
      BY <1>1, <2>2, <2>3, <3>1, <3>2 DEF Settle, Reply, Told, Decided
    <3>3. CASE CommitApproval(w)
      BY <1>1, <2>2, <2>3, <3>1, <3>3 DEF Settle, Reply, Told
    <3>4. CASE CommitDenial(w)
      BY <1>1, <2>2, <2>3, <3>1, <3>4 DEF Settle, Reply, Told
    <3>. QED  BY <2>8, <3>2, <3>3, <3>4
  <2>9. ASSUME Rollback(w)  PROVE Told(w)
    BY <2>3, <2>9 DEF Rollback, Reply, Told
  <2>. QED
    BY <1>3, <2>1, <2>5, <2>6, <2>7, <2>8, <2>9 DEF ReviewStep, HandlerStep, Told
<1>. QED
  BY <1>2, <1>3
  DEF Next, Tick, SubmissionStep, SubmitBegin, SubmitCommit, AutoApprove,
      SubmitRollback, PollStep, PollBegin, PollExpire, PollList, PollAbort, Consume

LEMMA AnswersStep ==
  ASSUME IInv, IInv', AnswersAreTrue, Next
  PROVE  AnswersAreTrue'
<1>. SUFFICES ASSUME NEW v \in Reviewer
              PROVE  LET h == handler'[v] IN
                     /\ h.reply = "ok" =>
                          /\ row'[h.target].status = h.verdict
                          /\ row'[h.target].reviewedBy = v
                     /\ h.reply = "conflict" => row'[h.target].status \in Decided
  BY DEF AnswersAreTrue
<1>1. handler[v] \in Handler
  BY DEF IInv, TypeOK
<1>2. handler[v].reply \in {"ok", "conflict"} =>
        /\ handler[v].target \in Request
        /\ row[handler[v].target].status \in Decided
  <2>1. /\ handler[v].verdict \in {"approved", "denied"}
        /\ handler[v].reply \in {"ok", "conflict"} => handler[v].target \in Request
    BY <1>1 DEF Handler
  <2>. QED  BY <2>1 DEF AnswersAreTrue, Decided
<1>3. handler[v].reply \in {"ok", "conflict"} =>
        row'[handler[v].target] = row[handler[v].target]
  BY <1>2, DecidedRowStays
<1>. QED  BY <1>2, <1>3, StepTells DEF Told, AnswersAreTrue

-----------------------------------------------------------------------------
\* Inboxes.

LEMMA TokenIsTheOnlyOne ==
  ASSUME ApprovalsMatchVerdicts, NEW a \in approval
  PROVE  TokenOf(a.request) = a.nonce
BY DEF TokenOf, ApprovalsMatchVerdicts

LEMMA NoTokenOtherwise ==
  ASSUME ApprovalsMatchVerdicts, NEW r \in Request, row[r].status # "approved"
  PROVE  TokenOf(r) = None
BY DEF TokenOf, ApprovalsMatchVerdicts

\* A token that was signed stays in the table.
LEMMA TokensArePermanent ==
  ASSUME IInv, Commits, NEW a \in approval
  PROVE  \E b \in approval' : b.request = a.request /\ b.nonce = a.nonce
<1>1. approval \subseteq Approval /\ now \in Nat
  BY DEF IInv, TypeOK
<1>2. approval' = approval => a \in approval'
  OBVIOUS
<1>3. ASSUME NEW r \in Request, NEW x \in Row, NEW at \in Nat,
             NEW by \in Reviewer \cup {None}, Approves(r, x, at, by)
      PROVE  a \in approval'
  BY <1>1, <1>3, NewToken DEF Approves
<1>4. ASSUME NEW c \in approval, Consumes(c)
      PROVE  \E b \in approval' : b.request = a.request /\ b.nonce = a.nonce
  <2>1. CASE a = c
    <3>1. [c EXCEPT !.consumed = TRUE] \in approval'
      BY <1>4 DEF Consumes
    <3>2. /\ [c EXCEPT !.consumed = TRUE].request = c.request
          /\ [c EXCEPT !.consumed = TRUE].nonce = c.nonce
      BY <1>1 DEF Approval
    <3>. QED  BY <2>1, <3>1, <3>2
  <2>2. CASE a # c
    BY <1>4, <2>2 DEF Consumes
  <2>. QED  BY <2>1, <2>2
<1>. QED
  BY <1>2, <1>3, <1>4 DEF Commits, Quiet, backend, Files, Denies, Expires

\* What the decisions query of device d may say about a request.
Truthful(d, x) ==
  /\ x.request \in Request
  /\ row[x.request].device = d
  /\ row[x.request].status = x.status
  /\ x.status \in Decided
  /\ IF x.status = "approved"
       THEN \E a \in approval : a.request = x.request /\ a.nonce = x.token
       ELSE x.token = None

LEMMA QueryIsTruthful ==
  ASSUME ApprovalsMatchVerdicts, NEW d \in Device, NEW since,
         NEW x \in DecisionsSince(d, since)
  PROVE  Truthful(d, x)
<1>1. PICK r \in Request :
        /\ x = [request |-> r, status |-> row[r].status, token |-> TokenOf(r)]
        /\ row[r].device = d /\ row[r].status \in Decided
  BY DEF DecisionsSince
<1>2. CASE row[r].status = "approved"
  <2>1. PICK a \in approval : a.request = r
    BY <1>2 DEF ApprovalsMatchVerdicts
  <2>2. TokenOf(r) = a.nonce
    BY <2>1, TokenIsTheOnlyOne
  <2>. QED  BY <1>1, <1>2, <2>1, <2>2 DEF Truthful
<1>3. CASE row[r].status # "approved"
  BY <1>1, <1>3, NoTokenOtherwise DEF Truthful
<1>. QED  BY <1>2, <1>3

LEMMA InboxStep ==
  ASSUME IInv, ApprovalsMatchVerdicts, InboxIsTrue, Next
  PROVE  InboxIsTrue'
<1>1. inbox \in [Device -> SUBSET Decision]
  BY DEF IInv, TypeOK
<1>2. ASSUME NEW d \in Device, NEW x, Truthful(d, x)
      PROVE  Truthful(d, x)'
  <2>1. row'[x.request] = row[x.request]
    BY <1>2, DecidedRowStays DEF Truthful
  <2>2. ASSUME NEW a \in approval
        PROVE  \E b \in approval' : b.request = a.request /\ b.nonce = a.nonce
    BY StepCommits, TokensArePermanent
  <2>. QED  BY <1>2, <2>1, <2>2 DEF Truthful
<1>3. ASSUME NEW d \in Device, NEW x \in inbox[d]  PROVE Truthful(d, x)
  <2>1. x.request \in Request /\ x.status \in Decided
    BY <1>1, <1>3 DEF Decision
  <2>. QED  BY <1>3, <2>1 DEF InboxIsTrue, Truthful
<1>4. ASSUME NEW d \in Device, NEW x \in inbox'[d]  PROVE Truthful(d, x)
  <2>1. CASE inbox' = inbox
    BY <1>3, <1>4, <2>1
  <2>2. ASSUME NEW e \in Device, PollList(e)  PROVE Truthful(d, x)
    BY <1>1, <1>3, <1>4, <2>2, QueryIsTruthful DEF PollList
  <2>. QED
    BY <2>1, <2>2
    DEF Next, Tick, SubmissionStep, SubmitBegin, SubmitCommit, AutoApprove,
        SubmitRollback, ReviewStep, HandlerStep, LoadPending, Refuse, FindFresh,
        FindStale, StageExpiry, CommitExpiry, StageVerdict, LoseRace,
        CommitApproval, CommitDenial, Rollback, PollStep, PollBegin, PollExpire,
        PollAbort, Consume
<1>. QED  BY <1>2, <1>4 DEF InboxIsTrue, Truthful

-----------------------------------------------------------------------------
\* All of it together.

FullInv ==
  /\ IInv
  /\ ApprovalsMatchVerdicts
  /\ AuditMatchesState
  /\ ExpiryIsHonest
  /\ AnswersAreTrue
  /\ InboxIsTrue

LEMMA InitFullInv == Init => FullInv
<1>. SUFFICES ASSUME Init  PROVE FullInv
  OBVIOUS
<1>1. ApprovalsMatchVerdicts
  BY DEF Init, NoRow, ApprovalsMatchVerdicts
<1>2. AuditMatchesState
  BY DEF Init, NoRow, AuditMatchesState, Accounted, AuditAction
<1>3. ExpiryIsHonest /\ AnswersAreTrue /\ InboxIsTrue
  BY DEF Init, NoRow, ExpiryIsHonest, AnswersAreTrue, InboxIsTrue, Decided
<1>. QED  BY <1>1, <1>2, <1>3, InitIInv DEF FullInv

LEMMA NextFullInv == FullInv /\ [Next]_vars => FullInv'
<1>1. ASSUME FullInv, Next  PROVE FullInv'
  <2>1. IInv' /\ Commits
    BY <1>1, NextIInv, StepCommits DEF FullInv
  <2>2. now <= now'
    <3>1. now \in Nat
      BY <1>1 DEF FullInv, IInv, TypeOK
    <3>2. now' = now \/ now' = now + 1
      BY <1>1
      DEF Next, Tick, SubmissionStep, SubmitBegin, SubmitCommit, AutoApprove,
          SubmitRollback, ReviewStep, HandlerStep, LoadPending, Refuse, FindFresh,
          FindStale, StageExpiry, CommitExpiry, StageVerdict, LoseRace,
          CommitApproval, CommitDenial, Rollback, PollStep, PollBegin, PollExpire,
          PollList, PollAbort, Consume
    <3>. QED  BY <3>1, <3>2
  <2>. QED
    BY <1>1, <2>1, <2>2, ApprovalsStep, AuditStep, ExpiryStep, AnswersStep, InboxStep
    DEF FullInv
<1>2. ASSUME FullInv, UNCHANGED vars  PROVE FullInv'
  <2>1. IInv'
    BY <1>2, NextIInv DEF FullInv
  <2>2. ApprovalsMatchVerdicts' /\ ExpiryIsHonest' /\ AnswersAreTrue' /\ InboxIsTrue'
    BY <1>2
    DEF FullInv, vars, ApprovalsMatchVerdicts, ExpiryIsHonest, AnswersAreTrue, InboxIsTrue
  <2>3. AuditMatchesState'
    BY <1>2, AuditStep DEF FullInv, vars, Commits, Quiet, backend
  <2>. QED  BY <2>1, <2>2, <2>3 DEF FullInv
<1>. QED  BY <1>1, <1>2

LEMMA FullInvariance == Spec => []FullInv
BY InitFullInv, NextFullInv, PTL DEF Spec

-----------------------------------------------------------------------------
\* What the backend guarantees.

\* Signed tokens and approved requests correspond one to one, through every
\* race and rollback.
THEOREM TokensMatchVerdicts == Spec => []ApprovalsMatchVerdicts
<1>1. FullInv => ApprovalsMatchVerdicts
  BY DEF FullInv
<1>. QED  BY <1>1, FullInvariance, PTL

\* The audit log has exactly one row for everything that committed, and none
\* for what did not.
THEOREM AuditIsExact == Spec => []AuditMatchesState
<1>1. FullInv => AuditMatchesState
  BY DEF FullInv
<1>. QED  BY <1>1, FullInvariance, PTL

\* Nothing expires before its window has closed, nor in a reviewer's name.
THEOREM ExpiryHonest == Spec => []ExpiryIsHonest
<1>1. FullInv => ExpiryIsHonest
  BY DEF FullInv
<1>. QED  BY <1>1, FullInvariance, PTL

\* An administrator who was told 200 has decided the request, one who was
\* told 409 has not been the first; for good.
THEOREM AnswersHold == Spec => []AnswersAreTrue
<1>1. FullInv => AnswersAreTrue
  BY DEF FullInv
<1>. QED  BY <1>1, FullInvariance, PTL

\* A device is told only about its own requests, and only what stays true.
THEOREM InboxesHold == Spec => []InboxIsTrue
<1>1. FullInv => InboxIsTrue
  BY DEF FullInv
<1>. QED  BY <1>1, FullInvariance, PTL

-----------------------------------------------------------------------------
\* Refinement: each commit is one step of Verdict.

\* The token of an approved request is read the same after any step.
LEMMA TokenStays ==
  ASSUME FullInv, FullInv', Commits, NEW r \in Request,
         row[r].status = "approved" \/ row'[r].status # "approved"
  PROVE  TokenOf(r)' = TokenOf(r)
<1>. USE DEF FullInv
<1>1. CASE row[r].status = "approved"
  <2>1. PICK a \in approval : a.request = r
    BY <1>1 DEF ApprovalsMatchVerdicts
  <2>2. PICK b \in approval' : b.request = r /\ b.nonce = a.nonce
    BY <2>1, TokensArePermanent
  <2>3. TokenOf(r) = a.nonce
    BY <2>1, TokenIsTheOnlyOne
  <2>4. TokenOf(r)' = b.nonce
    BY <2>2 DEF TokenOf, ApprovalsMatchVerdicts
  <2>. QED  BY <2>2, <2>3, <2>4
<1>2. CASE row[r].status # "approved" /\ row'[r].status # "approved"
  <2>1. TokenOf(r) = None
    BY <1>2, NoTokenOtherwise
  <2>2. TokenOf(r)' = None
    BY <1>2 DEF TokenOf, ApprovalsMatchVerdicts
  <2>. QED  BY <2>1, <2>2
<1>. QED  BY <1>1, <1>2

verdictBar == [r \in Request |-> row[r].status]
tokenBar == [r \in Request |-> TokenOf(r)]

LEMMA CommitsRefine ==
  ASSUME FullInv, FullInv', Commits
  PROVE  V!Next \/ UNCHANGED V!vars
<1>1. /\ row \in [Request -> Row] /\ row' \in [Request -> Row]
      /\ approval \subseteq Approval /\ now \in Nat
  BY DEF FullInv, IInv, TypeOK
<1>2. ASSUME \A r \in Request : TokenOf(r)' = TokenOf(r)
      PROVE  tokenBar' = tokenBar
  BY <1>2 DEF tokenBar
<1>3. ASSUME row' = row
      PROVE  UNCHANGED V!vars
  <2>1. tokenBar' = tokenBar /\ verdictBar' = verdictBar
    BY <1>2, <1>3, TokenStays DEF verdictBar
  <2>. QED  BY <2>1 DEF V!vars, verdictBar, tokenBar
<1>4. ASSUME NEW r \in Request, Files(r)  PROVE V!Enter(r)
  <2>1. row[r].status = "absent" /\ row'[r].status = "pending"
        /\ \A q \in Request \ {r} : row'[q] = row[q]
    BY <1>1, <1>4 DEF Files, PendingRow
  <2>2. tokenBar' = tokenBar
    BY <1>2, <2>1, TokenStays
  <2>3. verdictBar' = [verdictBar EXCEPT ![r] = "pending"]
    BY <2>1 DEF verdictBar
  <2>. QED  BY <2>1, <2>2, <2>3 DEF V!Enter, verdictBar, tokenBar
<1>5. ASSUME NEW r \in Request, NEW x \in Row, NEW at \in Nat,
             NEW by \in Reviewer \cup {None}, Approves(r, x, at, by)
      PROVE  V!Approve(r)
  <2>1. /\ row[r].status \in {"absent", "pending"} /\ row'[r].status = "approved"
        /\ \A q \in Request \ {r} : row'[q] = row[q]
    BY <1>1, <1>5 DEF Approves, Settle
  <2>2. PICK a : /\ approval' = approval \cup {a} /\ a.request = r
                 /\ a.nonce \in Nonce /\ \A b \in approval : b.nonce # a.nonce
    BY <1>1, <1>5, NewToken DEF Approves
  <2>3. TokenOf(r)' = a.nonce
    BY <2>2 DEF TokenOf, FullInv, ApprovalsMatchVerdicts
  <2>4. \A q \in Request \ {r} : TokenOf(q)' = TokenOf(q)
    BY <2>1, TokenStays
  <2>5. tokenBar' = [tokenBar EXCEPT ![r] = a.nonce]
    BY <2>3, <2>4 DEF tokenBar
  <2>6. verdictBar' = [verdictBar EXCEPT ![r] = "approved"]
    BY <2>1 DEF verdictBar
  <2>7. \A q \in Request : TokenOf(q) # a.nonce
    <3>1. \A q \in Request :
            TokenOf(q) = None \/ \E b \in approval : TokenOf(q) = b.nonce
      BY DEF TokenOf
    <3>2. a.nonce # None
      BY <2>2, ConstantsAssumption
    <3>. QED  BY <2>2, <3>1, <3>2
  <2>8. a.nonce \in V!Unused
    BY <2>2, <2>7 DEF V!Unused
  <2>. QED  BY <2>1, <2>5, <2>6, <2>8 DEF V!Approve, verdictBar, tokenBar
<1>6. ASSUME NEW r \in Request, NEW at \in Nat, NEW by \in Reviewer, Denies(r, at, by)
      PROVE  V!Deny(r)
  <2>1. /\ row[r].status = "pending" /\ row'[r].status = "denied"
        /\ \A q \in Request \ {r} : row'[q] = row[q]
    BY <1>1, <1>6 DEF Denies, Settle
  <2>2. tokenBar' = tokenBar
    BY <1>2, <2>1, TokenStays
  <2>3. verdictBar' = [verdictBar EXCEPT ![r] = "denied"]
    BY <2>1 DEF verdictBar
  <2>. QED  BY <2>1, <2>2, <2>3 DEF V!Deny, verdictBar, tokenBar
<1>7. ASSUME NEW R \in SUBSET Request, NEW at \in Nat, Expires(R, at)
      PROVE  V!Expire(R)
  <2>1. /\ \A r \in R : row[r].status = "pending"
        /\ \A r \in R : row'[r] = Settle(row[r], "expired", at, None)
        /\ \A r \in Request \ R : row'[r] = row[r]
    BY <1>1, <1>7 DEF Expires
  <2>2. ASSUME NEW r \in Request
        PROVE  row'[r].status = IF r \in R THEN "expired" ELSE row[r].status
    <3>1. ASSUME r \in R  PROVE row'[r].status = "expired"
      <4>1. row'[r] = Settle(row[r], "expired", at, None)
        BY <2>1, <3>1
      <4>2. Settle(row[r], "expired", at, None).status = "expired"
        BY <1>1 DEF TypeOK, Row, Settle
      <4>. QED  BY <4>1, <4>2
    <3>2. ASSUME r \notin R  PROVE row'[r].status = row[r].status
      BY <2>1, <3>2
    <3>. QED  BY <3>1, <3>2
  <2>3. tokenBar' = tokenBar
    BY <1>2, <2>1, <2>2, TokenStays
  <2>4. verdictBar' = [r \in Request |-> IF r \in R THEN "expired" ELSE verdictBar[r]]
    BY <2>2 DEF verdictBar
  <2>. QED  BY <2>1, <2>3, <2>4 DEF V!Expire, verdictBar, tokenBar
<1>8. CASE Quiet \/ \E a \in approval : Consumes(a)
  BY <1>3, <1>8 DEF Quiet, backend, Consumes
<1>. QED  BY <1>4, <1>5, <1>6, <1>7, <1>8 DEF Commits, V!Next

\* The transactions implement the abstract review: every commit is a step of
\* Verdict, everything else is invisible there.
THEOREM ImplementsVerdict == Spec => RefinesVerdict
<1>1. Init => V!Init
  BY DEF Init, NoRow, V!Init, TokenOf
<1>2. FullInv /\ FullInv' /\ [Next]_vars => [V!Next]_V!vars
  <2>1. ASSUME FullInv, FullInv', Next  PROVE [V!Next]_V!vars
    BY <2>1, StepCommits, CommitsRefine DEF FullInv
  <2>2. ASSUME UNCHANGED vars  PROVE UNCHANGED V!vars
    BY <2>2 DEF vars, V!vars, TokenOf
  <2>. QED  BY <2>1, <2>2
<1>. QED  BY <1>1, <1>2, FullInvariance, PTL DEF Spec, RefinesVerdict, V!Spec

=============================================================================
