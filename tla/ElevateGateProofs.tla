-------------------------- MODULE ElevateGateProofs --------------------------
(***************************************************************************)
(* Theorems about ElevateGate, for any requests, clocks and answers of any *)
(* length: what the tray is shown is what the backend decided, what        *)
(* AgentProofs says of an agent with any backend is true of this one, both *)
(* together keep the promise of Elevation, and the watermark passes no     *)
(* expiry that is waited for.                                              *)
(***************************************************************************)
EXTENDS ElevateGate, AgentProofs, FiniteSetTheorems

(***************************************************************************)
(* A verdict reaches the tray by way of a row, an answer and the batch the *)
(* worker goes through, and each of them is older than the next. It is     *)
(* right in the end because a row that is settled does not change again: a *)
(* review is staged on a pending row only, nothing expires under it, and   *)
(* an approval commits together with its token.                            *)
(***************************************************************************)
RowTypes ==
  /\ since \in Nat
  /\ row \in [Request -> Row \cup {None}]
  /\ staged \in [Request -> Row \cup {None}]

StagedOnPending ==
  \A r \in Request : staged[r] # None => Pending(r) /\ staged[r].status # "Pending"

RowsAreFiled ==
  \A r \in Request : row[r] # None => r \in filed

ApprovalsAreSigned ==
  \A r \in Request : row[r] # None /\ row[r].status = "Approved" =>
    \E t \in issued : t.request = r

Decided(r, status) == row[r] # None /\ row[r].status = status

BatchIsBackends ==
  \A i \in DOMAIN batch :
    batch[i].request \in Request => Decided(batch[i].request, batch[i].status)

Backend == RowTypes /\ StagedOnPending /\ RowsAreFiled /\ ApprovalsAreSigned

GateInv == IInv /\ Backend /\ BatchIsBackends /\ ShownVerdictIsBackends

LEMMA AgentTypes ==
  ASSUME IInv
  PROVE  /\ now \in Nat
         /\ batch \in Seq(Decision)
         /\ tracked \in [Request -> TrackedRequest \cup {None}]
         /\ submitting # None => submitting \in Request /\ tracked[submitting] # None
BY DEF IInv, TypeOK, SubmittingInv

USE DEF world, backend, disk, Known, Current, Target

LEMMA GateInitHolds == GateInit => GateInv
<1> SUFFICES ASSUME GateInit
             PROVE  GateInv
  OBVIOUS
<1>1. IInv
  BY InitIInv DEF GateInit
<1>2. Backend
  BY DEF GateInit, Backend, RowTypes, StagedOnPending, RowsAreFiled, ApprovalsAreSigned
<1>3. BatchIsBackends
  BY DEF GateInit, Init, BatchIsBackends
<1>4. ShownVerdictIsBackends
  BY DEF GateInit, Init, Known, ShownVerdictIsBackends
<1>5. QED BY <1>1, <1>2, <1>3, <1>4 DEF GateInv

-----------------------------------------------------------------------------
(* The backend. *)

\* The expiry that a poll makes.
LEMMA ExpiryType ==
  ASSUME Backend, now \in Nat
  PROVE  /\ AfterExpiry \in [Request -> Row \cup {None}]
         /\ \A r \in Request : row[r] # None => AfterExpiry[r] # None
         /\ \A r \in Request : ~Pending(r) => AfterExpiry[r] = row[r]
         /\ \A r \in Request : AfterExpiry[r] # row[r] => Lapsed(r) /\ AfterExpiry[r].status = "Expired"
<1>1. [status |-> "Expired", at |-> now] \in Row
  BY DEF Row
<1>2. [status |-> "Expired", at |-> now] # None
  BY <1>1, GateAssumption
<1>3. QED
  BY <1>1, <1>2 DEF AfterExpiry, Lapsing, Lapsed, Pending, Backend, RowTypes

\* How rows may change: they stay, and settled ones stay as they are.
RowsSettle ==
  \A r \in Request : row[r] # None =>
    row'[r] # None /\ (row[r].status # "Pending" => row'[r] = row[r])

LEMMA UntouchedRows ==
  ASSUME Backend, UNCHANGED <<row, staged>>, since' \in Nat, filed \subseteq filed', issued \subseteq issued'
  PROVE  Backend' /\ RowsSettle
BY DEF Backend, RowTypes, StagedOnPending, RowsAreFiled, ApprovalsAreSigned, RowsSettle, Pending

LEMMA ExpiryStep ==
  ASSUME Backend, now \in Nat, ExpireLapsed, UNCHANGED <<since, staged, filed, issued>>
  PROVE  Backend' /\ RowsSettle
<1> USE DEF Backend
<1>1. row' = AfterExpiry
  BY DEF ExpireLapsed
<1>2. RowTypes' /\ RowsSettle
  BY <1>1, ExpiryType DEF RowTypes, RowsSettle, Pending
<1>3. StagedOnPending'
  BY <1>1, ExpiryType DEF ExpireLapsed, Lapsing, StagedOnPending, Pending, Lapsed
<1>4. RowsAreFiled' /\ ApprovalsAreSigned'
  BY <1>1, ExpiryType DEF RowsAreFiled, ApprovalsAreSigned, Lapsed, Pending
<1>5. QED BY <1>2, <1>3, <1>4

LEMMA StoreRequestStep ==
  ASSUME GateInv, NEW r \in Request, StoreRequest(r)
  PROVE  Backend' /\ RowsSettle
<1> USE DEF GateInv, Backend
<1> DEFINE new == [status |-> "Pending", at |-> now]
<1>1. new \in Row /\ new # None
  BY GateAssumption, AgentTypes DEF Row
<1>2. row[r] = None /\ staged[r] = None
  BY DEF StoreRequest, FileRequest, RowsAreFiled, StagedOnPending, Pending
<1>3. RowTypes' /\ RowsSettle
  BY <1>1, <1>2 DEF StoreRequest, RowTypes, RowsSettle
<1>4. StagedOnPending' /\ RowsAreFiled' /\ ApprovalsAreSigned'
  BY <1>1, <1>2 DEF StoreRequest, FileRequest, RowTypes, StagedOnPending, Pending, RowsAreFiled,
                    ApprovalsAreSigned
<1>5. QED BY <1>3, <1>4

LEMMA StageReviewStep ==
  ASSUME GateInv, NEW r \in Request, NEW status \in {"Approved", "Denied"}, StageReview(r, status)
  PROVE  Backend' /\ RowsSettle
<1> USE DEF GateInv, Backend
<1> DEFINE new == [status |-> IF Lapsed(r) THEN "Expired" ELSE status, at |-> now]
<1>1. new \in Row /\ new # None /\ new.status # "Pending"
  BY GateAssumption, AgentTypes DEF Row
<1>2. staged' = [staged EXCEPT ![r] = new] /\ UNCHANGED <<row, since, filed, issued>>
  BY DEF StageReview, vars
<1>3. RowTypes' /\ RowsSettle
  BY <1>1, <1>2 DEF RowTypes, RowsSettle
<1>4. StagedOnPending'
  BY <1>1, <1>2 DEF StageReview, RowTypes, StagedOnPending, Pending
<1>5. RowsAreFiled' /\ ApprovalsAreSigned'
  BY <1>2 DEF RowsAreFiled, ApprovalsAreSigned
<1>6. QED BY <1>3, <1>4, <1>5

LEMMA CommitReviewStep ==
  ASSUME GateInv, NEW r \in Request, CommitReview(r)
  PROVE  Backend' /\ RowsSettle
<1> USE DEF GateInv, Backend
<1>1. Pending(r) /\ staged[r] # None /\ staged[r].status # "Pending" /\ staged[r] \in Row
  BY DEF CommitReview, StagedOnPending, RowTypes
<1>2. /\ row' = [row EXCEPT ![r] = staged[r]]
      /\ staged' = [staged EXCEPT ![r] = None]
      /\ UNCHANGED <<since, filed>>
      /\ issued \subseteq issued'
  BY DEF CommitReview, Sign, vars
<1>3. RowTypes' /\ RowsSettle
  BY <1>1, <1>2 DEF RowTypes, RowsSettle, Pending
<1>4. StagedOnPending' /\ RowsAreFiled'
  BY <1>1, <1>2 DEF RowTypes, StagedOnPending, Pending, RowsAreFiled
<1>5. ASSUME staged[r].status = "Approved" PROVE \E t \in issued' : t.request = r
  <2>1. PICK n \in Nonce : Sign(r, n)
    BY <1>5 DEF CommitReview
  <2> DEFINE t == [request |-> r, device |-> sent[r].device, hash |-> sent[r].hash,
                   nonce |-> n, expiresAt |-> now + TokenTTL]
  <2>2. t \in issued' /\ t.request = r
    BY <2>1 DEF Sign
  <2>3. QED BY <2>2
<1>6. ApprovalsAreSigned'
  BY <1>1, <1>2, <1>5 DEF RowTypes, ApprovalsAreSigned
<1>7. QED BY <1>3, <1>4, <1>6

LEMMA RollbackReviewStep ==
  ASSUME GateInv, NEW r \in Request, RollbackReview(r)
  PROVE  Backend' /\ RowsSettle
BY DEF RollbackReview, vars, GateInv, Backend, RowTypes, StagedOnPending, Pending, RowsAreFiled,
       ApprovalsAreSigned, RowsSettle

-----------------------------------------------------------------------------
(* The batch and the tray. *)

\* The worker goes on in its batch or drops it; what the tray is shown of a
\* verdict, it was shown before or is that of the first decision.
LEMMA BatchAndTray ==
  ASSUME GateInv, RowsSettle,
         batch' \in {batch, <<>>} \/ (batch # <<>> /\ batch' = Tail(batch)),
         \A r \in Request :
           tracked'[r] # None /\ tracked'[r].status \in {"Approved", "Denied", "Expired"} =>
             \/ tracked'[r] = tracked[r]
             \/ batch # <<>> /\ Target = r /\ tracked'[r].status = Current.status
  PROVE  BatchIsBackends' /\ ShownVerdictIsBackends'
<1> USE DEF GateInv, BatchIsBackends, Decided
<1>1. batch \in Seq(Decision)
  BY AgentTypes
<1>2. ASSUME NEW i \in DOMAIN batch, batch[i].request \in Request
      PROVE  row'[batch[i].request] # None /\ row'[batch[i].request].status = batch[i].status
  <2>1. batch[i] \in Decision
    BY <1>1
  <2>2. batch[i].status # "Pending"
    BY <2>1 DEF Decision
  <2>3. QED BY <1>2, <2>2 DEF RowsSettle
<1>3. ASSUME NEW i \in DOMAIN batch' PROVE \E j \in DOMAIN batch : batch'[i] = batch[j]
  <2>1. CASE batch' = batch
    BY <2>1
  <2>2. CASE batch' = <<>>
    BY <1>3, <2>2
  <2>3. CASE batch # <<>> /\ batch' = Tail(batch)
    <3>1. i \in 1 .. Len(Tail(batch)) /\ Len(Tail(batch)) = Len(batch) - 1 /\ Len(batch) \in Nat
      BY <1>1, <1>3, <2>3
    <3>2. i \in Nat /\ i + 1 \in 1 .. Len(batch)
      BY <3>1
    <3>3. DOMAIN batch = 1 .. Len(batch)
      BY <1>1
    <3>4. Tail(batch)[i] = batch[i + 1]
      BY <1>1, <2>3, <3>1, HeadTailProperties
    <3>5. QED BY <2>3, <3>2, <3>3, <3>4
  <2>4. QED BY <2>1, <2>2, <2>3
<1>4. BatchIsBackends'
  BY <1>2, <1>3
<1>5. ASSUME NEW r \in Request, tracked'[r] # None,
             tracked'[r].status \in {"Approved", "Denied", "Expired"}
      PROVE  row'[r] # None /\ row'[r].status = tracked'[r].status
  <2>1. CASE tracked'[r] = tracked[r]
    BY <1>5, <2>1 DEF ShownVerdictIsBackends, RowsSettle
  <2>2. CASE batch # <<>> /\ Target = r /\ tracked'[r].status = Current.status
    <3>1. 1 \in DOMAIN batch /\ Current = batch[1]
      BY <1>1, <2>2
    <3>2. QED BY <1>2, <2>2, <3>1
  <2>3. QED BY <1>5, <2>1, <2>2
<1>6. ShownVerdictIsBackends'
  BY <1>5 DEF ShownVerdictIsBackends
<1>7. QED BY <1>4, <1>6

\* What the agent does between two polls.
LEMMA AgentSteps ==
  ASSUME IInv,
         \/ Tick \/ StartService \/ Pipe \/ BeginPolling \/ EndCycle \/ AbortCycle \/ StopService
         \/ HandlingSteps \/ ReportUnlogged
         \/ \E f \in File, h \in Hash \cup {None} : Replace(f, h)
  PROVE  /\ filed' = filed /\ issued' = issued
         /\ batch' \in {batch, <<>>} \/ (batch # <<>> /\ batch' = Tail(batch))
         /\ \A r \in Request :
              tracked'[r] # None /\ tracked'[r].status \in {"Approved", "Denied", "Expired"} =>
                \/ tracked'[r] = tracked[r]
                \/ batch # <<>> /\ Target = r /\ tracked'[r].status = Current.status
<1> DEFINE Stays == filed' = filed /\ issued' = issued
           Goes == batch' \in {batch, <<>>} \/ (batch # <<>> /\ batch' = Tail(batch))
           Shows == \A r \in Request :
              tracked'[r] # None /\ tracked'[r].status \in {"Approved", "Denied", "Expired"} =>
                \/ tracked'[r] = tracked[r]
                \/ batch # <<>> /\ Target = r /\ tracked'[r].status = Current.status
<1>1. CASE Tick \/ StartService \/ BeginPolling \/ EndCycle \/ AbortCycle
           \/ \E f \in File, h \in Hash \cup {None} : Replace(f, h)
  BY <1>1 DEF Tick, StartService, BeginPolling, EndCycle, AbortCycle, Replace
<1>2. CASE StopService
  BY <1>2 DEF StopService
<1>3. CASE Pipe
  <2>1. Stays /\ Goes
    BY <1>3 DEF Pipe, Submit, SubmitSucceeds, SubmitFails
  <2>2. Shows
    BY <1>3, AgentTypes DEF Pipe, Submit, SubmitSucceeds, SubmitFails, UpdateStatus, TrackedRequest
  <2>3. QED BY <2>1, <2>2
<1>4. CASE SkipUnknown \/ TakeApproval \/ Engine
  BY <1>4 DEF SkipUnknown, TakeApproval, NextDecision, Engine, MissFile, HashFile, VetToken,
              RejectToken, ConsumeNonce, RejectReplay, StartProcess, StartFails, ProcessExits,
              WaitFails
<1>5. CASE TakeRefusal \/ TakeTokenless
  <2>1. Stays /\ Goes
    BY <1>5 DEF TakeRefusal, TakeTokenless, NextDecision
  <2>2. Shows
    BY <1>5, AgentTypes DEF TakeRefusal, TakeTokenless, UpdateStatus, TrackedRequest
  <2>3. QED BY <2>1, <2>2
<1>6. CASE Report \/ ReportUnlogged
  <2>1. Stays /\ Goes
    BY <1>6 DEF Report, ReportUnlogged, NextDecision, IInv, EngagedInv, Engaged
  <2>2. batch # <<>> /\ Current.status = "Approved" /\ Verdict \in {"Approved", "Failed"}
    BY <1>6 DEF Report, ReportUnlogged, IInv, EngagedInv, Engaged, Verdict
  <2>3. UpdateStatus(Target, Verdict)
    BY <1>6 DEF Report, ReportUnlogged
  <2>4. Shows
    BY <2>2, <2>3, AgentTypes DEF UpdateStatus, TrackedRequest
  <2>5. QED BY <2>1, <2>4
<1>7. QED
  BY <1>1, <1>2, <1>3, <1>4, <1>5, <1>6 DEF HandlingSteps

-----------------------------------------------------------------------------
(* The answer. *)

LEMMA AnsweredIsDecision ==
  ASSUME GateInv, NEW r \in DecidedSince
  PROVE  /\ Answered(r) \in Decision
         /\ Answered(r).request \in {r, Stranger}
         /\ Answered(r).status = AfterExpiry[r].status
         /\ AfterExpiry[r] # None
<1>1. r \in Request /\ AfterExpiry[r] # None /\ AfterExpiry[r].status # "Pending"
  BY DEF DecidedSince
<1>2. AfterExpiry[r] \in Row
  BY <1>1, ExpiryType, AgentTypes DEF GateInv
<1>3. AfterExpiry[r].status \in {"Approved", "Denied", "Expired"}
  BY <1>1, <1>2 DEF Row
<1>4. AfterExpiry[r].status = "Approved" => \E t \in issued : t.request = r
  BY <1>1, ExpiryType, AgentTypes DEF GateInv, Backend, ApprovalsAreSigned
<1>5. Answered(r).token \in Token \cup {None}
  BY <1>4 DEF Answered, GateInv, IInv, TypeOK
<1>6. WireId(r) \in Request \cup {Stranger} /\ WireId(r) \in {r, Stranger}
  BY <1>1 DEF WireId
<1>7. QED
  BY <1>1, <1>3, <1>5, <1>6 DEF Answered, Decision

LEMMA PollStep ==
  ASSUME GateInv, Poll
  PROVE  GateInv'
<1>1. now \in Nat /\ Backend /\ IInv
  BY AgentTypes DEF GateInv
<1>2. PICK s \in Ordered(DecidedSince) : PollAnswer([i \in DOMAIN s |-> Answered(s[i])])
  BY DEF Poll
<1> DEFINE answer == [i \in DOMAIN s |-> Answered(s[i])]
<1>3. Backend' /\ RowsSettle
  BY <1>1, <1>2, ExpiryStep DEF Poll, PollAnswer
<1>4. s \in [1 .. Cardinality(DecidedSince) -> DecidedSince]
  BY DEF Ordered
<1>5. Cardinality(DecidedSince) \in Nat
  <2>1. IsFiniteSet(DecidedSince)
    BY GateAssumption, FS_Subset DEF DecidedSince
  <2>2. QED BY <2>1, FS_CardinalityType
<1>6. answer \in [1 .. Cardinality(DecidedSince) -> Decision]
  BY <1>4, AnsweredIsDecision
<1>7. answer \in Seq(Decision)
  BY <1>5, <1>6, SeqDef
<1>8. IInv'
  BY <1>1, <1>2, <1>7, PollAnswerStep
<1>9. row' = AfterExpiry /\ batch' = answer /\ tracked' = tracked
  BY <1>2 DEF Poll, ExpireLapsed, PollAnswer
<1>10. BatchIsBackends'
  <2> SUFFICES ASSUME NEW i \in DOMAIN answer, answer[i].request \in Request
               PROVE  /\ AfterExpiry[answer[i].request] # None
                      /\ AfterExpiry[answer[i].request].status = answer[i].status
    BY <1>9 DEF BatchIsBackends, Decided
  <2>1. s[i] \in DecidedSince /\ answer[i] = Answered(s[i])
    BY <1>4
  <2>2. answer[i].request = s[i]
    BY <2>1, AnsweredIsDecision, AgentAssumption
  <2>3. QED
    BY <2>1, <2>2, AnsweredIsDecision
<1>11. ShownVerdictIsBackends'
  BY <1>3, <1>9 DEF GateInv, ShownVerdictIsBackends, RowsSettle
<1>12. QED
  BY <1>3, <1>8, <1>10, <1>11 DEF GateInv

-----------------------------------------------------------------------------
LEMMA GatePreserved == GateInv /\ [GateNext]_gateVars => GateInv'
<1> SUFFICES ASSUME GateInv, [GateNext]_gateVars
             PROVE  GateInv'
  OBVIOUS
<1>0. IInv /\ Backend /\ now \in Nat
  BY AgentTypes DEF GateInv
<1> DEFINE AgentMoves ==
      \/ Tick \/ StartService \/ Pipe \/ BeginPolling \/ EndCycle \/ AbortCycle \/ StopService
      \/ HandlingSteps \/ ReportUnlogged
      \/ \E f \in File, h \in Hash \cup {None} : Replace(f, h)
<1>1. ASSUME AgentMoves PROVE Next
  BY <1>1 DEF Next, Surroundings, Handling, HandlingSteps
<1>2. ASSUME AgentMoves, UNCHANGED <<row, staged>>, since' \in Nat PROVE GateInv'
  <2>1. IInv'
    BY <1>0, <1>1, <1>2, NextIInv
  <2>2. Backend' /\ RowsSettle
    BY <1>0, <1>2, AgentSteps, UntouchedRows
  <2>3. BatchIsBackends' /\ ShownVerdictIsBackends'
    BY <1>0, <1>2, <2>2, AgentSteps, BatchAndTray
  <2>4. QED BY <2>1, <2>2, <2>3 DEF GateInv
\* The worker and the tray stand still while the backend moves.
<1>3. ASSUME Backend', RowsSettle, IInv', batch' = batch, tracked' = tracked PROVE GateInv'
  BY <1>3, BatchAndTray DEF GateInv
<1>4. ASSUME UNCHANGED vars PROVE IInv'
  BY <1>0, <1>4, UnchangedStep
<1>5. CASE (Tick \/ StartService \/ Pipe) /\ UNCHANGED gate
  BY <1>0, <1>2, <1>5 DEF gate, Backend, RowTypes
<1>6. ASSUME NEW f \in File, NEW h \in Hash \cup {None}, Replace(f, h), UNCHANGED gate PROVE GateInv'
  BY <1>0, <1>2, <1>6 DEF gate, Backend, RowTypes
<1>7. ASSUME NEW r \in Request, BackendStep(r) PROVE GateInv'
  <2>1. CASE StoreRequest(r)
    BY <1>0, <1>3, <2>1, StoreRequestStep, FileRequestStep DEF StoreRequest, FileRequest
  <2>2. ASSUME NEW status \in {"Approved", "Denied"}, StageReview(r, status) PROVE GateInv'
    BY <1>3, <1>4, <2>2, StageReviewStep DEF StageReview, vars
  <2>3. CASE CommitReview(r)
    <3>1. IInv' /\ batch' = batch /\ tracked' = tracked
      BY <1>0, <1>4, <2>3, SignStep DEF CommitReview, Sign, vars
    <3>2. QED BY <1>3, <2>3, <3>1, CommitReviewStep
  <2>4. CASE RollbackReview(r)
    BY <1>3, <1>4, <2>4, RollbackReviewStep DEF RollbackReview, vars
  <2>5. QED BY <1>7, <2>1, <2>2, <2>3, <2>4 DEF BackendStep
<1>8. CASE Poll
  BY <1>8, PollStep
<1>9. CASE PollLost
  <2>1. Backend' /\ RowsSettle
    BY <1>0, <1>9, ExpiryStep DEF PollLost, vars
  <2>2. QED BY <1>3, <1>4, <1>9, <2>1 DEF PollLost, vars
<1>10. CASE BeginWatermark \/ AdvanceWatermark \/ LoseWatermark
  BY <1>0, <1>2, <1>10 DEF BeginWatermark, AdvanceWatermark, LoseWatermark
<1>11. CASE (HandlingSteps \/ ReportUnlogged) /\ UNCHANGED gate
  BY <1>0, <1>2, <1>11 DEF gate, Backend, RowTypes
<1>12. CASE AbortAndKeep
  BY <1>0, <1>2, <1>12 DEF AbortAndKeep, gate, Backend, RowTypes
<1>13. CASE UNCHANGED gateVars
  <2>1. UNCHANGED vars /\ UNCHANGED <<row, staged, since, filed, issued, batch, tracked>>
    BY <1>13 DEF gateVars, gate, vars
  <2>2. Backend' /\ RowsSettle
    BY <1>0, <2>1, UntouchedRows DEF Backend, RowTypes
  <2>3. QED BY <1>3, <1>4, <2>1, <2>2
<1>14. QED
  BY <1>5, <1>6, <1>7, <1>8, <1>9, <1>10, <1>11, <1>12, <1>13 DEF GateNext

LEMMA GateInvariant == GateSpec => []GateInv
BY GateInitHolds, GatePreserved, PTL DEF GateSpec

LEMMA SpellingStays == [GateNext]_gateVars => dashed' = dashed
BY DEF GateNext, gateVars, gate, BackendStep, StoreRequest, StageReview, CommitReview, RollbackReview,
       Poll, PollLost, BeginWatermark, AdvanceWatermark, LoseWatermark, AbortAndKeep

\* Types: rows, staged reviews and the watermark keep their shapes.
THEOREM GateTypesCorrect == GateSpec => []GateTypeOK
<1>1. GateInit => dashed \subseteq Request
  BY DEF GateInit
<1>2. dashed \subseteq Request /\ [GateNext]_gateVars => (dashed \subseteq Request)'
  BY SpellingStays
<1>3. GateInv /\ dashed \subseteq Request => GateTypeOK
  BY DEF GateInv, IInv, Backend, RowTypes, GateTypeOK
<1>4. QED BY GateInvariant, <1>1, <1>2, <1>3, PTL DEF GateSpec

\* Approved, Denied and Expired in the tray are the backend's own verdicts, at
\* whatever points answers are lost, cycles cut short and the service stopped.
THEOREM ShownVerdictsAreBackends == GateSpec => []ShownVerdictIsBackends
<1>1. GateInv => ShownVerdictIsBackends
  BY DEF GateInv
<1>2. QED BY GateInvariant, <1>1, PTL

\* With this backend too, a process runs at most once per approval and only
\* with a token that was signed for it, the local log explains every process,
\* and "Approved" is shown only for a file that has run to its end.
THEOREM AgentPromisesHold ==
  GateSpec => [](/\ LaunchesAreLicensed
                 /\ OneRunPerApproval
                 /\ AuditExplainsLaunches
                 /\ StatusIsEarned)
<1>1. GateInv => /\ LaunchesAreLicensed
                 /\ OneRunPerApproval
                 /\ AuditExplainsLaunches
                 /\ StatusIsEarned
  BY DEF GateInv, IInv, StartInv, OneRunPerApproval
<1>2. QED BY GateInvariant, <1>1, PTL

-----------------------------------------------------------------------------
(* The promise from end to end. *)

verdictOf == [r \in Request |-> Standing(r)]
tokenOf == [r \in Request |-> TokenOf(r)]
subjectOf == [r \in Request |-> Subject(r)]
ranOf == {<<l.request, l.hash>> : l \in launched}
shownOf == [r \in Request |-> Shown(r)]

\* A request has one token, whichever way one picks it.
LEMMA TokenOfIs ==
  ASSUME TokenInv, NEW t \in issued
  PROVE  TokenOf(t.request) = t.nonce
BY DEF TokenInv, TokenOf

\* What the agent is asked becomes the subject of a request that nobody filed.
LEMMA SubmitAsks ==
  ASSUME GateInv, NEW r \in Request, NEW f \in File, Submit(r, f), UNCHANGED gate
  PROVE  \E h \in Hash : E!Ask(r, h)
<1>1. content[f] \in Hash /\ sent[r] = None /\ row[r] = None
  BY DEF Submit, GateInv, IInv, TypeOK, TokenInv, Backend, RowsAreFiled
<1>2. /\ sent' = [sent EXCEPT ![r] = [device |-> Here, hash |-> content[f]]]
      /\ tracked' = [tracked EXCEPT ![r] = [file |-> f, status |-> "Pending"]]
      /\ UNCHANGED <<row, issued, starts, launched>>
  BY DEF Submit, gate
<1>3. /\ [device |-> Here, hash |-> content[f]] # None
      /\ [file |-> f, status |-> "Pending"] # None
  BY <1>1, AgentAssumption DEF Submission, TrackedRequest, RequestStatus
<1>4. subjectOf' = [subjectOf EXCEPT ![r] = content[f]]
  BY <1>2, <1>3 DEF subjectOf, Subject, GateInv, IInv, TypeOK
<1>5. shownOf' = [shownOf EXCEPT ![r] = "Pending"]
  BY <1>2, <1>3 DEF shownOf, Shown, GateInv, IInv, TypeOK
<1>6. verdictOf' = verdictOf /\ tokenOf' = tokenOf /\ ranOf' = ranOf
  BY <1>2 DEF verdictOf, Standing, tokenOf, TokenOf, ranOf
<1>7. Subject(r) = None /\ Standing(r) = "absent"
  BY <1>1 DEF Subject, Standing
<1>8. QED
  BY <1>1, <1>2, <1>4, <1>5, <1>6, <1>7 DEF E!Ask, E!vars, subjectOf, shownOf, verdictOf, tokenOf, ranOf

\* The backend's steps are those of the review. A row stands for a request that
\* was submitted.
LEMMA ReviewOfSubmitted ==
  ASSUME GateInv, Backend', UNCHANGED <<sent, starts, launched, tracked>>,
         filed' \subseteq {q \in Request : sent[q] # None}, E!Next
  PROVE  E!Review
<1>1. subjectOf' = subjectOf /\ ranOf' = ranOf /\ shownOf' = shownOf
  BY DEF subjectOf, Subject, ranOf, shownOf, Shown
<1>2. ASSUME NEW q \in Request, Standing(q)' # "absent" PROVE Subject(q) # None
  <2>1. sent[q] # None
    BY <1>2 DEF Standing, Backend, RowsAreFiled
  <2>2. sent[q] \in Submission
    BY <2>1 DEF GateInv, IInv, TypeOK
  <2>3. QED BY <2>1, <2>2, AgentAssumption DEF Subject, Submission
<1>3. \A q \in Request : verdictOf'[q] # "absent" => subjectOf[q] # None
  BY <1>2 DEF verdictOf, subjectOf
<1>4. QED BY <1>1, <1>3 DEF E!Review, E!told, subjectOf, ranOf, shownOf, verdictOf

LEMMA StoreRequestFiles ==
  ASSUME GateInv, NEW r \in Request, StoreRequest(r)
  PROVE  E!Review
<1>1. row[r] = None /\ sent[r] # None
  BY DEF StoreRequest, FileRequest, GateInv, Backend, RowsAreFiled
<1>2. /\ row' = [row EXCEPT ![r] = [status |-> "Pending", at |-> now]]
      /\ UNCHANGED <<sent, issued, starts, launched, tracked>>
      /\ filed' \subseteq {q \in Request : sent[q] # None}
  BY DEF StoreRequest, FileRequest, GateInv, IInv, TokenInv
<1>3. [status |-> "Pending", at |-> now] # None
  BY AgentTypes, GateAssumption DEF GateInv, Row
<1>4. Standing(r) = "absent" /\ tokenOf' = tokenOf
  BY <1>1, <1>2 DEF Standing, tokenOf, TokenOf
<1>5. verdictOf' = [verdictOf EXCEPT ![r] = "pending"]
  BY <1>2, <1>3 DEF verdictOf, Standing, VerdictOn, GateInv, Backend, RowTypes
<1>6. E!Enter(r)
  BY <1>4, <1>5 DEF E!Enter, verdictOf, tokenOf
<1>7. QED
  BY <1>2, <1>6, StoreRequestStep, ReviewOfSubmitted DEF E!Next

LEMMA CommitReviewSettles ==
  ASSUME GateInv, NEW r \in Request, CommitReview(r)
  PROVE  E!Review
<1>1. Pending(r) /\ staged[r] \in Row /\ staged[r] # None /\ staged[r].status # "Pending"
  BY DEF CommitReview, GateInv, Backend, StagedOnPending, RowTypes
<1>2. /\ row' = [row EXCEPT ![r] = staged[r]]
      /\ UNCHANGED <<sent, starts, launched, tracked, filed>>
  BY DEF CommitReview, Sign, vars
<1>3. Standing(r) = "pending"
  BY <1>1 DEF Standing, VerdictOn, Pending
<1>4. verdictOf' = [verdictOf EXCEPT ![r] = VerdictOn[staged[r].status]]
  BY <1>1, <1>2 DEF verdictOf, Standing, GateInv, Backend, RowTypes
<1>5. staged[r].status \in {"Approved", "Denied", "Expired"}
  BY <1>1 DEF Row
<1>6. CASE staged[r].status = "Approved"
  <2>1. PICK n \in Nonce : Sign(r, n)
    BY <1>6 DEF CommitReview
  <2> DEFINE t == [request |-> r, device |-> sent[r].device, hash |-> sent[r].hash,
                   nonce |-> n, expiresAt |-> now + TokenTTL]
  <2>2. issued' = issued \cup {t} /\ t.request = r /\ t.nonce = n
    BY <2>1 DEF Sign
  <2> HIDE DEF t
  <2>3. \A u \in issued : u.request # r /\ u.nonce # n
    BY <2>1 DEF Sign
  <2>4. TokenInv /\ TokenInv'
    <3>1. IInv'
      BY <2>1, SignStep DEF GateInv
    <3>2. QED BY <3>1 DEF GateInv, IInv
  <2>5. TokenOf(r)' = n
    BY <2>2, <2>4 DEF TokenInv, TokenOf
  <2>6. ASSUME NEW q \in Request, q # r PROVE TokenOf(q)' = TokenOf(q) /\ TokenOf(q) # n
    <3>1. CASE \E u \in issued : u.request = q
      <4>1. PICK u \in issued : u.request = q
        BY <3>1
      <4>2. TokenOf(q) = u.nonce
        BY <2>4, <4>1 DEF TokenInv, TokenOf
      <4>3. TokenOf(q)' = u.nonce
        BY <2>2, <2>4, <4>1 DEF TokenInv, TokenOf
      <4>4. QED BY <2>3, <4>2, <4>3
    <3>2. CASE ~\E u \in issued : u.request = q
      BY <2>2, <2>6, <3>2, AgentAssumption DEF TokenOf
    <3>3. QED BY <3>1, <3>2
  <2>7. TokenOf(r) = None
    BY <2>3 DEF TokenOf
  <2>8. tokenOf' = [tokenOf EXCEPT ![r] = n]
    BY <2>5, <2>6 DEF tokenOf
  <2>9. n \notin {tokenOf[q] : q \in Request}
    BY <2>6, <2>7, AgentAssumption DEF tokenOf
  <2>10. E!Approve(r)
    <3>1. verdictOf' = [verdictOf EXCEPT ![r] = "approved"]
      BY <1>4, <1>6 DEF VerdictOn
    <3>2. verdictOf[r] = "pending"
      BY <1>3 DEF verdictOf
    <3>3. QED
      BY <2>8, <2>9, <3>1, <3>2 DEF E!Approve, E!Unused, verdictOf, tokenOf
  <2>11. QED
    BY <1>2, <2>4, <2>10, CommitReviewStep, ReviewOfSubmitted DEF E!Next, TokenInv
<1>7. CASE staged[r].status # "Approved"
  <2>1. tokenOf' = tokenOf
    BY <1>7 DEF CommitReview, vars, tokenOf, TokenOf
  <2>2. CASE staged[r].status = "Denied"
    <3>1. E!Deny(r)
      BY <1>3, <1>4, <2>1, <2>2 DEF E!Deny, VerdictOn, verdictOf, tokenOf
    <3>2. QED
      BY <1>2, <3>1, CommitReviewStep, ReviewOfSubmitted DEF E!Next, GateInv, IInv, TokenInv
  <2>3. CASE staged[r].status = "Expired"
    <3>1. verdictOf' = [q \in Request |-> IF q \in {r} THEN "expired" ELSE verdictOf[q]]
      <4>1. verdictOf' = [verdictOf EXCEPT ![r] = "expired"]
        BY <1>4, <2>3 DEF VerdictOn
      <4>2. QED BY <4>1 DEF verdictOf
    <3>2. E!Expire({r})
      BY <1>3, <2>1, <3>1 DEF E!Expire, verdictOf, tokenOf
    <3>3. QED
      BY <1>2, <3>2, CommitReviewStep, ReviewOfSubmitted DEF E!Next, GateInv, IInv, TokenInv
  <2>4. QED BY <1>5, <1>7, <2>2, <2>3
<1>8. QED BY <1>6, <1>7

LEMMA PollExpires ==
  ASSUME GateInv, ExpireLapsed, UNCHANGED <<since, staged, sent, filed, issued, starts, launched, tracked>>
  PROVE  E!Review
<1>1. row' = AfterExpiry /\ Backend'
  BY AgentTypes, ExpiryStep DEF ExpireLapsed, GateInv
<1>2. [status |-> "Expired", at |-> now] # None
  BY AgentTypes, GateAssumption DEF GateInv, Row
<1>3. verdictOf' = [q \in Request |-> IF q \in Lapsing THEN "expired" ELSE verdictOf[q]]
  BY <1>1, <1>2 DEF verdictOf, Standing, AfterExpiry, VerdictOn
<1>4. \A q \in Lapsing : verdictOf[q] = "pending"
  BY DEF Lapsing, Lapsed, Pending, verdictOf, Standing, VerdictOn
<1>5. tokenOf' = tokenOf /\ Lapsing \subseteq Request
  BY DEF tokenOf, TokenOf, Lapsing
<1>6. E!Expire(Lapsing)
  BY <1>3, <1>4, <1>5 DEF E!Expire, verdictOf, tokenOf
<1>7. QED
  BY <1>1, <1>5, <1>6, ReviewOfSubmitted DEF E!Next, GateInv, IInv, TokenInv

\* The tray is told what it deserves to be told.
LEMMA StatusShows ==
  ASSUME GateInv, NEW r \in Request, tracked[r] # None,
         NEW s \in {"Approved", "Denied", "Expired", "Failed"}, UpdateStatus(r, s),
         UNCHANGED <<row, issued, sent, starts, launched>>,
         s # "Failed" => Decided(r, s),
         s = "Approved" => starts[r] = 1
  PROVE  E!Show(r, s)
<1>1. tracked[r] \in TrackedRequest
  BY AgentTypes DEF GateInv
<1>2. tracked[r].status # None
  BY <1>1, AgentAssumption DEF TrackedRequest, RequestStatus
<1>3. shownOf' = [shownOf EXCEPT ![r] = s]
  BY <1>1, AgentTypes, UpdateStatusType DEF shownOf, Shown, GateInv, RequestStatus
<1>4. UNCHANGED <<verdictOf, tokenOf, subjectOf, ranOf>>
  BY DEF verdictOf, Standing, tokenOf, TokenOf, subjectOf, Subject, ranOf
<1>5. s # "Failed" => Standing(r) = VerdictOn[s]
  BY DEF Standing, Decided
<1>6. E!Deserved(r, s)
  BY <1>5 DEF E!Deserved, VerdictOn
<1>7. QED
  BY <1>2, <1>3, <1>4, <1>6
  DEF E!Show, E!vars, Shown, shownOf, verdictOf, tokenOf, subjectOf, ranOf

LEMMA ProcessRuns ==
  ASSUME GateInv, StartProcess, UNCHANGED gate
  PROVE  \E r \in Request : E!Run(r)
<1>1. /\ Target \in Request /\ Current.token \in issued /\ Current.token.request = Target
      /\ Current.token.hash = worker.hash /\ starts[Target] = 0 /\ Current.status = "Approved"
      /\ batch # <<>>
  BY DEF StartProcess, GateInv, IInv, EngagedInv, EngineInv, Engaged, PastVetting
<1>2. PICK r \in Request : r = Target
  BY <1>1
<1>3. /\ starts' = [starts EXCEPT ![r] = 1]
      /\ launched' = launched \cup {Launched}
      /\ Launched.request = r /\ Launched.hash = worker.hash
      /\ UNCHANGED <<row, issued, sent, tracked>>
  BY <1>1, <1>2 DEF StartProcess, Launched, gate, GateInv, IInv, TypeOK
<1>4. Subject(r) = worker.hash
  <2>1. PICK t \in issued : t = Current.token
    BY <1>1
  <2>2. sent[r] = [device |-> t.device, hash |-> t.hash] /\ t.hash = worker.hash
    BY <1>1, <1>2, <2>1 DEF GateInv, IInv, TokenInv
  <2>3. sent[r] # None
    BY <1>1, <1>2, <2>1 DEF GateInv, IInv, TokenInv
  <2>4. QED BY <2>2, <2>3 DEF Subject
<1>5. Standing(r) = "approved"
  <2>1. 1 \in DOMAIN batch /\ Current = batch[1]
    BY <1>1, AgentTypes DEF GateInv
  <2>2. Decided(r, "Approved")
    BY <1>1, <1>2, <2>1 DEF GateInv, BatchIsBackends
  <2>3. QED BY <2>2 DEF Decided, Standing, VerdictOn
<1>6. ranOf' = ranOf \cup {<<r, worker.hash>>}
  <2> HIDE DEF Launched
  <2>1. QED BY <1>3 DEF ranOf
<1>7. UNCHANGED <<verdictOf, tokenOf, subjectOf, shownOf>>
  BY <1>3 DEF verdictOf, Standing, tokenOf, TokenOf, subjectOf, Subject, shownOf, Shown
<1>8. E!Run(r)
  BY <1>1, <1>2, <1>3, <1>4, <1>5, <1>6, <1>7
  DEF E!Run, E!vars, verdictOf, tokenOf, subjectOf, shownOf, ranOf
<1>9. QED BY <1>8

LEMMA WorkerShows ==
  ASSUME GateInv, TakeRefusal \/ TakeTokenless \/ Report \/ ReportUnlogged, UNCHANGED gate
  PROVE  \E r \in Request, s \in {"Approved", "Denied", "Expired", "Failed"} : E!Show(r, s)
<1>1. batch # <<>> /\ Known(Target) /\ UNCHANGED <<row, issued, sent, starts, launched>>
  BY DEF TakeRefusal, TakeTokenless, Report, ReportUnlogged, gate, GateInv, IInv, EngagedInv,
         Engaged
<1>2. PICK r \in Request : r = Target /\ tracked[r] # None
  BY <1>1
<1>3. Decided(r, Current.status)
  <2>1. 1 \in DOMAIN batch /\ Current = batch[1]
    BY <1>1, AgentTypes DEF GateInv
  <2>2. QED BY <1>2, <2>1 DEF GateInv, BatchIsBackends
<1>4. CASE TakeRefusal
  <2>1. PICK s \in {"Denied", "Expired"} : s = Current.status /\ UpdateStatus(r, s)
    BY <1>2, <1>4 DEF TakeRefusal
  <2>2. QED BY <1>1, <1>2, <1>3, <2>1, StatusShows
<1>5. CASE TakeTokenless
  BY <1>1, <1>2, <1>5, StatusShows DEF TakeTokenless
<1>6. CASE Report \/ ReportUnlogged
  <2>1. PICK s \in {"Approved", "Failed"} : s = Verdict /\ UpdateStatus(r, s)
    BY <1>2, <1>6 DEF Report, ReportUnlogged, Verdict
  <2>2. worker.pc = "returned" /\ Current.status = "Approved"
    BY <1>6 DEF Report, ReportUnlogged, GateInv, IInv, EngagedInv, Engaged
  <2>3. s = "Approved" => starts[r] = 1
    BY <1>2, <2>1, <2>2 DEF Verdict, GateInv, IInv, EngineInv, StartInv
  <2>4. QED BY <1>1, <1>2, <1>3, <2>1, <2>2, <2>3, StatusShows
<1>7. QED BY <1>4, <1>5, <1>6

LEMMA StopForgets ==
  ASSUME StopService, UNCHANGED row
  PROVE  E!Forget
<1>1. tracked' = [r \in Request |-> None] /\ UNCHANGED <<issued, sent, starts, launched>>
  BY DEF StopService
<1>2. shownOf' = [r \in Request |-> None]
  BY <1>1 DEF shownOf, Shown
<1>3. UNCHANGED <<verdictOf, tokenOf, subjectOf, ranOf>>
  BY <1>1 DEF verdictOf, Standing, tokenOf, TokenOf, subjectOf, Subject, ranOf
<1>4. QED
  BY <1>1, <1>2, <1>3 DEF E!Forget, E!vars, verdictOf, tokenOf, subjectOf, shownOf, ranOf

LEMMA Unseen ==
  ASSUME UNCHANGED <<row, issued, sent, starts, launched, tracked>>
  PROVE  UNCHANGED E!elevationVars
BY DEF E!elevationVars, E!vars, E!told, Standing, TokenOf, Subject, Shown

LEMMA GateElevates == GateInv /\ [GateNext]_gateVars => [E!ElevationNext]_(E!elevationVars)
<1> SUFFICES ASSUME GateInv, [GateNext]_gateVars
             PROVE  E!ElevationNext \/ UNCHANGED E!elevationVars
  OBVIOUS
<1>1. CASE Pipe /\ UNCHANGED gate
  <2>1. ASSUME NEW r \in Request, NEW f \in File, Submit(r, f) PROVE E!ElevationNext
    BY <1>1, <2>1, SubmitAsks DEF E!ElevationNext
  <2>2. CASE SubmitSucceeds
    BY <1>1, <2>2, Unseen DEF SubmitSucceeds, gate
  <2>3. CASE SubmitFails
    <3>1. PICK r \in Request : r = submitting /\ tracked[r] # None
      BY <2>3, AgentTypes DEF SubmitFails, GateInv
    <3>2. UpdateStatus(r, "Failed") /\ UNCHANGED <<row, issued, sent, starts, launched>>
      BY <1>1, <2>3, <3>1 DEF SubmitFails, gate
    <3>3. E!Show(r, "Failed")
      BY <3>1, <3>2, StatusShows
    <3>4. QED BY <3>3 DEF E!ElevationNext
  <2>4. QED BY <1>1, <2>1, <2>2, <2>3 DEF Pipe
<1>2. CASE (Tick \/ StartService \/ \E f \in File, h \in Hash \cup {None} : Replace(f, h)) /\ UNCHANGED gate
  BY <1>2, Unseen DEF Tick, StartService, Replace, gate
<1>3. ASSUME NEW r \in Request, BackendStep(r) PROVE E!Review \/ UNCHANGED E!elevationVars
  <2>1. ASSUME NEW status \in {"Approved", "Denied"}, StageReview(r, status)
        PROVE  UNCHANGED E!elevationVars
    BY <2>1, Unseen DEF StageReview, vars
  <2>2. CASE RollbackReview(r)
    BY <2>2, Unseen DEF RollbackReview, vars
  <2>3. QED BY <1>3, <2>1, <2>2, StoreRequestFiles, CommitReviewSettles DEF BackendStep
<1>4. CASE Poll \/ PollLost
  BY <1>4, PollExpires DEF Poll, PollLost, PollAnswer, vars, E!ElevationNext
<1>5. CASE BeginWatermark \/ AdvanceWatermark \/ AbortAndKeep
  BY <1>5, Unseen DEF BeginWatermark, AdvanceWatermark, AbortAndKeep, BeginPolling, EndCycle,
                      AbortCycle, gate
<1>6. CASE LoseWatermark
  BY <1>6, StopForgets DEF LoseWatermark, E!ElevationNext
<1>7. CASE (HandlingSteps \/ ReportUnlogged) /\ UNCHANGED gate
  <2>1. CASE StartProcess
    BY <1>7, <2>1, ProcessRuns DEF E!ElevationNext
  <2>2. CASE TakeRefusal \/ TakeTokenless \/ Report \/ ReportUnlogged
    BY <1>7, <2>2, WorkerShows DEF E!ElevationNext
  <2>3. CASE SkipUnknown \/ TakeApproval \/ (Engine /\ ~StartProcess)
    BY <1>7, <2>3, Unseen
    DEF SkipUnknown, TakeApproval, Engine, MissFile, HashFile, VetToken, RejectToken, ConsumeNonce,
        RejectReplay, StartFails, ProcessExits, WaitFails, gate
  <2>4. QED BY <1>7, <2>1, <2>2, <2>3 DEF HandlingSteps
<1>8. CASE UNCHANGED gateVars
  BY <1>8, Unseen DEF gateVars, gate, vars
<1>9. QED
  BY <1>1, <1>2, <1>3, <1>4, <1>5, <1>6, <1>7, <1>8 DEF GateNext, E!ElevationNext

LEMMA GateInitElevates == GateInit => E!ElevationInit
BY DEF GateInit, Init, E!ElevationInit, E!Init, Standing, TokenOf, Subject, Shown

\* From the user's form to the administrator's click and back to the process that
\* runs: with any requests, machines that stop anywhere, answers lost and cycles
\* cut short, the agent and the backend keep the promise of Elevation.
THEOREM ImplementsElevation == GateSpec => RefinesElevation
<1>1. QED
  BY GateInitElevates, GateElevates, GateInvariant, PTL DEF GateSpec, RefinesElevation, E!ElevationSpec

-----------------------------------------------------------------------------
(***************************************************************************)
(* The watermark. Of a request that no administrator touches the row only  *)
(* lapses, in the very poll that answers it; and the watermark moves only  *)
(* when nothing is left of an answer.                                      *)
(***************************************************************************)
Overdue(r) == r \in dashed /\ Waiting(r) /\ row[r].status = "Expired"

InHand(r) == \E i \in DOMAIN batch : batch[i].request = r

Delivered(r) ==
  /\ worker.pc # "off"
  /\ row[r].at >= since
  /\ worker.pc # "idle" => InHand(r)

Untouched(r) ==
  /\ staged[r] = None
  /\ row[r] # None => row[r].status \in {"Pending", "Expired"}

WatermarkInv ==
  /\ since <= now
  /\ \A r \in Request \ Reviewed : Untouched(r) /\ (Overdue(r) => Delivered(r))

\* An answer leaves nothing out.
LEMMA OrderedIsComplete ==
  ASSUME NEW R, IsFiniteSet(R), NEW s \in Ordered(R), NEW r \in R
  PROVE  \E i \in DOMAIN s : s[i] = r
<1> DEFINE n == Cardinality(R)
<1>1. n \in Nat
  BY FS_CardinalityType
<1>2. IsFiniteSet(1 .. n) /\ Cardinality(1 .. n) = n
  BY <1>1, FS_Interval
<1>3. s \in [1 .. n -> R] /\ \A i, j \in 1 .. n : i < j => s[i] # s[j]
  BY DEF Ordered
<1>4. \A i, j \in 1 .. n : s[i] = s[j] => i = j
  <2> SUFFICES ASSUME NEW i \in 1 .. n, NEW j \in 1 .. n, i # j PROVE s[i] # s[j]
    OBVIOUS
  <2>1. i < j \/ j < i
    BY <1>1
  <2>2. QED BY <1>3, <2>1
<1>5. s \in Injection(1 .. n, R)
  BY <1>3, <1>4 DEF Injection, IsInjective
<1>6. s \in Surjection(1 .. n, R)
  BY <1>2, <1>5, FS_Injection
<1>7. QED
  BY <1>3, <1>6 DEF Surjection

LEMMA TailKeeps ==
  ASSUME batch \in Seq(Decision), batch # <<>>, NEW r, InHand(r), Target # r
  PROVE  \E i \in DOMAIN Tail(batch) : Tail(batch)[i].request = r
<1>1. PICK i \in DOMAIN batch : batch[i].request = r
  BY DEF InHand
<1>2. DOMAIN batch = 1 .. Len(batch) /\ Len(batch) \in Nat /\ Current = batch[1]
  OBVIOUS
<1>3. i \in 2 .. Len(batch)
  BY <1>1, <1>2
<1>4. DOMAIN Tail(batch) = 1 .. Len(batch) - 1
  OBVIOUS
<1>5. i - 1 \in DOMAIN Tail(batch) /\ Tail(batch)[i - 1] = batch[i]
  BY <1>2, <1>3, <1>4, HeadTailProperties
<1>6. QED BY <1>1, <1>5

\* The agent's own steps leave rows alone and make nothing pending again.
LEMMA AgentWaits ==
  ASSUME GateInv, WatermarkInv, UNCHANGED <<row, staged, dashed>>, since' \in {since, now}, now' \in {now, now + 1},
         \A r \in Request : Waiting(r)' => Waiting(r),
         \A r \in Request \ Reviewed : Overdue(r) /\ Waiting(r)' =>
           since' = since /\ worker'.pc # "off" /\ (worker'.pc # "idle" => InHand(r)')
  PROVE  WatermarkInv'
<1>1. now \in Nat /\ since \in Nat
  BY AgentTypes DEF GateInv, Backend, RowTypes
<1>2. since' <= now'
  BY <1>1 DEF WatermarkInv
<1>3. ASSUME NEW r \in Request \ Reviewed, Overdue(r)' PROVE Delivered(r)'
  BY <1>3 DEF WatermarkInv, Overdue, Delivered
<1>4. \A r \in Request \ Reviewed : Untouched(r)'
  BY DEF WatermarkInv, Untouched
<1>5. QED BY <1>2, <1>3, <1>4 DEF WatermarkInv

LEMMA BackendWaits ==
  ASSUME GateInv, WatermarkInv, NEW r \in Request, BackendStep(r)
  PROVE  WatermarkInv'
<1>1. CASE StoreRequest(r)
  <2>1. row[r] = None
    BY <1>1 DEF StoreRequest, FileRequest, GateInv, Backend, RowsAreFiled
  <2>2. row' = [row EXCEPT ![r] = [status |-> "Pending", at |-> now]]
    BY <1>1 DEF StoreRequest
  <2>3. UNCHANGED <<now, tracked, worker, batch, since, staged, dashed>>
    BY <1>1 DEF StoreRequest, FileRequest
  <2>4. row'[r].status = "Pending" /\ \A q \in Request : q # r => row'[q] = row[q]
    BY <2>2 DEF GateInv, Backend, RowTypes
  <2>5. ASSUME NEW q \in Request \ Reviewed PROVE Untouched(q)' /\ (Overdue(q)' => Delivered(q)')
    <3>1. CASE q = r
      BY <2>3, <2>4, <3>1 DEF WatermarkInv, Untouched, Overdue
    <3>2. CASE q # r
      BY <2>3, <2>4, <3>2 DEF WatermarkInv, Untouched, Overdue, Waiting, Delivered, InHand
    <3>3. QED BY <3>1, <3>2
  <2>6. QED BY <2>3, <2>5 DEF WatermarkInv
<1>2. ASSUME NEW status \in {"Approved", "Denied"}, StageReview(r, status) PROVE WatermarkInv'
  BY <1>2 DEF StageReview, vars, GateInv, Backend, RowTypes, WatermarkInv, Untouched, Overdue,
              Waiting, Delivered, InHand
<1>3. CASE CommitReview(r) \/ RollbackReview(r)
  <2>1. r \in Reviewed
    BY <1>3 DEF CommitReview, RollbackReview, WatermarkInv, Untouched
  <2>2. UNCHANGED <<now, tracked, worker, batch, since, dashed>>
    BY <1>3 DEF CommitReview, RollbackReview, Sign, vars
  <2>3. \A q \in Request : q # r => row'[q] = row[q] /\ staged'[q] = staged[q]
    BY <1>3 DEF CommitReview, RollbackReview, GateInv, Backend, RowTypes
  <2>4. QED
    BY <2>1, <2>2, <2>3 DEF WatermarkInv, Untouched, Overdue, Waiting, Delivered, InHand
<1>4. QED
  BY <1>1, <1>2, <1>3 DEF BackendStep

\* What a poll finds expired is not older than the watermark.
LEMMA ExpiryIsRecent ==
  ASSUME GateInv, WatermarkInv, row' = AfterExpiry, UNCHANGED <<tracked, since, staged, dashed, now>>
  PROVE  \A r \in Request \ Reviewed :
           Untouched(r)' /\ (Overdue(r)' => row'[r].at >= since /\ r \in DecidedSince)
<1> SUFFICES ASSUME NEW r \in Request \ Reviewed
             PROVE  Untouched(r)' /\ (Overdue(r)' => row'[r].at >= since /\ r \in DecidedSince)
  OBVIOUS
<1>1. now \in Nat /\ since \in Nat /\ since <= now
  BY AgentTypes DEF GateInv, Backend, RowTypes, WatermarkInv
<1>2. CASE r \in Lapsing
  <2>1. row'[r] = [status |-> "Expired", at |-> now]
    BY <1>2 DEF AfterExpiry
  <2>2. [status |-> "Expired", at |-> now] # None
    BY <1>1, GateAssumption DEF Row
  <2>3. QED
    BY <1>1, <2>1, <2>2 DEF WatermarkInv, Untouched, DecidedSince
<1>3. CASE r \notin Lapsing
  <2>1. row'[r] = row[r] /\ AfterExpiry[r] = row[r]
    BY <1>3 DEF AfterExpiry
  <2>2. Overdue(r)' => Overdue(r) /\ row[r] # None
    BY <2>1 DEF Overdue, Waiting
  <2>3. QED
    BY <2>1, <2>2 DEF WatermarkInv, Untouched, Delivered, DecidedSince, Overdue
<1>4. QED BY <1>2, <1>3

LEMMA PollWaits ==
  ASSUME GateInv, WatermarkInv, Poll \/ PollLost
  PROVE  WatermarkInv'
<1>1. row' = AfterExpiry /\ UNCHANGED <<tracked, since, staged, dashed, now>> /\ since <= now
  BY DEF Poll, PollLost, ExpireLapsed, PollAnswer, vars, WatermarkInv
<1>2. CASE Poll
  <2>1. PICK s \in Ordered(DecidedSince) : PollAnswer([i \in DOMAIN s |-> Answered(s[i])])
    BY <1>2 DEF Poll
  <2>2. IsFiniteSet(DecidedSince)
    BY GateAssumption, FS_Subset DEF DecidedSince
  <2>3. worker'.pc = "handling" /\ batch' = [i \in DOMAIN s |-> Answered(s[i])]
    BY <2>1 DEF PollAnswer, At
  <2>4. ASSUME NEW r \in Request \ Reviewed, Overdue(r)' PROVE InHand(r)'
    <3>1. r \in DecidedSince
      BY <1>1, <2>4, ExpiryIsRecent
    <3>2. PICK i \in DOMAIN s : s[i] = r
      BY <2>2, <3>1, OrderedIsComplete
    <3>3. batch'[i].request = r /\ i \in DOMAIN batch'
      BY <1>1, <2>3, <2>4, <3>2 DEF Answered, WireId, Overdue
    <3>4. QED BY <3>3 DEF InHand
  <2>5. QED
    BY <1>1, <2>3, <2>4, ExpiryIsRecent DEF WatermarkInv, Delivered
<1>3. CASE PollLost
  BY <1>1, <1>3, ExpiryIsRecent DEF PollLost, vars, WatermarkInv, Delivered
<1>4. QED BY <1>2, <1>3

LEMMA HandlingWaits ==
  ASSUME GateInv, WatermarkInv, HandlingSteps \/ ReportUnlogged \/ AbortCycle, UNCHANGED gate
  PROVE  WatermarkInv'
<1>1. worker.pc \notin {"off", "idle"} /\ now' = now
  BY DEF HandlingSteps, ReportUnlogged, AbortCycle, SkipUnknown, TakeRefusal, TakeTokenless,
         TakeApproval, Engine, MissFile, HashFile, VetToken, RejectToken, ConsumeNonce, RejectReplay,
         StartProcess, StartFails, ProcessExits, WaitFails, Report
<1>2. ASSUME NEW r \in Request, Waiting(r)' PROVE Waiting(r) /\ tracked'[r] = tracked[r]
  <2>1. CASE tracked' = tracked
    BY <1>2, <2>1 DEF Waiting, gate
  <2>2. CASE TakeRefusal \/ TakeTokenless \/ Report \/ ReportUnlogged
    <3>1. PICK s \in RequestStatus \ {"Pending"} : Target \in Request /\ tracked[Target] # None /\ UpdateStatus(Target, s)
      BY <2>2 DEF TakeRefusal, TakeTokenless, Report, ReportUnlogged, Verdict, RequestStatus,
                  GateInv, IInv, EngagedInv, Engaged
    <3>2. tracked'[Target].status = s /\ \A q \in Request : q # Target => tracked'[q] = tracked[q]
      BY <3>1, AgentTypes, UpdateStatusType DEF GateInv
    <3>3. r # Target
      BY <1>2, <3>1, <3>2 DEF Waiting
    <3>4. QED BY <1>2, <3>2, <3>3 DEF Waiting, gate
  <2>3. QED
    BY <2>1, <2>2
    DEF HandlingSteps, AbortCycle, SkipUnknown, TakeApproval, Engine, MissFile, HashFile, VetToken,
        RejectToken, ConsumeNonce, RejectReplay, StartProcess, StartFails, ProcessExits, WaitFails
<1>3. ASSUME NEW r \in Request \ Reviewed, Overdue(r), Waiting(r)'
      PROVE  worker'.pc # "off" /\ (worker'.pc # "idle" => InHand(r)')
  <2>1. InHand(r) /\ batch \in Seq(Decision)
    BY <1>1, <1>3, AgentTypes DEF WatermarkInv, Delivered, GateInv
  <2>2. CASE ReportUnlogged \/ AbortCycle
    BY <2>2 DEF ReportUnlogged, AbortCycle, At
  <2>3. CASE TakeApproval \/ Engine
    <3>1. batch' = batch
      BY <2>3 DEF TakeApproval, Engine, MissFile, HashFile, VetToken, RejectToken, ConsumeNonce,
                  RejectReplay, StartProcess, StartFails, ProcessExits, WaitFails
    <3>2. PICK v \in Worker : worker = v
      BY DEF GateInv, IInv, TypeOK
    <3>3. worker'.pc \notin {"off", "idle"}
      <4>1. CASE TakeApproval
        BY <4>1 DEF TakeApproval, At
      <4>2. CASE MissFile \/ RejectToken \/ RejectReplay \/ StartFails \/ ProcessExits \/ WaitFails
        BY <3>2, <4>2 DEF MissFile, RejectToken, RejectReplay, StartFails, ProcessExits, WaitFails,
                          Return, Worker
      <4>3. CASE HashFile \/ VetToken \/ StartProcess
        BY <3>2, <4>3 DEF HashFile, VetToken, StartProcess, Worker
      <4>4. CASE ConsumeNonce
        BY <3>2, <4>4 DEF ConsumeNonce, Return, Worker
      <4>5. QED BY <2>3, <4>1, <4>2, <4>3, <4>4 DEF Engine
    <3>4. QED BY <2>1, <3>1, <3>3 DEF InHand
  <2>4. CASE SkipUnknown \/ TakeRefusal \/ TakeTokenless \/ Report
    <3>1. batch # <<>> /\ batch' = Tail(batch) /\ worker'.pc = "handling"
      BY <2>4 DEF SkipUnknown, TakeRefusal, TakeTokenless, Report, NextDecision, At, GateInv, IInv,
                  EngagedInv, Engaged
    <3>2. Target # r
      <4>1. CASE SkipUnknown
        BY <1>3, <4>1 DEF SkipUnknown, Overdue, Waiting
      <4>2. CASE TakeRefusal \/ TakeTokenless \/ Report
        BY <1>2, <1>3, <4>2, AgentTypes, UpdateStatusType
        DEF TakeRefusal, TakeTokenless, Report, Verdict, RequestStatus, Waiting, GateInv
      <4>3. QED BY <2>4, <4>1, <4>2
    <3>3. QED BY <2>1, <3>1, <3>2, TailKeeps DEF InHand
  <2>5. QED BY <2>2, <2>3, <2>4 DEF HandlingSteps
<1>4. QED
  BY <1>1, <1>2, <1>3, AgentWaits DEF gate

LEMMA WatermarkMoves ==
  ASSUME GateInv, WatermarkInv, BeginWatermark \/ AdvanceWatermark \/ LoseWatermark
  PROVE  WatermarkInv'
<1>1. UNCHANGED <<row, staged, dashed, now>>
  BY DEF BeginWatermark, AdvanceWatermark, LoseWatermark, BeginPolling, EndCycle, StopService
<1>2. CASE BeginWatermark \/ AdvanceWatermark
  <2>1. tracked' = tracked /\ since' = now /\ (worker.pc = "off" \/ batch = <<>>)
    BY <1>2 DEF BeginWatermark, AdvanceWatermark, BeginPolling, EndCycle
  <2>2. \A r \in Request \ Reviewed : ~Overdue(r)
    BY <1>2, <2>1 DEF WatermarkInv, Delivered, InHand, AdvanceWatermark, EndCycle,
                      BeginWatermark, BeginPolling
  <2>3. QED
    BY <1>1, <2>1, <2>2, AgentWaits DEF Waiting
<1>3. CASE LoseWatermark
  <2>1. \A r \in Request : ~Waiting(r)'
    BY <1>3 DEF LoseWatermark, StopService, Waiting
  <2>2. since' = 0 /\ now \in Nat
    BY <1>3, AgentTypes DEF LoseWatermark, GateInv
  <2>3. QED
    BY <1>1, <2>1, <2>2 DEF WatermarkInv, Untouched, Overdue
<1>4. QED BY <1>2, <1>3

LEMMA SurroundingsWait ==
  ASSUME GateInv, WatermarkInv,
         \/ (Tick \/ StartService \/ Pipe) /\ UNCHANGED gate
         \/ \E f \in File, h \in Hash \cup {None} : Replace(f, h) /\ UNCHANGED gate
         \/ UNCHANGED gateVars
  PROVE  WatermarkInv'
<1>1. UNCHANGED <<gate, worker, batch>> /\ now' \in {now, now + 1}
  BY DEF Tick, StartService, Pipe, Submit, SubmitSucceeds, SubmitFails, Replace, gateVars, vars, gate
<1>2. \A r \in Request : Waiting(r)' => Waiting(r)
  <2>1. CASE tracked' = tracked
    BY <1>1, <2>1 DEF Waiting, gate
  <2>2. ASSUME NEW q \in Request, NEW f \in File, Submit(q, f)
        PROVE  \A r \in Request : Waiting(r)' => Waiting(r)
    <3>1. row'[q] = None /\ row' = row
      BY <1>1, <2>2 DEF Submit, gate, GateInv, IInv, TokenInv, Backend, RowsAreFiled
    <3>2. \A r \in Request : r # q => tracked'[r] = tracked[r]
      BY <2>2, AgentTypes DEF Submit, GateInv
    <3>3. QED BY <3>1, <3>2 DEF Waiting
  <2>3. CASE SubmitFails
    <3>1. submitting \in Request /\ tracked[submitting] # None /\ UpdateStatus(submitting, "Failed")
      BY <2>3, AgentTypes DEF SubmitFails, GateInv
    <3>2. /\ tracked'[submitting].status = "Failed"
          /\ \A q \in Request : q # submitting => tracked'[q] = tracked[q]
      BY <3>1, AgentTypes, UpdateStatusType DEF GateInv, RequestStatus
    <3>3. QED BY <1>1, <3>2 DEF Waiting, gate
  <2>4. QED
    BY <2>1, <2>2, <2>3 DEF Tick, StartService, Pipe, SubmitSucceeds, Replace, gateVars, vars
<1>3. QED
  BY <1>1, <1>2, AgentWaits DEF gate, WatermarkInv, Delivered, InHand

LEMMA WatermarkInvariant == GateSpec => []WatermarkInv
<1>1. GateInit => WatermarkInv
  BY DEF GateInit, Init, WatermarkInv, Untouched, Overdue, Waiting
<1>2. GateInv /\ WatermarkInv /\ [GateNext]_gateVars => WatermarkInv'
  BY SurroundingsWait, BackendWaits, PollWaits, WatermarkMoves, HandlingWaits
  DEF GateNext, AbortAndKeep
<1>3. QED
  BY <1>1, <1>2, GateInvariant, PTL DEF GateSpec

\* For any number of requests, in any order of answers: the watermark does not
\* pass an expiry that the tray still waits for.
THEOREM ExpiriesAreDelivered == GateSpec => []NoExpiryIsMissed
<1>1. WatermarkInv => NoExpiryIsMissed
  BY DEF WatermarkInv, Overdue, Delivered, InHand, NoExpiryIsMissed
<1>2. QED
  BY WatermarkInvariant, <1>1, PTL

=============================================================================
