----------------------------- MODULE AgentProofs -----------------------------
(***************************************************************************)
(* Theorems about Agent, for every set of requests, files, hashes, nonces  *)
(* and devices, any clock and answers of any length.                       *)
(***************************************************************************)
EXTENDS Agent, TLAPS, SequenceTheorems

-----------------------------------------------------------------------------
\* The inductive invariant.

Engaged == {"accepted", "hashed", "vetted", "cleared", "running", "returned"}
PastVetting == {"vetted", "cleared", "running"}

\* The backend signs what was sent, once.
TokenInv ==
  /\ filed \subseteq {r \in Request : sent[r] # None}
  /\ \A t \in issued :
       /\ t.request \in filed
       /\ sent[t.request] = [device |-> t.device, hash |-> t.hash]
  /\ \A t, u \in issued : t.request = u.request \/ t.nonce = u.nonce => t = u

\* The submission that is awaited is tracked.
SubmittingInv == submitting # None => tracked[submitting] # None

\* The engine works on the first decision of the batch, an approval of a
\* tracked request whose receipt is on record.
EngagedInv ==
  worker.pc \in Engaged =>
    /\ batch # <<>>
    /\ Known(Target)
    /\ Current.status = "Approved"
    /\ Current.token # None
    /\ [event |-> "DecisionReceived", request |-> Target,
        nonce |-> Current.token.nonce] \in rows

\* What each of the engine's tests leaves behind for the next.
EngineInv ==
  /\ worker.pc \in {"hashed"} \cup PastVetting => worker.hash \in Hash
  /\ worker.pc \in PastVetting =>
       /\ Current.token \in issued
       /\ Current.token.request = Target
       /\ Current.token.device = Here
       /\ worker.vettedAt \in Nat
       /\ worker.vettedAt < Current.token.expiresAt
  /\ worker.pc \in {"cleared", "running"} =>
       Current.token.hash = worker.hash /\ Current.token.nonce \in spent
  /\ worker.pc = "cleared" => starts[Target] = 0
  /\ worker.pc = "running" => Launched \in launched
  /\ worker.pc = "returned" /\ worker.outcome = "completed" =>
       \E l \in launched : l.request = Target /\ l.token = Current.token

\* A process was started only with the one token of its request, which is
\* spent since; so a nonce that is still fresh belongs to a request that has
\* not run.
StartInv ==
  /\ \A r \in Request :
       /\ starts[r] \in {0, 1}
       /\ starts[r] = 1 => \E t \in issued : t.request = r /\ t.nonce \in spent
  /\ \A l \in launched : starts[l.request] = 1

IInv ==
  /\ TypeOK
  /\ TokenInv
  /\ SubmittingInv
  /\ EngagedInv
  /\ EngineInv
  /\ StartInv
  /\ LaunchesAreLicensed
  /\ AuditExplainsLaunches
  /\ StatusIsEarned

-----------------------------------------------------------------------------
\* Typing facts about the first decision and the statements.

LEMMA FirstDecision ==
  ASSUME batch \in Seq(Decision), batch # <<>>
  PROVE  /\ Current \in Decision
         /\ Target \in Request \cup {Stranger}
         /\ Current.token # None => Current.token \in Token /\ Current.token.nonce \in Nonce
         /\ Tail(batch) \in Seq(Decision)
<1>1. Current \in Decision /\ Tail(batch) \in Seq(Decision)
  BY HeadTailProperties DEF Current
<1>. QED  BY <1>1 DEF Decision, Target, Token

LEMMA UpdateStatusType ==
  ASSUME tracked \in [Request -> TrackedRequest \cup {None}],
         NEW id \in Request, tracked[id] # None, NEW s \in RequestStatus,
         UpdateStatus(id, s)
  PROVE  /\ tracked' \in [Request -> TrackedRequest \cup {None}]
         /\ tracked'[id] \in TrackedRequest /\ tracked'[id].status = s
         /\ tracked'[id] # None
         /\ \A r \in Request : r # id => tracked'[r] = tracked[r]
<1>1. tracked[id] \in TrackedRequest
  OBVIOUS
<1>2. [tracked[id] EXCEPT !.status = s] \in TrackedRequest
  BY <1>1 DEF TrackedRequest
<1>3. tracked'[id] # None
  BY <1>1, <1>2, AgentAssumption DEF UpdateStatus
<1>. QED  BY <1>1, <1>2, <1>3 DEF UpdateStatus, TrackedRequest

LEMMA AtType ==
  \A pc \in {"off", "idle", "handling", "accepted"} : At(pc) \in Worker
BY DEF At, Worker, WorkerPC

LEMMA ReturnType ==
  ASSUME worker \in Worker, NEW o \in Outcome, Return(o)
  PROVE  /\ worker' \in Worker
         /\ worker'.pc = "returned" /\ worker'.outcome = o
         /\ worker'.hash = worker.hash /\ worker'.vettedAt = worker.vettedAt
BY DEF Return, Worker, WorkerPC

LEMMA NoDecisions == <<>> \in Seq(Decision)
OBVIOUS

-----------------------------------------------------------------------------
\* The invariant is inductive: one lemma per action, and in each one step
\* for the types, one for the tokens and the worker's place in the batch,
\* one for what the engine has established, one for the properties.

USE DEF IInv, world, backend, disk, Engaged, PastVetting, Known, Current, Target

\* The world around the agent.

LEMMA TickStep ==
  ASSUME IInv, Tick
  PROVE  IInv'
<1>1. TypeOK'
    BY AgentAssumption DEF Tick, TypeOK
<1>2. TokenInv' /\ SubmittingInv' /\ EngagedInv'
    BY DEF Tick, TokenInv, SubmittingInv, EngagedInv, TypeOK
<1>3. EngineInv' /\ StartInv'
    BY DEF Tick, Launched, EngineInv, StartInv, TypeOK, TokenInv, EngagedInv
<1>4. LaunchesAreLicensed' /\ AuditExplainsLaunches' /\ StatusIsEarned'
    BY DEF Tick, LaunchesAreLicensed, AuditExplainsLaunches, StatusIsEarned,
      TypeOK, TokenInv, EngagedInv, EngineInv, StartInv
<1>. QED  BY <1>1, <1>2, <1>3, <1>4

LEMMA ReplaceStep ==
  ASSUME IInv, NEW f \in File, NEW h \in Hash \cup {None}, Replace(f, h)
  PROVE  IInv'
<1>1. TypeOK'
    BY AgentAssumption DEF Replace, TypeOK
<1>2. TokenInv' /\ SubmittingInv' /\ EngagedInv'
    BY DEF Replace, TokenInv, SubmittingInv, EngagedInv, TypeOK
<1>3. EngineInv' /\ StartInv'
    BY DEF Replace, Launched, EngineInv, StartInv, TypeOK, TokenInv,
      EngagedInv
<1>4. LaunchesAreLicensed' /\ AuditExplainsLaunches' /\ StatusIsEarned'
    BY DEF Replace, LaunchesAreLicensed, AuditExplainsLaunches,
      StatusIsEarned, TypeOK, TokenInv, EngagedInv, EngineInv, StartInv
<1>. QED  BY <1>1, <1>2, <1>3, <1>4

LEMMA SubmitElsewhereStep ==
  ASSUME IInv, NEW r \in Request, NEW d \in Device, NEW h \in Hash, SubmitElsewhere(r, d, h)
  PROVE  IInv'
<1>1. /\ sent' \in [Request -> Submission \cup {None}] /\ sent'[r] # None
      /\ \A q \in Request : sent[q] # None => sent'[q] = sent[q]
      /\ \A q \in filed : q \in Request /\ sent'[q] = sent[q]
  BY AgentAssumption DEF SubmitElsewhere, TypeOK, TokenInv, Submission
<1>2. \A l \in launched : sent'[l.request] = sent[l.request]
  <2>1. \A l \in launched : l.request \in filed
    BY DEF TokenInv, LaunchesAreLicensed
  <2>. QED  BY <2>1, <1>1
<1>3. TypeOK'
    BY <1>1, <1>2, AgentAssumption DEF SubmitElsewhere, TypeOK
<1>4. TokenInv' /\ SubmittingInv' /\ EngagedInv'
    BY <1>1, <1>2, AgentAssumption DEF SubmitElsewhere, TokenInv,
      SubmittingInv, EngagedInv, TypeOK
<1>5. EngineInv' /\ StartInv'
    BY <1>1, <1>2, AgentAssumption DEF SubmitElsewhere, Launched, EngineInv,
      StartInv, TypeOK, TokenInv, EngagedInv
<1>6. LaunchesAreLicensed' /\ AuditExplainsLaunches' /\ StatusIsEarned'
    BY <1>1, <1>2, AgentAssumption DEF SubmitElsewhere, LaunchesAreLicensed,
      AuditExplainsLaunches, StatusIsEarned, TypeOK, TokenInv, EngagedInv,
      EngineInv, StartInv
<1>. QED  BY <1>3, <1>4, <1>5, <1>6

LEMMA FileRequestStep ==
  ASSUME IInv, NEW r \in Request, FileRequest(r)
  PROVE  IInv'
<1>1. TypeOK'
    BY AgentAssumption DEF FileRequest, TypeOK
<1>2. TokenInv' /\ SubmittingInv' /\ EngagedInv'
    BY DEF FileRequest, TokenInv, SubmittingInv, EngagedInv, TypeOK
<1>3. EngineInv' /\ StartInv'
    BY DEF FileRequest, Launched, EngineInv, StartInv, TypeOK, TokenInv,
      EngagedInv
<1>4. LaunchesAreLicensed' /\ AuditExplainsLaunches' /\ StatusIsEarned'
    BY DEF FileRequest, LaunchesAreLicensed, AuditExplainsLaunches,
      StatusIsEarned, TypeOK, TokenInv, EngagedInv, EngineInv, StartInv
<1>. QED  BY <1>1, <1>2, <1>3, <1>4

LEMMA SignStep ==
  ASSUME IInv, NEW r \in Request, NEW n \in Nonce, Sign(r, n)
  PROVE  IInv'
<1>1. sent[r] \in Submission /\ now + TokenTTL \in Nat
  BY AgentAssumption DEF Sign, TypeOK, TokenInv
<1>2. issued' \subseteq Token
  BY <1>1 DEF Sign, TypeOK, Token, Submission
<1>3. /\ issued \subseteq issued'
      /\ \A t \in issued' \ issued :
           /\ t.request = r /\ t.nonce = n
           /\ sent[r] = [device |-> t.device, hash |-> t.hash]
      /\ \A t, u \in issued' \ issued : t = u
  BY <1>1 DEF Sign, Submission
<1>4. TypeOK'
    BY <1>1, <1>2, <1>3, AgentAssumption DEF Sign, TypeOK
<1>5. TokenInv' /\ SubmittingInv' /\ EngagedInv'
    BY <1>1, <1>2, <1>3 DEF Sign, TokenInv, SubmittingInv, EngagedInv, TypeOK
<1>6. EngineInv' /\ StartInv'
    BY <1>1, <1>2, <1>3 DEF Sign, Launched, EngineInv, StartInv, TypeOK,
      TokenInv, EngagedInv
<1>7. LaunchesAreLicensed' /\ AuditExplainsLaunches' /\ StatusIsEarned'
    BY <1>1, <1>2, <1>3 DEF Sign, LaunchesAreLicensed, AuditExplainsLaunches,
      StatusIsEarned, TypeOK, TokenInv, EngagedInv, EngineInv, StartInv
<1>. QED  BY <1>4, <1>5, <1>6, <1>7

\* The service process.

LEMMA StartServiceStep ==
  ASSUME IInv, StartService
  PROVE  IInv'
<1>1. TypeOK'
    BY AgentAssumption DEF StartService, TypeOK
<1>2. TokenInv' /\ SubmittingInv' /\ EngagedInv'
    BY DEF StartService, TokenInv, SubmittingInv, EngagedInv, TypeOK
<1>3. EngineInv' /\ StartInv'
    BY DEF StartService, Launched, EngineInv, StartInv, TypeOK, TokenInv,
      EngagedInv
<1>4. LaunchesAreLicensed' /\ AuditExplainsLaunches' /\ StatusIsEarned'
    BY DEF StartService, LaunchesAreLicensed, AuditExplainsLaunches,
      StatusIsEarned, TypeOK, TokenInv, EngagedInv, EngineInv, StartInv
<1>. QED  BY <1>1, <1>2, <1>3, <1>4

LEMMA StopServiceStep ==
  ASSUME IInv, StopService
  PROVE  IInv'
<1>1. TypeOK'
    BY AtType, NoDecisions, AgentAssumption DEF StopService, TypeOK
<1>2. TokenInv' /\ SubmittingInv' /\ EngagedInv'
    BY AtType, NoDecisions DEF StopService, At, TokenInv, SubmittingInv,
      EngagedInv, TypeOK
<1>3. EngineInv' /\ StartInv'
    BY AtType, NoDecisions DEF StopService, At, Launched, EngineInv, StartInv,
      TypeOK, TokenInv, EngagedInv
<1>4. LaunchesAreLicensed' /\ AuditExplainsLaunches' /\ StatusIsEarned'
    BY AtType, NoDecisions DEF StopService, At, LaunchesAreLicensed,
      AuditExplainsLaunches, StatusIsEarned, TypeOK, TokenInv, EngagedInv,
      EngineInv, StartInv
<1>. QED  BY <1>1, <1>2, <1>3, <1>4

\* The pipe server.

LEMMA SubmitStep ==
  ASSUME IInv, NEW r \in Request, NEW f \in File, Submit(r, f)
  PROVE  IInv'
<1>1. /\ [file |-> f, status |-> "Pending"] \in TrackedRequest
      /\ [device |-> Here, hash |-> content[f]] \in Submission
  BY AgentAssumption DEF Submit, TypeOK, TrackedRequest, RequestStatus, Submission
<1>2. /\ tracked' \in [Request -> TrackedRequest \cup {None}]
      /\ tracked'[r] # None /\ tracked'[r].status = "Pending"
      /\ \A q \in Request : q # r => tracked'[q] = tracked[q]
  BY <1>1, AgentAssumption DEF Submit, TypeOK
<1>3. /\ sent' \in [Request -> Submission \cup {None}] /\ sent'[r] # None
      /\ \A q \in Request : sent[q] # None => sent'[q] = sent[q]
      /\ \A q \in filed : q \in Request /\ sent'[q] = sent[q]
  BY <1>1, AgentAssumption DEF Submit, TypeOK, TokenInv, Submission
<1>4. \A l \in launched : sent'[l.request] = sent[l.request]
  <2>1. \A l \in launched : l.request \in filed
    BY DEF TokenInv, LaunchesAreLicensed
  <2>. QED  BY <2>1, <1>3
<1>5. TypeOK'
    BY <1>1, <1>2, <1>3, <1>4, AgentAssumption DEF Submit, TypeOK
<1>6. TokenInv' /\ SubmittingInv' /\ EngagedInv'
    BY <1>1, <1>2, <1>3, <1>4 DEF Submit, TokenInv, SubmittingInv, EngagedInv,
      TypeOK
<1>7. EngineInv' /\ StartInv'
    BY <1>1, <1>2, <1>3, <1>4 DEF Submit, Launched, EngineInv, StartInv,
      TypeOK, TokenInv, EngagedInv
<1>8. LaunchesAreLicensed' /\ AuditExplainsLaunches' /\ StatusIsEarned'
    BY <1>1, <1>2, <1>3, <1>4 DEF Submit, LaunchesAreLicensed,
      AuditExplainsLaunches, StatusIsEarned, TypeOK, TokenInv, EngagedInv,
      EngineInv, StartInv
<1>. QED  BY <1>5, <1>6, <1>7, <1>8

LEMMA SubmitSucceedsStep ==
  ASSUME IInv, SubmitSucceeds
  PROVE  IInv'
<1>1. TypeOK'
    BY AgentAssumption DEF SubmitSucceeds, TypeOK
<1>2. TokenInv' /\ SubmittingInv' /\ EngagedInv'
    BY DEF SubmitSucceeds, TokenInv, SubmittingInv, EngagedInv, TypeOK
<1>3. EngineInv' /\ StartInv'
    BY DEF SubmitSucceeds, Launched, EngineInv, StartInv, TypeOK, TokenInv,
      EngagedInv
<1>4. LaunchesAreLicensed' /\ AuditExplainsLaunches' /\ StatusIsEarned'
    BY DEF SubmitSucceeds, LaunchesAreLicensed, AuditExplainsLaunches,
      StatusIsEarned, TypeOK, TokenInv, EngagedInv, EngineInv, StartInv
<1>. QED  BY <1>1, <1>2, <1>3, <1>4

LEMMA SubmitFailsStep ==
  ASSUME IInv, SubmitFails
  PROVE  IInv'
<1>1. /\ submitting \in Request /\ tracked[submitting] # None
      /\ "Failed" \in RequestStatus
  BY DEF SubmitFails, TypeOK, SubmittingInv, RequestStatus
<1>2. /\ tracked' \in [Request -> TrackedRequest \cup {None}]
      /\ \A r \in Request :
           /\ tracked'[r] = None <=> tracked[r] = None
           /\ tracked'[r] # None /\ tracked'[r].status = "Approved" => tracked'[r] = tracked[r]
  BY <1>1, UpdateStatusType DEF SubmitFails, TypeOK
<1>3. TypeOK'
    BY <1>1, <1>2, AgentAssumption DEF SubmitFails, TypeOK
<1>4. TokenInv' /\ SubmittingInv' /\ EngagedInv'
    BY <1>1, <1>2 DEF SubmitFails, TokenInv, SubmittingInv, EngagedInv, TypeOK
<1>5. EngineInv' /\ StartInv'
    BY <1>1, <1>2 DEF SubmitFails, Launched, EngineInv, StartInv, TypeOK,
      TokenInv, EngagedInv
<1>6. LaunchesAreLicensed' /\ AuditExplainsLaunches' /\ StatusIsEarned'
    BY <1>1, <1>2 DEF SubmitFails, LaunchesAreLicensed, AuditExplainsLaunches,
      StatusIsEarned, TypeOK, TokenInv, EngagedInv, EngineInv, StartInv
<1>. QED  BY <1>3, <1>4, <1>5, <1>6

\* The polling cycle.

LEMMA BeginPollingStep ==
  ASSUME IInv, BeginPolling
  PROVE  IInv'
<1>1. TypeOK'
    BY AtType, AgentAssumption DEF BeginPolling, TypeOK
<1>2. TokenInv' /\ SubmittingInv' /\ EngagedInv'
    BY AtType DEF BeginPolling, At, TokenInv, SubmittingInv, EngagedInv,
      TypeOK
<1>3. EngineInv' /\ StartInv'
    BY AtType DEF BeginPolling, At, Launched, EngineInv, StartInv, TypeOK,
      TokenInv, EngagedInv
<1>4. LaunchesAreLicensed' /\ AuditExplainsLaunches' /\ StatusIsEarned'
    BY AtType DEF BeginPolling, At, LaunchesAreLicensed,
      AuditExplainsLaunches, StatusIsEarned, TypeOK, TokenInv, EngagedInv,
      EngineInv, StartInv
<1>. QED  BY <1>1, <1>2, <1>3, <1>4

LEMMA PollAnswerStep ==
  ASSUME IInv, NEW s \in Seq(Decision), PollAnswer(s)
  PROVE  IInv'
<1>1. TypeOK'
    BY AtType, AgentAssumption DEF PollAnswer, TypeOK
<1>2. TokenInv' /\ SubmittingInv' /\ EngagedInv'
    BY AtType DEF PollAnswer, At, TokenInv, SubmittingInv, EngagedInv, TypeOK
<1>3. EngineInv' /\ StartInv'
    BY AtType DEF PollAnswer, At, Launched, EngineInv, StartInv, TypeOK,
      TokenInv, EngagedInv
<1>4. LaunchesAreLicensed' /\ AuditExplainsLaunches' /\ StatusIsEarned'
    BY AtType DEF PollAnswer, At, LaunchesAreLicensed, AuditExplainsLaunches,
      StatusIsEarned, TypeOK, TokenInv, EngagedInv, EngineInv, StartInv
<1>. QED  BY <1>1, <1>2, <1>3, <1>4

LEMMA EndCycleStep ==
  ASSUME IInv, EndCycle
  PROVE  IInv'
<1>1. TypeOK'
    BY AtType, AgentAssumption DEF EndCycle, TypeOK
<1>2. TokenInv' /\ SubmittingInv' /\ EngagedInv'
    BY AtType DEF EndCycle, At, TokenInv, SubmittingInv, EngagedInv, TypeOK
<1>3. EngineInv' /\ StartInv'
    BY AtType DEF EndCycle, At, Launched, EngineInv, StartInv, TypeOK,
      TokenInv, EngagedInv
<1>4. LaunchesAreLicensed' /\ AuditExplainsLaunches' /\ StatusIsEarned'
    BY AtType DEF EndCycle, At, LaunchesAreLicensed, AuditExplainsLaunches,
      StatusIsEarned, TypeOK, TokenInv, EngagedInv, EngineInv, StartInv
<1>. QED  BY <1>1, <1>2, <1>3, <1>4

LEMMA AbortCycleStep ==
  ASSUME IInv, AbortCycle
  PROVE  IInv'
<1>1. TypeOK'
    BY AtType, NoDecisions, AgentAssumption DEF AbortCycle, TypeOK
<1>2. TokenInv' /\ SubmittingInv' /\ EngagedInv'
    BY AtType, NoDecisions DEF AbortCycle, At, TokenInv, SubmittingInv,
      EngagedInv, TypeOK
<1>3. EngineInv' /\ StartInv'
    BY AtType, NoDecisions DEF AbortCycle, At, Launched, EngineInv, StartInv,
      TypeOK, TokenInv, EngagedInv
<1>4. LaunchesAreLicensed' /\ AuditExplainsLaunches' /\ StatusIsEarned'
    BY AtType, NoDecisions DEF AbortCycle, At, LaunchesAreLicensed,
      AuditExplainsLaunches, StatusIsEarned, TypeOK, TokenInv, EngagedInv,
      EngineInv, StartInv
<1>. QED  BY <1>1, <1>2, <1>3, <1>4

\* The decisions of a batch.

LEMMA SkipUnknownStep ==
  ASSUME IInv, SkipUnknown
  PROVE  IInv'
<1>1. TypeOK'
    BY AtType, FirstDecision, AgentAssumption DEF SkipUnknown, NextDecision,
      TypeOK
<1>2. TokenInv' /\ SubmittingInv' /\ EngagedInv'
    BY AtType, FirstDecision DEF SkipUnknown, At, NextDecision, TokenInv,
      SubmittingInv, EngagedInv, TypeOK
<1>3. EngineInv' /\ StartInv'
    BY AtType, FirstDecision DEF SkipUnknown, At, NextDecision, Launched,
      EngineInv, StartInv, TypeOK, TokenInv, EngagedInv
<1>4. LaunchesAreLicensed' /\ AuditExplainsLaunches' /\ StatusIsEarned'
    BY AtType, FirstDecision DEF SkipUnknown, At, NextDecision,
      LaunchesAreLicensed, AuditExplainsLaunches, StatusIsEarned, TypeOK,
      TokenInv, EngagedInv, EngineInv, StartInv
<1>. QED  BY <1>1, <1>2, <1>3, <1>4

LEMMA TakeRefusalStep ==
  ASSUME IInv, TakeRefusal
  PROVE  IInv'
<1>1. /\ Target \in Request /\ tracked[Target] # None
      /\ Tail(batch) \in Seq(Decision)
  BY FirstDecision DEF TypeOK, TakeRefusal
<1>2. rows' \subseteq AuditRow
  BY <1>1, FirstDecision DEF TakeRefusal, Record, TypeOK, AuditRow, AuditEventType
<1>3. /\ tracked' \in [Request -> TrackedRequest \cup {None}]
      /\ \A r \in Request :
           /\ tracked'[r] = None <=> tracked[r] = None
           /\ tracked'[r] # None /\ tracked'[r].status = "Approved" => tracked'[r] = tracked[r]
  BY <1>1, UpdateStatusType DEF TakeRefusal, TypeOK, RequestStatus
<1>4. TypeOK'
    BY <1>1, <1>2, <1>3, AtType, FirstDecision, AgentAssumption DEF
      TakeRefusal, NextDecision, Record, TypeOK
<1>5. TokenInv' /\ SubmittingInv' /\ EngagedInv'
    BY <1>1, <1>2, <1>3, AtType, FirstDecision DEF TakeRefusal, At,
      NextDecision, Record, TokenInv, SubmittingInv, EngagedInv, TypeOK
<1>6. EngineInv' /\ StartInv'
    BY <1>1, <1>2, <1>3, AtType, FirstDecision DEF TakeRefusal, At,
      NextDecision, Record, Launched, EngineInv, StartInv, TypeOK, TokenInv,
      EngagedInv
<1>7. LaunchesAreLicensed' /\ AuditExplainsLaunches' /\ StatusIsEarned'
    BY <1>1, <1>2, <1>3, AtType, FirstDecision DEF TakeRefusal, At,
      NextDecision, Record, LaunchesAreLicensed, AuditExplainsLaunches,
      StatusIsEarned, TypeOK, TokenInv, EngagedInv, EngineInv, StartInv
<1>. QED  BY <1>4, <1>5, <1>6, <1>7

LEMMA TakeTokenlessStep ==
  ASSUME IInv, TakeTokenless
  PROVE  IInv'
<1>1. /\ Target \in Request /\ tracked[Target] # None
      /\ Tail(batch) \in Seq(Decision)
  BY FirstDecision DEF TypeOK, TakeTokenless
<1>2. rows' \subseteq AuditRow
  BY <1>1, FirstDecision DEF TakeTokenless, Record, TypeOK, AuditRow, AuditEventType
<1>3. /\ tracked' \in [Request -> TrackedRequest \cup {None}]
      /\ \A r \in Request :
           /\ tracked'[r] = None <=> tracked[r] = None
           /\ tracked'[r] # None /\ tracked'[r].status = "Approved" => tracked'[r] = tracked[r]
  BY <1>1, UpdateStatusType DEF TakeTokenless, TypeOK, RequestStatus
<1>4. TypeOK'
    BY <1>1, <1>2, <1>3, AtType, FirstDecision, AgentAssumption DEF
      TakeTokenless, NextDecision, Record, TypeOK
<1>5. TokenInv' /\ SubmittingInv' /\ EngagedInv'
    BY <1>1, <1>2, <1>3, AtType, FirstDecision DEF TakeTokenless, At,
      NextDecision, Record, TokenInv, SubmittingInv, EngagedInv, TypeOK
<1>6. EngineInv' /\ StartInv'
    BY <1>1, <1>2, <1>3, AtType, FirstDecision DEF TakeTokenless, At,
      NextDecision, Record, Launched, EngineInv, StartInv, TypeOK, TokenInv,
      EngagedInv
<1>7. LaunchesAreLicensed' /\ AuditExplainsLaunches' /\ StatusIsEarned'
    BY <1>1, <1>2, <1>3, AtType, FirstDecision DEF TakeTokenless, At,
      NextDecision, Record, LaunchesAreLicensed, AuditExplainsLaunches,
      StatusIsEarned, TypeOK, TokenInv, EngagedInv, EngineInv, StartInv
<1>. QED  BY <1>4, <1>5, <1>6, <1>7

LEMMA TakeApprovalStep ==
  ASSUME IInv, TakeApproval
  PROVE  IInv'
<1>1. /\ Target \in Request /\ tracked[Target] # None
      /\ Tail(batch) \in Seq(Decision)
  BY FirstDecision DEF TypeOK, TakeApproval
<1>2. rows' \subseteq AuditRow
  BY <1>1, FirstDecision DEF TakeApproval, Record, TypeOK, AuditRow, AuditEventType
<1>3. TypeOK'
    BY <1>1, <1>2, AtType, FirstDecision, AgentAssumption DEF TakeApproval,
      Record, TypeOK
<1>4. TokenInv' /\ SubmittingInv' /\ EngagedInv'
    BY <1>1, <1>2, AtType, FirstDecision DEF TakeApproval, At, Record,
      TokenInv, SubmittingInv, EngagedInv, TypeOK
<1>5. EngineInv' /\ StartInv'
    BY <1>1, <1>2, AtType, FirstDecision DEF TakeApproval, At, Record,
      Launched, EngineInv, StartInv, TypeOK, TokenInv, EngagedInv
<1>6. LaunchesAreLicensed' /\ AuditExplainsLaunches' /\ StatusIsEarned'
    BY <1>1, <1>2, AtType, FirstDecision DEF TakeApproval, At, Record,
      LaunchesAreLicensed, AuditExplainsLaunches, StatusIsEarned, TypeOK,
      TokenInv, EngagedInv, EngineInv, StartInv
<1>. QED  BY <1>3, <1>4, <1>5, <1>6

\* The engine.

LEMMA MissFileStep ==
  ASSUME IInv, MissFile
  PROVE  IInv'
<1>1. /\ worker' \in Worker /\ worker'.pc = "returned"
      /\ worker'.outcome = "failed"
  BY ReturnType DEF MissFile, TypeOK, Outcome
<1>2. TypeOK'
    BY <1>1, AgentAssumption DEF MissFile, TypeOK
<1>3. TokenInv' /\ SubmittingInv' /\ EngagedInv'
    BY <1>1 DEF MissFile, TokenInv, SubmittingInv, EngagedInv, TypeOK
<1>4. EngineInv' /\ StartInv'
    BY <1>1 DEF MissFile, Launched, EngineInv, StartInv, TypeOK, TokenInv,
      EngagedInv
<1>5. LaunchesAreLicensed' /\ AuditExplainsLaunches' /\ StatusIsEarned'
    BY <1>1 DEF MissFile, LaunchesAreLicensed, AuditExplainsLaunches,
      StatusIsEarned, TypeOK, TokenInv, EngagedInv, EngineInv, StartInv
<1>. QED  BY <1>2, <1>3, <1>4, <1>5

LEMMA HashFileStep ==
  ASSUME IInv, HashFile
  PROVE  IInv'
<1>1. content[tracked[Target].file] \in Hash
  BY DEF HashFile, TypeOK, EngagedInv, TrackedRequest
<1>2. worker' \in Worker /\ worker'.pc = "hashed" /\ worker'.hash \in Hash
  BY <1>1 DEF HashFile, TypeOK, Worker, WorkerPC
<1>3. TypeOK'
    BY <1>1, <1>2, AgentAssumption DEF HashFile, TypeOK
<1>4. TokenInv' /\ SubmittingInv' /\ EngagedInv'
    BY <1>1, <1>2 DEF HashFile, TokenInv, SubmittingInv, EngagedInv, TypeOK
<1>5. EngineInv' /\ StartInv'
    BY <1>1, <1>2 DEF HashFile, Launched, EngineInv, StartInv, TypeOK,
      TokenInv, EngagedInv
<1>6. LaunchesAreLicensed' /\ AuditExplainsLaunches' /\ StatusIsEarned'
    BY <1>1, <1>2 DEF HashFile, LaunchesAreLicensed, AuditExplainsLaunches,
      StatusIsEarned, TypeOK, TokenInv, EngagedInv, EngineInv, StartInv
<1>. QED  BY <1>3, <1>4, <1>5, <1>6

LEMMA VetTokenStep ==
  ASSUME IInv, VetToken
  PROVE  IInv'
<1>1. /\ worker' \in Worker /\ worker'.pc = "vetted"
      /\ worker'.hash = worker.hash /\ worker'.vettedAt = now
  BY DEF VetToken, TypeOK, Worker, WorkerPC
<1>2. TypeOK'
    BY <1>1, AgentAssumption DEF VetToken, Acceptable, TypeOK
<1>3. TokenInv' /\ SubmittingInv' /\ EngagedInv'
    BY <1>1 DEF VetToken, Acceptable, TokenInv, SubmittingInv, EngagedInv,
      TypeOK
<1>4. EngineInv' /\ StartInv'
    BY <1>1 DEF VetToken, Acceptable, Launched, EngineInv, StartInv, TypeOK,
      TokenInv, EngagedInv
<1>5. LaunchesAreLicensed' /\ AuditExplainsLaunches' /\ StatusIsEarned'
    BY <1>1 DEF VetToken, Acceptable, LaunchesAreLicensed,
      AuditExplainsLaunches, StatusIsEarned, TypeOK, TokenInv, EngagedInv,
      EngineInv, StartInv
<1>. QED  BY <1>2, <1>3, <1>4, <1>5

LEMMA RejectTokenStep ==
  ASSUME IInv, RejectToken
  PROVE  IInv'
<1>1. /\ worker' \in Worker /\ worker'.pc = "returned"
      /\ worker'.outcome = "failed"
  BY ReturnType DEF RejectToken, TypeOK, Outcome
<1>2. TypeOK'
    BY <1>1, AgentAssumption DEF RejectToken, TypeOK
<1>3. TokenInv' /\ SubmittingInv' /\ EngagedInv'
    BY <1>1 DEF RejectToken, TokenInv, SubmittingInv, EngagedInv, TypeOK
<1>4. EngineInv' /\ StartInv'
    BY <1>1 DEF RejectToken, Launched, EngineInv, StartInv, TypeOK, TokenInv,
      EngagedInv
<1>5. LaunchesAreLicensed' /\ AuditExplainsLaunches' /\ StatusIsEarned'
    BY <1>1 DEF RejectToken, LaunchesAreLicensed, AuditExplainsLaunches,
      StatusIsEarned, TypeOK, TokenInv, EngagedInv, EngineInv, StartInv
<1>. QED  BY <1>2, <1>3, <1>4, <1>5

LEMMA ConsumeNonceStep ==
  ASSUME IInv, ConsumeNonce
  PROVE  IInv'
<1>1. /\ Current.token \in issued /\ Current.token.nonce \in Nonce
      /\ Current.token.request = Target /\ Target \in Request
  BY DEF ConsumeNonce, TypeOK, EngagedInv, EngineInv, Token
<1>2. /\ worker' \in Worker /\ worker'.pc \in {"cleared", "returned"}
      /\ worker'.hash = worker.hash /\ worker'.vettedAt = worker.vettedAt
      /\ worker'.pc = "cleared" => Current.token.hash = worker.hash
      /\ worker'.pc = "returned" => worker'.outcome = "failed"
  BY ReturnType DEF ConsumeNonce, TypeOK, Worker, WorkerPC, Outcome
<1>3. starts[Target] = 0
  BY <1>1 DEF ConsumeNonce, TokenInv, StartInv
<1>4. TypeOK'
    BY <1>1, <1>2, <1>3, AgentAssumption DEF ConsumeNonce, TypeOK
<1>5. TokenInv' /\ SubmittingInv' /\ EngagedInv'
    BY <1>1, <1>2, <1>3 DEF ConsumeNonce, TokenInv, SubmittingInv, EngagedInv,
      TypeOK
<1>6. EngineInv' /\ StartInv'
    BY <1>1, <1>2, <1>3 DEF ConsumeNonce, Launched, EngineInv, StartInv,
      TypeOK, TokenInv, EngagedInv
<1>7. LaunchesAreLicensed' /\ AuditExplainsLaunches' /\ StatusIsEarned'
    BY <1>1, <1>2, <1>3 DEF ConsumeNonce, LaunchesAreLicensed,
      AuditExplainsLaunches, StatusIsEarned, TypeOK, TokenInv, EngagedInv,
      EngineInv, StartInv
<1>. QED  BY <1>4, <1>5, <1>6, <1>7

LEMMA RejectReplayStep ==
  ASSUME IInv, RejectReplay
  PROVE  IInv'
<1>1. /\ worker' \in Worker /\ worker'.pc = "returned"
      /\ worker'.outcome = "replayed"
  BY ReturnType DEF RejectReplay, TypeOK, Outcome
<1>2. TypeOK'
    BY <1>1, AgentAssumption DEF RejectReplay, TypeOK
<1>3. TokenInv' /\ SubmittingInv' /\ EngagedInv'
    BY <1>1 DEF RejectReplay, TokenInv, SubmittingInv, EngagedInv, TypeOK
<1>4. EngineInv' /\ StartInv'
    BY <1>1 DEF RejectReplay, Launched, EngineInv, StartInv, TypeOK, TokenInv,
      EngagedInv
<1>5. LaunchesAreLicensed' /\ AuditExplainsLaunches' /\ StatusIsEarned'
    BY <1>1 DEF RejectReplay, LaunchesAreLicensed, AuditExplainsLaunches,
      StatusIsEarned, TypeOK, TokenInv, EngagedInv, EngineInv, StartInv
<1>. QED  BY <1>2, <1>3, <1>4, <1>5

LEMMA StartProcessStep ==
  ASSUME IInv, StartProcess
  PROVE  IInv'
<1>1. worker' \in Worker /\ worker' = [worker EXCEPT !.pc = "running"]
  BY DEF StartProcess, TypeOK, Worker, WorkerPC
<1>2. /\ Target \in Request /\ starts[Target] = 0 /\ Launched \in Launch
      /\ Launched.request = Target /\ Launched.token = Current.token
  BY DEF StartProcess, TypeOK, EngagedInv, EngineInv, Launched, Launch
<1>3. /\ starts' \in [Request -> Nat] /\ starts'[Target] = 1
      /\ \A r \in Request : r # Target => starts'[r] = starts[r]
  BY <1>2 DEF StartProcess, TypeOK
<1>4. TypeOK'
    BY <1>1, <1>2, <1>3, AgentAssumption DEF StartProcess, TypeOK
<1>5. TokenInv' /\ SubmittingInv' /\ EngagedInv'
    BY <1>1, <1>2, <1>3 DEF StartProcess, Launched, TokenInv, SubmittingInv,
      EngagedInv, TypeOK
<1>6. EngineInv' /\ StartInv'
    BY <1>1, <1>2, <1>3 DEF StartProcess, Launched, EngineInv, StartInv,
      TypeOK, TokenInv, EngagedInv
<1>7. LaunchesAreLicensed' /\ AuditExplainsLaunches' /\ StatusIsEarned'
    BY <1>1, <1>2, <1>3 DEF StartProcess, Launched, LaunchesAreLicensed,
      AuditExplainsLaunches, StatusIsEarned, TypeOK, TokenInv, EngagedInv,
      EngineInv, StartInv
<1>. QED  BY <1>4, <1>5, <1>6, <1>7

LEMMA StartFailsStep ==
  ASSUME IInv, StartFails
  PROVE  IInv'
<1>1. /\ worker' \in Worker /\ worker'.pc = "returned"
      /\ worker'.outcome = "failed"
  BY ReturnType DEF StartFails, TypeOK, Outcome
<1>2. TypeOK'
    BY <1>1, AgentAssumption DEF StartFails, TypeOK
<1>3. TokenInv' /\ SubmittingInv' /\ EngagedInv'
    BY <1>1 DEF StartFails, TokenInv, SubmittingInv, EngagedInv, TypeOK
<1>4. EngineInv' /\ StartInv'
    BY <1>1 DEF StartFails, Launched, EngineInv, StartInv, TypeOK, TokenInv,
      EngagedInv
<1>5. LaunchesAreLicensed' /\ AuditExplainsLaunches' /\ StatusIsEarned'
    BY <1>1 DEF StartFails, LaunchesAreLicensed, AuditExplainsLaunches,
      StatusIsEarned, TypeOK, TokenInv, EngagedInv, EngineInv, StartInv
<1>. QED  BY <1>2, <1>3, <1>4, <1>5

LEMMA ProcessExitsStep ==
  ASSUME IInv, ProcessExits
  PROVE  IInv'
<1>1. /\ worker' \in Worker /\ worker'.pc = "returned"
      /\ worker'.outcome = "completed"
  BY ReturnType DEF ProcessExits, TypeOK, Outcome
<1>2. TypeOK'
    BY <1>1, AgentAssumption DEF ProcessExits, TypeOK
<1>3. TokenInv' /\ SubmittingInv' /\ EngagedInv'
    BY <1>1 DEF ProcessExits, Launched, TokenInv, SubmittingInv, EngagedInv,
      TypeOK
<1>4. EngineInv' /\ StartInv'
    BY <1>1 DEF ProcessExits, Launched, EngineInv, StartInv, TypeOK, TokenInv,
      EngagedInv
<1>5. LaunchesAreLicensed' /\ AuditExplainsLaunches' /\ StatusIsEarned'
    BY <1>1 DEF ProcessExits, Launched, LaunchesAreLicensed,
      AuditExplainsLaunches, StatusIsEarned, TypeOK, TokenInv, EngagedInv,
      EngineInv, StartInv
<1>. QED  BY <1>2, <1>3, <1>4, <1>5

LEMMA WaitFailsStep ==
  ASSUME IInv, WaitFails
  PROVE  IInv'
<1>1. /\ worker' \in Worker /\ worker'.pc = "returned"
      /\ worker'.outcome = "failed"
  BY ReturnType DEF WaitFails, TypeOK, Outcome
<1>2. TypeOK'
    BY <1>1, AgentAssumption DEF WaitFails, TypeOK
<1>3. TokenInv' /\ SubmittingInv' /\ EngagedInv'
    BY <1>1 DEF WaitFails, Launched, TokenInv, SubmittingInv, EngagedInv,
      TypeOK
<1>4. EngineInv' /\ StartInv'
    BY <1>1 DEF WaitFails, Launched, EngineInv, StartInv, TypeOK, TokenInv,
      EngagedInv
<1>5. LaunchesAreLicensed' /\ AuditExplainsLaunches' /\ StatusIsEarned'
    BY <1>1 DEF WaitFails, Launched, LaunchesAreLicensed,
      AuditExplainsLaunches, StatusIsEarned, TypeOK, TokenInv, EngagedInv,
      EngineInv, StartInv
<1>. QED  BY <1>2, <1>3, <1>4, <1>5

\* After the engine.

LEMMA ReportStep ==
  ASSUME IInv, Report
  PROVE  IInv'
<1>1. /\ Target \in Request /\ tracked[Target] # None /\ batch # <<>>
      /\ Tail(batch) \in Seq(Decision) /\ Current.token.nonce \in Nonce
  BY FirstDecision DEF TypeOK, EngagedInv, Report
<1>2. worker.outcome = "completed" =>
        /\ starts[Target] = 1
        /\ \E l \in launched : l.request = Target /\ l.token = Current.token
  BY DEF EngineInv, StartInv, Report
<1>3. /\ tracked' \in [Request -> TrackedRequest \cup {None}]
      /\ \A r \in Request :
           /\ tracked'[r] = None <=> tracked[r] = None
           /\ tracked'[r] # None /\ tracked'[r].status = "Approved" =>
                tracked'[r] = tracked[r] \/ starts[r] = 1
  BY <1>1, <1>2, UpdateStatusType DEF Report, TypeOK, RequestStatus, Verdict
<1>4. rows' \subseteq AuditRow
  BY <1>1, FirstDecision DEF Report, Record, TypeOK, AuditRow, AuditEventType
<1>5. TypeOK'
    BY <1>1, <1>2, <1>3, <1>4, AtType, AgentAssumption DEF Report,
      NextDecision, Record, TypeOK
<1>6. TokenInv' /\ SubmittingInv' /\ EngagedInv'
    BY <1>1, <1>2, <1>3, <1>4, AtType DEF Report, At, NextDecision, Record,
      TokenInv, SubmittingInv, EngagedInv, TypeOK
<1>7. EngineInv' /\ StartInv'
    BY <1>1, <1>2, <1>3, <1>4, AtType DEF Report, At, NextDecision, Record,
      Launched, EngineInv, StartInv, TypeOK, TokenInv, EngagedInv
<1>8. LaunchesAreLicensed'
    BY <1>1, <1>2, <1>3, <1>4, AtType DEF Report, At, NextDecision, Record,
      LaunchesAreLicensed, TypeOK, TokenInv, EngagedInv, EngineInv, StartInv
<1>9. AuditExplainsLaunches'
    BY <1>1, <1>2, <1>3, <1>4, AtType DEF Report, At, NextDecision, Record,
      AuditExplainsLaunches, TypeOK, TokenInv, EngagedInv, EngineInv, StartInv
<1>10. StatusIsEarned'
    BY <1>1, <1>2, <1>3, <1>4, AtType DEF Report, At, NextDecision, Record,
      StatusIsEarned, TypeOK, TokenInv, EngagedInv, EngineInv, StartInv
<1>. QED  BY <1>5, <1>6, <1>7, <1>8, <1>9, <1>10

LEMMA ReportUnloggedStep ==
  ASSUME IInv, ReportUnlogged
  PROVE  IInv'
<1>1. /\ Target \in Request /\ tracked[Target] # None /\ batch # <<>>
      /\ Tail(batch) \in Seq(Decision) /\ Current.token.nonce \in Nonce
  BY FirstDecision DEF TypeOK, EngagedInv, ReportUnlogged
<1>2. worker.outcome = "completed" =>
        /\ starts[Target] = 1
        /\ \E l \in launched : l.request = Target /\ l.token = Current.token
  BY DEF EngineInv, StartInv, ReportUnlogged
<1>3. /\ tracked' \in [Request -> TrackedRequest \cup {None}]
      /\ \A r \in Request :
           /\ tracked'[r] = None <=> tracked[r] = None
           /\ tracked'[r] # None /\ tracked'[r].status = "Approved" =>
                tracked'[r] = tracked[r] \/ starts[r] = 1
  BY <1>1, <1>2, UpdateStatusType DEF ReportUnlogged, TypeOK, RequestStatus, Verdict
<1>4. TypeOK'
    BY <1>1, <1>2, <1>3, AtType, NoDecisions, AgentAssumption DEF ReportUnlogged,
      TypeOK
<1>5. TokenInv' /\ SubmittingInv' /\ EngagedInv'
    BY <1>1, <1>2, <1>3, AtType, NoDecisions DEF ReportUnlogged, At, TokenInv,
      SubmittingInv, EngagedInv, TypeOK
<1>6. EngineInv' /\ StartInv'
    BY <1>1, <1>2, <1>3, AtType, NoDecisions DEF ReportUnlogged, At, Launched,
      EngineInv, StartInv, TypeOK, TokenInv, EngagedInv
<1>7. LaunchesAreLicensed' /\ AuditExplainsLaunches' /\ StatusIsEarned'
    BY <1>1, <1>2, <1>3, AtType, NoDecisions DEF ReportUnlogged, At,
      LaunchesAreLicensed, AuditExplainsLaunches, StatusIsEarned, TypeOK,
      TokenInv, EngagedInv, EngineInv, StartInv
<1>. QED  BY <1>4, <1>5, <1>6, <1>7

-----------------------------------------------------------------------------
\* The invariant holds in every reachable state.

LEMMA InitIInv == Init => IInv
<1>. SUFFICES ASSUME Init  PROVE IInv
  OBVIOUS
<1>1. TypeOK
  BY AtType, NoDecisions DEF Init, TypeOK
<1>2. TokenInv /\ SubmittingInv /\ EngagedInv /\ EngineInv
  BY DEF Init, At, TokenInv, SubmittingInv, EngagedInv, EngineInv
<1>3. StartInv /\ LaunchesAreLicensed /\ AuditExplainsLaunches /\ StatusIsEarned
  BY DEF Init, StartInv, LaunchesAreLicensed, AuditExplainsLaunches, StatusIsEarned
<1>. QED  BY <1>1, <1>2, <1>3

LEMMA AnswersAreDecisions ==
  ASSUME TypeOK, NEW s \in Answers
  PROVE  s \in Seq(Decision)
<1>. DEFINE Any ==
       [request : Request \cup {Stranger}, status : {"Approved"},
        token : issued \cup Garbled \cup {None}]
       \cup
       [request : Request \cup {Stranger}, status : {"Denied", "Expired"}, token : {None}]
<1>1. Any \subseteq Decision
  BY AgentAssumption DEF TypeOK, Decision
<1>2. PICK n \in 0 .. MaxBatch : s \in [1 .. n -> Any]
  BY DEF Answers
<1>3. n \in Nat /\ s \in [1 .. n -> Decision]
  BY <1>1, <1>2, AgentAssumption
<1>. QED  BY <1>3, SeqDef

LEMMA UnchangedStep ==
  ASSUME IInv, UNCHANGED vars
  PROVE  IInv'
<1>1. TypeOK' /\ TokenInv' /\ SubmittingInv' /\ EngagedInv'
  BY DEF vars, TypeOK, TokenInv, SubmittingInv, EngagedInv
<1>2. EngineInv' /\ StartInv'
  BY DEF vars, EngineInv, StartInv, Launched
<1>3. LaunchesAreLicensed' /\ AuditExplainsLaunches' /\ StatusIsEarned'
  BY DEF vars, LaunchesAreLicensed, AuditExplainsLaunches, StatusIsEarned
<1>. QED  BY <1>1, <1>2, <1>3

LEMMA NextIInv == IInv /\ [Next]_vars => IInv'
<1>. SUFFICES ASSUME IInv, [Next]_vars  PROVE IInv'
  OBVIOUS
<1>1. CASE Surroundings
  BY <1>1, TickStep, ReplaceStep, SubmitElsewhereStep, FileRequestStep, SignStep
  DEF Surroundings
<1>2. CASE StartService \/ StopService \/ BeginPolling
  BY <1>2, StartServiceStep, StopServiceStep, BeginPollingStep
<1>3. CASE Pipe
  BY <1>3, SubmitStep, SubmitSucceedsStep, SubmitFailsStep DEF Pipe
<1>4. ASSUME NEW s \in Answers, PollAnswer(s)  PROVE IInv'
  BY <1>4, AnswersAreDecisions, PollAnswerStep
<1>5. CASE Engine
  BY <1>5, MissFileStep, HashFileStep, VetTokenStep, RejectTokenStep,
     ConsumeNonceStep, RejectReplayStep, StartProcessStep, StartFailsStep,
     ProcessExitsStep, WaitFailsStep
  DEF Engine
<1>6. CASE Handling
  BY <1>5, <1>6, SkipUnknownStep, TakeRefusalStep, TakeTokenlessStep,
     TakeApprovalStep, ReportStep, ReportUnloggedStep, AbortCycleStep, EndCycleStep
  DEF Handling
<1>7. CASE UNCHANGED vars
  BY <1>7, UnchangedStep
<1>. QED  BY <1>1, <1>2, <1>3, <1>4, <1>6, <1>7 DEF Next

LEMMA Invariance == Spec => []IInv
BY InitIInv, NextIInv, PTL DEF Spec

-----------------------------------------------------------------------------
\* What the agent guarantees.

\* Every variable keeps its type, whatever the network answers.
THEOREM TypeCorrect == Spec => []TypeOK
<1>1. IInv => TypeOK
  OBVIOUS
<1>. QED  BY <1>1, Invariance, PTL

\* Nothing is ever started without a token the backend signed for this device,
\* this request and this content, which was unexpired when vetted and is
\* spent by then; the content is the one the agent submitted.
THEOREM OnlyLicensedLaunches == Spec => []LaunchesAreLicensed
<1>1. IInv => LaunchesAreLicensed
  OBVIOUS
<1>. QED  BY <1>1, Invariance, PTL

\* One approval starts at most one process, over redelivered decisions,
\* aborted cycles and restarts.
THEOREM AtMostOneRun == Spec => []OneRunPerApproval
<1>1. IInv => OneRunPerApproval
  <2>. SUFFICES ASSUME IInv, NEW r \in Request  PROVE starts[r] <= 1
    BY DEF OneRunPerApproval
  <2>1. starts[r] = 0 \/ starts[r] = 1
    BY DEF StartInv
  <2>. QED  BY <2>1
<1>. QED  BY <1>1, Invariance, PTL

\* The local audit log explains every process that was started and reports no
\* completion of something that did not run.
THEOREM AuditIsComplete == Spec => []AuditExplainsLaunches
<1>1. IInv => AuditExplainsLaunches
  OBVIOUS
<1>. QED  BY <1>1, Invariance, PTL

\* "Approved" is shown only for a request whose file has run to its end.
THEOREM StatusTruthful == Spec => []StatusIsEarned
<1>1. IInv => StatusIsEarned
  OBVIOUS
<1>. QED  BY <1>1, Invariance, PTL

\* The agent implements a licence to run one file once: signing a token is the
\* grant, starting the process is the run, and no other step is visible.
THEOREM ImplementsLicence == Spec => RefinesLicence
<1>. DEFINE granted == {t.request : t \in issued}
<1>1. Init => L!Init
  BY DEF Init, L!Init
<1>2. ASSUME IInv, [Next]_vars  PROVE [L!Next]_(L!vars)
  <2>. USE <1>2
  <2>1. ASSUME NEW r \in Request, NEW n \in Nonce, Sign(r, n)  PROVE L!Grant(r)
    <3>. DEFINE new == [request |-> r, device |-> sent[r].device, hash |-> sent[r].hash,
                        nonce |-> n, expiresAt |-> now + TokenTTL]
    <3>1. issued' = issued \cup {new} /\ new.request = r /\ UNCHANGED starts
      BY <2>1 DEF Sign
    <3>2. r \notin granted
      BY <2>1 DEF Sign
    <3>3. granted' = granted \cup {r}
      <4>. HIDE DEF new
      <4>. QED  BY <3>1
    <3>. QED  BY <3>1, <3>2, <3>3 DEF L!Grant
  <2>2. ASSUME StartProcess  PROVE L!Run(Target) /\ Target \in Request
    <3>1. Target \in Request /\ Target \in granted /\ starts[Target] = 0
      BY <2>2 DEF StartProcess, EngagedInv, EngineInv
    <3>2. starts' = [starts EXCEPT ![Target] = 1] /\ UNCHANGED granted
      BY <2>2, <3>1 DEF StartProcess, TypeOK
    <3>. QED  BY <3>1, <3>2 DEF L!Run
  <2>3. CASE UNCHANGED <<issued, starts>>
    BY <2>3 DEF L!vars
  <2>4. \/ \E r \in Request, n \in Nonce : Sign(r, n)
        \/ StartProcess
        \/ UNCHANGED <<issued, starts>>
    BY DEF Next, Surroundings, Pipe, Handling, Engine, Tick, Replace,
       SubmitElsewhere, FileRequest, StartService, StopService, Submit,
       SubmitSucceeds, SubmitFails, BeginPolling, PollAnswer, EndCycle,
       AbortCycle, SkipUnknown, TakeRefusal, TakeTokenless, TakeApproval,
       MissFile, HashFile, VetToken, RejectToken, ConsumeNonce, RejectReplay,
       StartFails, ProcessExits, WaitFails, Report, ReportUnlogged, vars
  <2>. QED  BY <2>1, <2>2, <2>3, <2>4 DEF L!Next
<1>. QED  BY <1>1, <1>2, Invariance, PTL DEF Spec, RefinesLicence, L!Spec

=============================================================================
