-------------------------------- MODULE Agent --------------------------------
(***************************************************************************)
(* The endpoint agent of one device: the requests it submits               *)
(* (RequestCoordinator, RequestStateStore), the worker that polls for      *)
(* decisions and carries them out (ApprovalPollingWorker), the engine that *)
(* starts processes (ExecutionEngine, ApprovalTokenValidator) and the two  *)
(* SQLite files that survive a restart (SqliteNonceStore, SqliteAuditLog). *)
(*                                                                         *)
(* The pipe server and the worker run concurrently; each of their steps    *)
(* ends at an await. The service may end at any step, by a crash or by a   *)
(* stop whose cancellation surfaces at the next await: what is in memory   *)
(* is gone, what is in SQLite and the processes it started stay.           *)
(*                                                                         *)
(* The backend is external here: it files what reaches it, signs at most   *)
(* one token per request, and a poll may answer anything at all. Module    *)
(* ElevateGate puts the backend's own answers in its place.                *)
(***************************************************************************)
EXTENDS Naturals, Sequences

CONSTANTS
  Request,    \* request ids, those the agent makes and those of other devices
  Stranger,   \* an id that is not in the form the agent makes
  File,       \* canonical paths
  Hash,       \* SHA-256 values
  Nonce,
  Device,     \* device ids
  Here,       \* the id in this agent's credential
  TokenTTL,   \* approval_ttl_seconds
  Garbled,    \* tokens the backend did not sign
  MaxBatch,   \* bound on the decisions in one answer
  MaxTime,    \* bound on the clock
  None        \* null

RequestStatus == {"Pending", "Approved", "Denied", "Expired", "Failed"}

TrackedRequest == [file : File, status : RequestStatus]

Submission == [device : Device, hash : Hash]

Token ==
  [request : Request, device : Device, hash : Hash, nonce : Nonce, expiresAt : Nat]

ASSUME AgentAssumption ==
  /\ TokenTTL \in Nat /\ MaxBatch \in Nat /\ MaxTime \in Nat
  /\ Here \in Device
  /\ Garbled \subseteq Token
  /\ Stranger \notin Request
  /\ None \notin Nat \cup Request \cup Hash \cup Nonce
  /\ None \notin RequestStatus \cup TrackedRequest \cup Submission \cup Token

VARIABLES
  now,       \* the clock
  content,   \* content[f]: the hash of a file that passes the path checks, or None
  sent,      \* sent[r]: the body of the POST that submitted r, or None
  filed,     \* the requests the backend has a row for
  issued,    \* the tokens the backend signed
  up,        \* the service process runs
  tracked,   \* RequestStateStore: tracked[r] is None or its TrackedRequest
  submitting,\* the request whose POST the pipe server awaits, or None
  worker,    \* ApprovalPollingWorker and the engine call it awaits
  batch,     \* the decisions of this cycle it has not dealt with
  spent,     \* SqliteNonceStore: the nonces consumed
  rows,      \* SqliteAuditLog: the rows about decisions
  starts,    \* starts[r]: how many processes were started for r
  launched   \* what was started, and on whose authority

disk == <<spent, rows>>
world == <<content, starts, launched>>
backend == <<sent, filed, issued>>
vars == <<now, world, backend, up, tracked, submitting, worker, batch, disk>>

-----------------------------------------------------------------------------
Decision ==
  [request : Request \cup {Stranger}, status : {"Approved", "Denied", "Expired"},
   token : Token \cup {None}]

\* "off": GetOrCreateAsync has not returned; "idle": waiting for the timer;
\* "handling": in the foreach over the batch. The other values are positions
\* in HandleApprovedAsync for the first decision of the batch.
WorkerPC ==
  {"off", "idle", "handling", "accepted", "hashed", "vetted", "cleared",
   "running", "returned"}

Outcome == {"completed", "replayed", "failed"}

Worker ==
  [pc : WorkerPC, hash : Hash \cup {None}, vettedAt : Nat \cup {None},
   outcome : Outcome \cup {None}]

AuditEventType ==
  {"DecisionReceived", "ValidationRejected", "ExecutionCompleted", "ExecutionFailed"}

AuditRow ==
  [event : AuditEventType, request : Request, nonce : Nonce \cup {None}]

Launch == [request : Request, token : Token, hash : Hash, vettedAt : Nat]

TypeOK ==
  /\ now \in Nat
  /\ content \in [File -> Hash \cup {None}]
  /\ sent \in [Request -> Submission \cup {None}]
  /\ filed \subseteq Request
  /\ issued \subseteq Token
  /\ up \in BOOLEAN
  /\ tracked \in [Request -> TrackedRequest \cup {None}]
  /\ submitting \in Request \cup {None}
  /\ worker \in Worker
  /\ batch \in Seq(Decision)
  /\ spent \subseteq Nonce
  /\ rows \subseteq AuditRow
  /\ starts \in [Request -> Nat]
  /\ launched \subseteq Launch

At(pc) == [pc |-> pc, hash |-> None, vettedAt |-> None, outcome |-> None]

Init ==
  /\ now = 0
  /\ content \in [File -> Hash \cup {None}]
  /\ sent = [r \in Request |-> None]
  /\ filed = {}
  /\ issued = {}
  /\ up = FALSE
  /\ tracked = [r \in Request |-> None]
  /\ submitting = None
  /\ worker = At("off")
  /\ batch = <<>>
  /\ spent = {}
  /\ rows = {}
  /\ starts = [r \in Request |-> 0]
  /\ launched = {}

-----------------------------------------------------------------------------
\* The world around the agent.

Tick ==
  /\ now < MaxTime
  /\ now' = now + 1
  /\ UNCHANGED <<world, backend, up, tracked, submitting, worker, batch, disk>>

\* A file is downloaded, updated, removed, or its drive is.
Replace(f, h) ==
  /\ content[f] # h
  /\ content' = [content EXCEPT ![f] = h]
  /\ UNCHANGED <<now, starts, launched, backend, up, tracked, submitting, worker,
                 batch, disk>>

\* Another device submits a request of its own.
SubmitElsewhere(r, d, h) ==
  /\ sent[r] = None
  /\ d # Here
  /\ sent' = [sent EXCEPT ![r] = [device |-> d, hash |-> h]]
  /\ UNCHANGED <<now, world, filed, issued, up, tracked, submitting, worker,
                 batch, disk>>

\* A submission reaches the backend, perhaps after its sender has given up.
FileRequest(r) ==
  /\ sent[r] # None
  /\ r \notin filed
  /\ filed' = filed \cup {r}
  /\ UNCHANGED <<now, world, sent, issued, up, tracked, submitting, worker,
                 batch, disk>>

\* The backend approves the request and signs its token: at most one token
\* per request and per nonce (ElevationRequests, ApprovalsMatchVerdicts).
Sign(r, n) ==
  /\ r \in filed
  /\ \A t \in issued : t.request # r /\ t.nonce # n
  /\ issued' = issued \cup
       {[request |-> r, device |-> sent[r].device, hash |-> sent[r].hash,
         nonce |-> n, expiresAt |-> now + TokenTTL]}
  /\ UNCHANGED <<now, world, sent, filed, up, tracked, submitting, worker,
                 batch, disk>>

-----------------------------------------------------------------------------
\* The service process.

StartService ==
  /\ ~up
  /\ up' = TRUE
  /\ UNCHANGED <<now, world, backend, tracked, submitting, worker, batch, disk>>

\* The process ends at any point. A child it was waiting for runs on.
StopService ==
  /\ up
  /\ up' = FALSE
  /\ tracked' = [r \in Request |-> None]
  /\ submitting' = None
  /\ worker' = At("off")
  /\ batch' = <<>>
  /\ UNCHANGED <<now, world, backend, disk>>

-----------------------------------------------------------------------------
\* RequestStateStore and SqliteAuditLog.

Known(id) == id \in Request /\ tracked[id] # None

UpdateStatus(id, status) ==
  tracked' = [tracked EXCEPT ![id] = [@ EXCEPT !.status = status]]

Record(event, id, nonce) ==
  rows' = rows \cup {[event |-> event, request |-> id, nonce |-> nonce]}

-----------------------------------------------------------------------------
\* RequestCoordinator.SubmitAsync, called by the pipe server, which serves
\* one connection at a time. A path the checks refuse gets no id and leaves
\* nothing here.

\* The file is hashed, the request gets a new id, is tracked and posted.
Submit(r, f) ==
  /\ up
  /\ submitting = None
  /\ sent[r] = None
  /\ content[f] # None
  /\ tracked' = [tracked EXCEPT ![r] = [file |-> f, status |-> "Pending"]]
  /\ sent' = [sent EXCEPT ![r] = [device |-> Here, hash |-> content[f]]]
  /\ submitting' = r
  /\ UNCHANGED <<now, world, filed, issued, up, worker, batch, disk>>

\* The backend's 201 arrives.
SubmitSucceeds ==
  /\ submitting \in filed
  /\ submitting' = None
  /\ UNCHANGED <<now, world, backend, up, tracked, worker, batch, disk>>

\* Refused, unreachable or timed out: the backend may have filed it all the
\* same, or may do so later.
SubmitFails ==
  /\ submitting # None
  /\ UpdateStatus(submitting, "Failed")
  /\ submitting' = None
  /\ UNCHANGED <<now, world, backend, up, worker, batch, disk>>

-----------------------------------------------------------------------------
\* ApprovalPollingWorker: the cycle.

BeginPolling ==
  /\ up
  /\ worker.pc = "off"
  /\ worker' = At("idle")
  /\ UNCHANGED <<now, world, backend, up, tracked, submitting, batch, disk>>

\* PollDecisionsAsync returns the decisions s. When it throws nothing changes.
PollAnswer(s) ==
  /\ worker.pc = "idle"
  /\ worker' = At("handling")
  /\ batch' = s
  /\ UNCHANGED <<now, world, backend, up, tracked, submitting, disk>>

\* Every decision is dealt with.
EndCycle ==
  /\ worker.pc = "handling"
  /\ batch = <<>>
  /\ worker' = At("idle")
  /\ UNCHANGED <<now, world, backend, up, tracked, submitting, batch, disk>>

\* SQLite is busy or the file is locked: the exception ends the cycle and the
\* rest of the batch is dropped.
AbortCycle ==
  /\ \/ worker.pc = "handling" /\ batch # <<>> /\ Known(Head(batch).request)
     \/ worker.pc \in {"accepted", "hashed", "vetted"}
  /\ worker' = At("idle")
  /\ batch' = <<>>
  /\ UNCHANGED <<now, world, backend, up, tracked, submitting, disk>>

-----------------------------------------------------------------------------
\* HandleDecisionAsync for the first decision of the batch.

Current == Head(batch)
Target == Current.request

NextDecision ==
  /\ worker' = At("handling")
  /\ batch' = Tail(batch)

SkipUnknown ==
  /\ worker.pc = "handling"
  /\ batch # <<>>
  /\ ~Known(Target)
  /\ NextDecision
  /\ UNCHANGED <<now, world, backend, up, tracked, submitting, disk>>

TakeRefusal ==
  /\ worker.pc = "handling"
  /\ batch # <<>>
  /\ Known(Target)
  /\ Current.status \in {"Denied", "Expired"}
  /\ Record("DecisionReceived", Target, None)
  /\ UpdateStatus(Target, Current.status)
  /\ NextDecision
  /\ UNCHANGED <<now, world, backend, up, submitting, spent>>

TakeTokenless ==
  /\ worker.pc = "handling"
  /\ batch # <<>>
  /\ Known(Target)
  /\ Current.status = "Approved"
  /\ Current.token = None
  /\ Record("DecisionReceived", Target, None)
  /\ UpdateStatus(Target, "Failed")
  /\ NextDecision
  /\ UNCHANGED <<now, world, backend, up, submitting, spent>>

\* A plausible slip: the decision is recorded together with its outcome.
TakeUnlogged ==
  /\ worker.pc = "handling"
  /\ batch # <<>>
  /\ Known(Target)
  /\ Current.status = "Approved"
  /\ Current.token # None
  /\ worker' = At("accepted")
  /\ UNCHANGED <<now, world, backend, up, tracked, submitting, batch, disk>>

TakeApproval ==
  /\ worker.pc = "handling"
  /\ batch # <<>>
  /\ Known(Target)
  /\ Current.status = "Approved"
  /\ Current.token # None
  /\ Record("DecisionReceived", Target, Current.token.nonce)
  /\ worker' = At("accepted")
  /\ UNCHANGED <<now, world, backend, up, tracked, submitting, batch, spent>>

-----------------------------------------------------------------------------
\* ExecutionEngine.ExecuteAsync for the decision that was accepted.

\* The engine returns: the outcome and, when it failed, why.
Return(outcome) == worker' = [worker EXCEPT !.pc = "returned", !.outcome = outcome]

MissFile ==
  /\ worker.pc = "accepted"
  /\ content[tracked[Target].file] = None
  /\ Return("failed")
  /\ UNCHANGED <<now, world, backend, up, tracked, submitting, batch, disk>>

HashFile ==
  /\ worker.pc = "accepted"
  /\ content[tracked[Target].file] # None
  /\ worker' = [worker EXCEPT !.pc = "hashed", !.hash = content[tracked[Target].file]]
  /\ UNCHANGED <<now, world, backend, up, tracked, submitting, batch, disk>>

\* ApprovalTokenValidator up to the nonce: the signature, the device, the
\* request and the expiry. A plausible slip is to trust the pairing of a
\* decision with its token.
AcceptableForAnyRequest(t) ==
  /\ t \in issued
  /\ t.device = Here
  /\ now < t.expiresAt

Acceptable(t) ==
  /\ t \in issued
  /\ t.device = Here
  /\ t.request = Target
  /\ now < t.expiresAt

VetToken ==
  /\ worker.pc = "hashed"
  /\ Acceptable(Current.token)
  /\ worker' = [worker EXCEPT !.pc = "vetted", !.vettedAt = now]
  /\ UNCHANGED <<now, world, backend, up, tracked, submitting, batch, disk>>

RejectToken ==
  /\ worker.pc = "hashed"
  /\ ~Acceptable(Current.token)
  /\ Return("failed")
  /\ UNCHANGED <<now, world, backend, up, tracked, submitting, batch, disk>>

\* A plausible slip: the nonce is looked up here and inserted only after the
\* process has run.
PeekNonce ==
  LET t == Current.token IN
  /\ worker.pc = "vetted"
  /\ t.nonce \notin spent
  /\ IF t.hash = worker.hash
       THEN worker' = [worker EXCEPT !.pc = "cleared"]
       ELSE Return("failed")
  /\ UNCHANGED <<now, world, backend, up, tracked, submitting, batch, disk>>

\* TryConsumeAsync inserts the nonce, and it stays consumed whether or not
\* the hash test that follows succeeds.
ConsumeNonce ==
  LET t == Current.token IN
  /\ worker.pc = "vetted"
  /\ t.nonce \notin spent
  /\ spent' = spent \cup {t.nonce}
  /\ IF t.hash = worker.hash
       THEN worker' = [worker EXCEPT !.pc = "cleared"]
       ELSE Return("failed")
  /\ UNCHANGED <<now, world, backend, up, tracked, submitting, batch, rows>>

RejectReplay ==
  /\ worker.pc = "vetted"
  /\ Current.token.nonce \in spent
  /\ Return("replayed")
  /\ UNCHANGED <<now, world, backend, up, tracked, submitting, batch, disk>>

\* Process.Start
Launched ==
  [request |-> Target, token |-> Current.token, hash |-> worker.hash,
   vettedAt |-> worker.vettedAt]

StartProcess ==
  /\ worker.pc = "cleared"
  /\ starts' = [starts EXCEPT ![Target] = @ + 1]
  /\ launched' = launched \cup {Launched}
  /\ worker' = [worker EXCEPT !.pc = "running"]
  /\ UNCHANGED <<now, content, backend, up, tracked, submitting, batch, disk>>

\* It throws or returns null.
StartFails ==
  /\ worker.pc = "cleared"
  /\ Return("failed")
  /\ UNCHANGED <<now, world, backend, up, tracked, submitting, batch, disk>>

\* WaitForExitAsync returns; the exit code is not looked at. An installer
\* that never exits keeps the worker here.
ProcessExits ==
  /\ worker.pc = "running"
  /\ Return("completed")
  /\ UNCHANGED <<now, world, backend, up, tracked, submitting, batch, disk>>

\* The wait is cancelled or the exit code cannot be read. The process runs on;
\* the catch that also serves Process.Start reports a failure.
WaitFails ==
  /\ worker.pc = "running"
  /\ Return("failed")
  /\ UNCHANGED <<now, world, backend, up, tracked, submitting, batch, disk>>

-----------------------------------------------------------------------------
\* HandleApprovedAsync after the engine.

\* A plausible slip: the status of the decision is shown, whatever became of
\* the execution.
VerdictOfDecision == Current.status
VerdictIsOutcome == worker.outcome

Verdict == IF worker.outcome = "completed" THEN "Approved" ELSE "Failed"

Report ==
  /\ worker.pc = "returned"
  /\ UpdateStatus(Target, Verdict)
  /\ Record(IF worker.outcome = "completed" THEN "ExecutionCompleted" ELSE "ExecutionFailed",
            Target, Current.token.nonce)
  /\ NextDecision
  /\ UNCHANGED <<now, world, backend, up, submitting, spent>>

\* The status is set, the audit insert throws and ends the cycle.
ReportUnlogged ==
  /\ worker.pc = "returned"
  /\ UpdateStatus(Target, Verdict)
  /\ worker' = At("idle")
  /\ batch' = <<>>
  /\ UNCHANGED <<now, world, backend, up, submitting, disk>>

-----------------------------------------------------------------------------
Pipe ==
  \/ \E r \in Request, f \in File : Submit(r, f)
  \/ SubmitSucceeds \/ SubmitFails

Engine ==
  \/ MissFile \/ HashFile \/ VetToken \/ RejectToken
  \/ ConsumeNonce \/ RejectReplay
  \/ StartProcess \/ StartFails \/ ProcessExits \/ WaitFails

Handling ==
  \/ SkipUnknown \/ TakeRefusal \/ TakeTokenless \/ TakeApproval
  \/ Engine
  \/ Report \/ ReportUnlogged
  \/ AbortCycle \/ EndCycle

\* Whatever the network may make of an answer: decisions about any request,
\* with tokens of any other, old ones again, or none; a refusal has no token.
Answers ==
  LET Id == Request \cup {Stranger}
      Any == [request : Id, status : {"Approved"}, token : issued \cup Garbled \cup {None}]
             \cup
             [request : Id, status : {"Denied", "Expired"}, token : {None}]
  IN UNION {[1 .. n -> Any] : n \in 0 .. MaxBatch}

Surroundings ==
  \/ Tick
  \/ \E f \in File, h \in Hash \cup {None} : Replace(f, h)
  \/ \E r \in Request, d \in Device, h \in Hash : SubmitElsewhere(r, d, h)
  \/ \E r \in Request : FileRequest(r)
  \/ \E r \in Request, n \in Nonce : Sign(r, n)

Next ==
  \/ Surroundings
  \/ StartService \/ StopService
  \/ Pipe
  \/ BeginPolling
  \/ \E s \in Answers : PollAnswer(s)
  \/ Handling

Spec == Init /\ [][Next]_vars

-----------------------------------------------------------------------------
\* Properties.

\* Every process that was ever started had a token that the backend signed for
\* this device, this very request and the content that was hashed, vetted
\* before it expired and now consumed for good; and that content is what the
\* agent itself submitted under that request. This holds whatever answers
\* arrive, files change and restarts happen (ExecutionEngine: "independently
\* re-derives and re-checks everything").
LaunchesAreLicensed ==
  \A l \in launched :
    /\ l.token \in issued
    /\ l.token.request = l.request
    /\ l.token.hash = l.hash
    /\ l.token.nonce \in spent
    /\ l.vettedAt < l.token.expiresAt
    /\ sent[l.request] = [device |-> Here, hash |-> l.hash]

\* An approval starts at most one process, over any number of redeliveries,
\* aborted cycles and restarts: "A nonce that has ever been consumed stays
\* rejected across service restarts" (SqliteNonceStore).
OneRunPerApproval == \A r \in Request : starts[r] <= 1

\* The local audit log explains every process that was started, even when the
\* service dies the moment it has started it, and never reports a completion
\* of something that did not run.
AuditExplainsLaunches ==
  /\ \A l \in launched :
       [event |-> "DecisionReceived", request |-> l.request,
        nonce |-> l.token.nonce] \in rows
  /\ \A e \in rows :
       e.event = "ExecutionCompleted" =>
         \E l \in launched : l.request = e.request /\ l.token.nonce = e.nonce

\* The tray is shown "Approved" only for a request whose file has run to its
\* end; an approval that could not be carried out is never shown as one.
StatusIsEarned ==
  \A r \in Request :
    Known(r) /\ tracked[r].status = "Approved" =>
      /\ starts[r] > 0
      /\ ~(worker.pc = "running" /\ Target = r)

\* The agent uses an approval as a licence to run one file once.
L == INSTANCE Licence WITH
  granted <- {t.request : t \in issued},
  runs <- starts

RefinesLicence == L!Spec

=============================================================================
