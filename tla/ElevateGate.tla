----------------------------- MODULE ElevateGate -----------------------------
(***************************************************************************)
(* The agent of module Agent polling its own backend. The backend answers  *)
(* with the decisions whose reviewed_at is not before the agent's sinceUtc,*)
(* a watermark of the agent's own clock; it stamps reviewed_at before it   *)
(* commits, and it names a request in its own form of the id.              *)
(*                                                                         *)
(* The review itself is reduced to its stamp and its commit; its races are *)
(* the subject of ElevationRequests. Both machines read one clock here.    *)
(***************************************************************************)
EXTENDS Agent, FiniteSets

CONSTANTS
  RequestTTL,  \* elevation_request_ttl_seconds
  Reviewed     \* requests that some administrator may act on

VARIABLES
  since,   \* ApprovalPollingWorker's sinceUtc
  row,     \* row[r]: the committed row of r, or None
  staged,  \* staged[r]: the stamped review of r that has not committed, or None
  dashed   \* the requests whose id the agent wrote with dashes

gate == <<since, row, staged, dashed>>
gateVars == <<vars, gate>>

\* at is the time of submission of a pending row, reviewed_at of another.
Row == [status : {"Pending", "Approved", "Denied", "Expired"}, at : Nat]

ASSUME GateAssumption ==
  /\ RequestTTL \in Nat
  /\ IsFiniteSet(Request)
  /\ Reviewed \subseteq Request
  /\ None \notin Row

GateTypeOK ==
  /\ TypeOK
  /\ since \in Nat
  /\ row \in [Request -> Row \cup {None}]
  /\ staged \in [Request -> Row \cup {None}]
  /\ dashed \subseteq Request

\* The agent makes its ids with ToString("N"), without dashes. That it makes
\* them in the form of the backend is allowed too: what fails in the first case
\* is due to the spelling, and what fails in both is not.
GateInit ==
  /\ Init
  /\ since = 0
  /\ row = [r \in Request |-> None]
  /\ staged = [r \in Request |-> None]
  /\ dashed \in {{}, Request}

-----------------------------------------------------------------------------
\* The backend.

Pending(r) == row[r] # None /\ row[r].status = "Pending"
Lapsed(r) == Pending(r) /\ row[r].at + RequestTTL <= now

\* The insert commits.
StoreRequest(r) ==
  /\ FileRequest(r)
  /\ row' = [row EXCEPT ![r] = [status |-> "Pending", at |-> now]]
  /\ UNCHANGED <<since, staged, dashed>>

\* An administrator's approve or deny is past its tests and has stamped
\* reviewed_at; on a lapsed request it stages the expiry instead.
StageReview(r, status) ==
  /\ r \in Reviewed
  /\ Pending(r)
  /\ staged[r] = None
  /\ staged' = [staged EXCEPT ![r] =
       [status |-> IF Lapsed(r) THEN "Expired" ELSE status, at |-> now]]
  /\ UNCHANGED <<vars, since, row, dashed>>

CommitReview(r) ==
  /\ staged[r] # None
  /\ row' = [row EXCEPT ![r] = staged[r]]
  /\ staged' = [staged EXCEPT ![r] = None]
  /\ IF staged[r].status = "Approved"
       THEN \E n \in Nonce : Sign(r, n)
       ELSE UNCHANGED vars
  /\ UNCHANGED <<since, dashed>>

RollbackReview(r) ==
  /\ staged[r] # None
  /\ staged' = [staged EXCEPT ![r] = None]
  /\ UNCHANGED <<vars, since, row, dashed>>

\* expire_stale_pending_requests_for_device; it waits for the locks of the
\* rows it would update.
Lapsing == {r \in Request : Lapsed(r)}

AfterExpiry ==
  [r \in Request |-> IF r \in Lapsing THEN [status |-> "Expired", at |-> now] ELSE row[r]]

\* A plausible slip: the expiry is answered but not committed.
ExpireUncommitted ==
  /\ \A r \in Lapsing : staged[r] = None
  /\ UNCHANGED row

ExpireLapsed ==
  /\ \A r \in Lapsing : staged[r] = None
  /\ row' = AfterExpiry

\* An id is read into a uuid.UUID and written with dashes; the agent, which
\* compares text, knows it again only if it had them.
WireId(r) == IF r \in dashed THEN r ELSE Stranger

\* The decision on r as the agent reads it.
Answered(r) ==
  [request |-> WireId(r), status |-> AfterExpiry[r].status,
   token |-> IF AfterExpiry[r].status = "Approved"
               THEN CHOOSE t \in issued : t.request = r
               ELSE None]

DecidedSince ==
  {r \in Request : /\ AfterExpiry[r] # None
                   /\ AfterExpiry[r].status # "Pending"
                   /\ AfterExpiry[r].at >= since}

\* order_by(reviewed_at)
Ordered(R) ==
  {s \in [1 .. Cardinality(R) -> R] :
     \A i, j \in DOMAIN s : i < j => s[i] # s[j] /\ AfterExpiry[s[i]].at <= AfterExpiry[s[j]].at}

-----------------------------------------------------------------------------
\* The poll.

\* The answer arrives.
Poll ==
  /\ ExpireLapsed
  /\ \E s \in Ordered(DecidedSince) : PollAnswer([i \in DOMAIN s |-> Answered(s[i])])
  /\ UNCHANGED <<since, staged, dashed>>

\* The answer is lost: the agent's call throws, what has expired has expired.
PollLost ==
  /\ up
  /\ worker.pc = "idle"
  /\ ExpireLapsed
  /\ UNCHANGED <<vars, since, staged, dashed>>

\* sinceUtc = UtcNow, read before the first poll and after every cycle that
\* went through.
BeginWatermark == BeginPolling /\ since' = now /\ UNCHANGED <<row, staged, dashed>>

\* A plausible slip: sinceUtc is moved although the cycle was cut short.
AbortAndAdvance == AbortCycle /\ since' = now /\ UNCHANGED <<row, staged, dashed>>

AbortAndKeep == AbortCycle /\ UNCHANGED gate

AdvanceWatermark == EndCycle /\ since' = now /\ UNCHANGED <<row, staged, dashed>>

LoseWatermark == StopService /\ since' = 0 /\ UNCHANGED <<row, staged, dashed>>

-----------------------------------------------------------------------------
HandlingSteps ==
  \/ SkipUnknown \/ TakeRefusal \/ TakeTokenless \/ TakeApproval
  \/ Engine
  \/ Report

BackendStep(r) ==
  \/ StoreRequest(r)
  \/ \E status \in {"Approved", "Denied"} : StageReview(r, status)
  \/ CommitReview(r) \/ RollbackReview(r)

GateNext ==
  \/ (Tick \/ StartService \/ Pipe) /\ UNCHANGED gate
  \/ \E f \in File, h \in Hash \cup {None} : Replace(f, h) /\ UNCHANGED gate
  \/ \E r \in Request : BackendStep(r)
  \/ Poll \/ PollLost
  \/ BeginWatermark \/ AdvanceWatermark \/ LoseWatermark
  \/ (HandlingSteps \/ ReportUnlogged) /\ UNCHANGED gate
  \/ AbortAndKeep

GateSpec == GateInit /\ [][GateNext]_gateVars

\* Time passes, reviews end, the service polls on its timer and works through
\* what it got; installers exit. A poll that waits for a row lock is served in
\* turn. Polls are lost and cycles fail, but not for ever. Nothing is assumed
\* of users, of administrators and of the service staying up.
GateFairness ==
  /\ WF_gateVars(Tick /\ UNCHANGED gate)
  /\ \A r \in Request : WF_gateVars(CommitReview(r) \/ RollbackReview(r))
  /\ WF_gateVars(BeginWatermark)
  /\ SF_gateVars(Poll)
  /\ WF_gateVars(AdvanceWatermark)
  /\ WF_gateVars(HandlingSteps /\ UNCHANGED gate)
  /\ <>[][~PollLost /\ ~AbortCycle /\ ~ReportUnlogged]_gateVars

FairGateSpec == GateSpec /\ GateFairness

-----------------------------------------------------------------------------
\* Properties.

\* What the tray can be shown about a request, except that something failed,
\* is what the backend has decided about it, for good.
ShownVerdictIsBackends ==
  \A r \in Request :
    Known(r) /\ tracked[r].status \in {"Approved", "Denied", "Expired"} =>
      row[r] # None /\ row[r].status = tracked[r].status

\* Agent and backend together promise what Elevation says: their messages, tokens,
\* polls and restarts add nothing to it and lose nothing of it.
VerdictOn ==
  [Pending |-> "pending", Approved |-> "approved", Denied |-> "denied", Expired |-> "expired"]

Standing(r) == IF row[r] = None THEN "absent" ELSE VerdictOn[row[r].status]

TokenOf(r) ==
  IF \E t \in issued : t.request = r
    THEN (CHOOSE t \in issued : t.request = r).nonce
    ELSE None

Subject(r) == IF sent[r] = None THEN None ELSE sent[r].hash

Shown(r) == IF tracked[r] = None THEN None ELSE tracked[r].status

E == INSTANCE Elevation WITH
  verdict <- [r \in Request |-> Standing(r)],
  token <- [r \in Request |-> TokenOf(r)],
  subject <- [r \in Request |-> Subject(r)],
  runs <- starts,
  ran <- {<<l.request, l.hash>> : l \in launched},
  shown <- [r \in Request |-> Shown(r)]

RefinesElevation == E!ElevationSpec

Waiting(r) ==
  Known(r) /\ tracked[r].status = "Pending" /\ row[r] # None

\* The agent's watermark never passes a decision that only its own poll makes,
\* on a request it would know again: while the tray waits, an expiry is in the
\* next answer, or in the one the worker goes through, whatever is lost, cut
\* short or submitted meanwhile.
NoExpiryIsMissed ==
  \A r \in Request \ Reviewed :
    (r \in dashed /\ Waiting(r) /\ row[r].status = "Expired") =>
      /\ row[r].at >= since
      /\ worker.pc \in {"off", "idle"} \/ \E i \in DOMAIN batch : batch[i].request = r

\* The expiry of r in the answer that the worker goes through, by the name the
\* backend gives r.
HandedOver(r) ==
  /\ row[r].status = "Expired"
  /\ \E i \in DOMAIN batch :
       batch[i].request = WireId(r) /\ batch[i].status = "Expired"

\* "a request nobody ever reviewed still eventually surfaces as expired"
\* (docs/API_CONTRACT.md), however many answers are lost and cycles cut short,
\* unless the service restarts and forgets the request. To the tray it surfaces
\* only if the agent knows its id again. With ids as the code makes them the
\* backend settles it and hands the expiry over, under a name that the worker
\* skips, and nothing more is promised.
UnreviewedRequestSurfaces ==
  \A r \in Request \ Reviewed :
    (Waiting(r) /\ Pending(r) /\ row[r].at + RequestTTL <= MaxTime) ~>
      ~Waiting(r) \/ (r \notin dashed /\ HandedOver(r))

\* "Repeat with a denial and confirm the tray shows "Denied"": a decision made
\* while the worker is polling, on a request that is waited for, reaches the
\* tray in the end. The code does not keep it, even with ids that it would know
\* again: a decision stamped after the backend answered a poll and before the
\* agent moved its watermark is in no later answer.
DecisionReachesTray ==
  \A r \in Request :
    (/\ r \in dashed /\ Waiting(r) /\ row[r].status # "Pending"
     /\ worker.pc # "off" /\ row[r].at >= since) ~> ~Waiting(r)

\* "The requestId the agent supplies is preserved verbatim [...] whatever id
\* it used to submit is the only id it will later recognize" (API_CONTRACT.md).
\* The code does not keep it: ToString("N") makes 32 digits, and the backend's
\* UUID fields are written with dashes.
DecisionsNameOurRequests ==
  \A i \in DOMAIN batch : batch[i].request \in Request

=============================================================================
