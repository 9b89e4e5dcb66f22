-------------------------------- MODULE Tray --------------------------------
(***************************************************************************)
(* What the user sees: one request form of the tray, its poll timer, the   *)
(* named pipe behind it and the service's pipe server, which serves one    *)
(* connection at a time. The form's handlers are async: they run on one    *)
(* thread, but others run while they await the pipe, the next tick of the  *)
(* timer among them.                                                       *)
(***************************************************************************)
EXTENDS Naturals

CONSTANTS
  Request,  \* the request ids that may be drawn
  Call,     \* bound on the form's calls through the pipe that overlap
  Other,    \* another form that uses the pipe
  Outcome,  \* what a decision may come to: the form treats them alike
  None

Terminal == Outcome \cup {"Failed"}
Status == {"Pending"} \cup Terminal

VARIABLES
  up,         \* the service runs
  listening,  \* the loop of its pipe server runs
  serving,    \* whose connection it handles
  status,     \* RequestStateStore
  drawn,      \* ids that were ever drawn
  call,       \* call[c]: one of the form's calls through the pipe
  requestId,  \* _requestId
  timer,      \* _pollTimer runs
  enabled,    \* the form accepts a submission
  had,        \* history: the outcomes that the service ever had on record
  told,       \* history: the outcomes announced since the form got its request
  crossed     \* history: it got it while a check of another was under way

service == <<up, listening, serving, status, drawn, had>>
form == <<requestId, timer, enabled, told, crossed>>
vars == <<service, call, form>>

\* answer: a status, or None for an error message or an exception.
PipeCall ==
  [type : {"SubmitRequest", "GetStatus"}, request : Request \cup {None},
   phase : {"connecting", "asked", "tracked", "answered"}, answer : Status \cup {None}]

ASSUME TrayAssumption ==
  /\ Other \notin Call
  /\ None \notin Request \cup Call \cup {Other}
  /\ None \notin Status \cup PipeCall
  /\ Outcome \subseteq {"Approved", "Denied", "Expired"}

TypeOK ==
  /\ up \in BOOLEAN
  /\ listening \in BOOLEAN
  /\ serving \in Call \cup {Other, None}
  /\ status \in [Request -> Status \cup {None}]
  /\ drawn \subseteq Request
  /\ call \in [Call -> PipeCall \cup {None}]
  /\ requestId \in Request \cup {None}
  /\ timer \in BOOLEAN
  /\ timer => requestId # None
  /\ enabled \in BOOLEAN
  /\ had \in [Request -> SUBSET Terminal]
  /\ told \subseteq Terminal
  /\ crossed \in BOOLEAN

Init ==
  /\ up = FALSE
  /\ listening = FALSE
  /\ serving = None
  /\ status = [r \in Request |-> None]
  /\ drawn = {}
  /\ call = [c \in Call |-> None]
  /\ requestId = None
  /\ timer = FALSE
  /\ enabled = TRUE
  /\ had = [r \in Request |-> {}]
  /\ told = {}
  /\ crossed = FALSE

In(c, type, phase) == call[c] # None /\ call[c].type = type /\ call[c].phase = phase

Begin(c, type, r) ==
  call' = [call EXCEPT ![c] =
    [type |-> type, request |-> r, phase |-> "connecting", answer |-> None]]

Answered(x, r, s) == [x EXCEPT !.phase = "answered", !.request = r, !.answer = s]

-----------------------------------------------------------------------------
(* PipeClient.SendAsync: connect, for 5 s at most, and wait for the answer. *)

Free == up /\ listening /\ serving = None

Accept(c) ==
  /\ call[c] # None
  /\ call[c].phase = "connecting"
  /\ Free
  /\ serving' = c
  /\ call' = [call EXCEPT ![c].phase = "asked"]
  /\ UNCHANGED <<up, listening, status, drawn, had, form>>

Fails(c) == call' = [call EXCEPT ![c] = Answered(call[c], call[c].request, None)]

\* A plausible slip: no limit on the wait for a pipe that nobody serves.
WaitForPipe(c) ==
  /\ call[c] # None
  /\ call[c].phase = "connecting"
  /\ serving # None
  /\ Fails(c)
  /\ UNCHANGED <<service, form>>

ConnectTimesOut(c) ==
  /\ call[c] # None
  /\ call[c].phase = "connecting"
  /\ ~Free
  /\ Fails(c)
  /\ UNCHANGED <<service, form>>

-----------------------------------------------------------------------------
(* The service. *)

StartService ==
  /\ ~up
  /\ up' = TRUE
  /\ listening' = TRUE
  /\ UNCHANGED <<serving, status, drawn, had, call, form>>

\* A stop, a crash, or an exception that the pipe server does not expect, such
\* as a failing audit log: connections break and no request is known any more.
StopService ==
  /\ up
  /\ up' = FALSE
  /\ listening' = FALSE
  /\ serving' = None
  /\ status' = [r \in Request |-> None]
  /\ call' = [c \in Call |->
       IF call[c] # None /\ call[c].phase \in {"asked", "tracked"}
         THEN Answered(call[c], call[c].request, None) ELSE call[c]]
  /\ UNCHANGED <<drawn, had, form>>

\* A tracked request was given a credential, and the service keeps it: from then
\* on nothing enrolls.
MayEnroll == \A r \in Request : status[r] = None

\* Another form's connection, whose submission may end the server too.
Occupy == Free /\ serving' = Other /\ UNCHANGED <<up, listening, status, drawn, had, call, form>>
Vacate == serving = Other /\ serving' = None /\ UNCHANGED <<up, listening, status, drawn, had, call, form>>
LoseServer ==
  /\ serving = Other
  /\ MayEnroll
  /\ serving' = None
  /\ listening' = FALSE
  /\ UNCHANGED <<up, status, drawn, had, call, form>>

\* The connection ends with an answer, or is closed without one.
Reply(c, r, s) ==
  /\ serving = c
  /\ serving' = None
  /\ call' = [call EXCEPT ![c] = Answered(call[c], r, s)]

\* PipeClientValidator refuses it, or the pipe breaks.
Hangup(c) ==
  /\ call[c] # None
  /\ call[c].phase = "asked"
  /\ Reply(c, call[c].request, None)
  /\ UNCHANGED <<up, listening, status, drawn, had, form>>

GetStatus(c) ==
  /\ In(c, "GetStatus", "asked")
  /\ Reply(c, call[c].request, status[call[c].request])
  /\ UNCHANGED <<up, listening, status, drawn, had, form>>

\* No path, no reason, a path the rules refuse, another extension, no such file.
RejectSubmission(c) ==
  /\ In(c, "SubmitRequest", "asked")
  /\ Reply(c, None, None)
  /\ UNCHANGED <<up, listening, status, drawn, had, form>>

\* An enrollment that the submission waits for times out: the cancelled call is
\* taken for the service's own stop.
EndServer(c) ==
  /\ In(c, "SubmitRequest", "asked")
  /\ MayEnroll
  /\ Reply(c, None, None)
  /\ listening' = FALSE
  /\ UNCHANGED <<up, status, drawn, had, form>>

\* An outcome goes on record.
Settle(r, s) ==
  /\ status' = [status EXCEPT ![r] = s]
  /\ had' = [had EXCEPT ![r] = @ \cup {s}]

\* Hashed and tracked; the POST is on its way.
TrackRequest(c, r) ==
  /\ In(c, "SubmitRequest", "asked")
  /\ serving = c
  /\ r \notin drawn
  /\ drawn' = drawn \cup {r}
  /\ status' = [status EXCEPT ![r] = "Pending"]
  /\ call' = [call EXCEPT ![c].request = r, ![c].phase = "tracked"]
  /\ UNCHANGED <<up, listening, serving, had, form>>

SubmitEnds(c) ==
  /\ In(c, "SubmitRequest", "tracked")
  /\ Reply(c, call[c].request, "Pending")
  /\ UNCHANGED <<up, listening, status, drawn, had, form>>

SubmitFails(c) ==
  /\ In(c, "SubmitRequest", "tracked")
  /\ Reply(c, call[c].request, None)
  /\ Settle(call[c].request, "Failed")
  /\ UNCHANGED <<up, listening, drawn, form>>

\* The polling worker deals with a decision; module Agent says when.
UpdateStatus(r, s) ==
  /\ status[r] # None
  /\ s \in Terminal \ {status[r]}
  /\ Settle(r, s)
  /\ UNCHANGED <<up, listening, serving, drawn, call, form>>

-----------------------------------------------------------------------------
(* The form. Browsing and the checks of its input change nothing here. *)

OnSubmitClicked(c) ==
  /\ enabled
  /\ call[c] = None
  /\ enabled' = FALSE
  /\ Begin(c, "SubmitRequest", None)
  /\ UNCHANGED <<service, requestId, timer, told, crossed>>

Done(c, type) ==
  /\ In(c, type, "answered")
  /\ call' = [call EXCEPT ![c] = None]

\* A plausible slip: the timer is started whatever the answer.
SubmittedOrNot(c) ==
  /\ Done(c, "SubmitRequest")
  /\ timer' = TRUE
  /\ requestId' = IF call[c].answer # None THEN call[c].request ELSE requestId
  /\ UNCHANGED <<service, enabled, told, crossed>>

\* A status check of another request is on its way or not dealt with yet.
CheckOfAnother(r) ==
  \E d \in Call : call[d] # None /\ call[d].type = "GetStatus" /\ call[d].request # r

Submitted(c) ==
  /\ Done(c, "SubmitRequest")
  /\ call[c].answer # None
  /\ requestId' = call[c].request
  /\ timer' = TRUE
  /\ told' = {}
  /\ crossed' = CheckOfAnother(call[c].request)
  /\ UNCHANGED <<service, enabled>>

\* A plausible slip: the buttons stay grey.
SubmissionStaysGrey(c) ==
  /\ Done(c, "SubmitRequest")
  /\ call[c].answer = None
  /\ UNCHANGED <<service, requestId, timer, enabled, told, crossed>>

\* "Rejected" or "Failed to reach ElevateGate service".
SubmissionFailed(c) ==
  /\ Done(c, "SubmitRequest")
  /\ call[c].answer = None
  /\ enabled' = TRUE
  /\ UNCHANGED <<service, requestId, timer, told, crossed>>

OnPollTick(c) ==
  /\ timer
  /\ call[c] = None
  /\ Begin(c, "GetStatus", requestId)
  /\ UNCHANGED <<service, form>>

\* A plausible slip: a status check that fails is the last one.
StatusFailureStops(c) ==
  /\ Done(c, "GetStatus")
  /\ call[c].answer \notin Terminal
  /\ timer' = (timer /\ call[c].answer # None)
  /\ enabled' = (enabled \/ call[c].answer = None)
  /\ UNCHANGED <<service, requestId, told, crossed>>

\* The label changes, and nothing else.
StatusShown(c) ==
  /\ Done(c, "GetStatus")
  /\ call[c].answer \notin Terminal
  /\ UNCHANGED <<service, form>>

\* The balloon says the outcome and names no request.
Announce(s) ==
  /\ timer' = FALSE
  /\ told' = told \cup {s}
  /\ enabled' = TRUE
  /\ UNCHANGED <<service, requestId, crossed>>

\* A plausible slip: Success is not looked at, and an error carries "Failed".
NotifyUnchecked(c) ==
  /\ Done(c, "GetStatus")
  /\ call[c].answer # "Pending"
  /\ Announce(IF call[c].answer = None THEN "Failed" ELSE call[c].answer)

\* IsTerminalStatus: whichever request was asked for, and whenever. The balloon
\* comes up over the form as it is now.
NotifyOutcome(c) ==
  /\ Done(c, "GetStatus")
  /\ call[c].answer \in Terminal
  /\ Announce(call[c].answer)

-----------------------------------------------------------------------------
Connect(c) == Accept(c) \/ ConnectTimesOut(c)

Dispatch(c) ==
  \/ Hangup(c) \/ GetStatus(c) \/ RejectSubmission(c) \/ EndServer(c)
  \/ (\E r \in Request : TrackRequest(c, r)) \/ SubmitEnds(c) \/ SubmitFails(c)

Receive(c) == Submitted(c) \/ SubmissionFailed(c) \/ StatusShown(c) \/ NotifyOutcome(c)

Next ==
  \/ StartService \/ StopService \/ Occupy \/ Vacate \/ LoseServer
  \/ \E r \in Request, s \in Terminal : UpdateStatus(r, s)
  \/ \E c \in Call : \/ Connect(c) \/ Dispatch(c) \/ Receive(c)
                     \/ OnSubmitClicked(c) \/ OnPollTick(c)

Spec == Init /\ [][Next]_vars

\* The timer ticks, and an attempt to connect ends within its limit; other forms
\* do not keep the pipe for ever, and not every connection breaks. Neither the
\* user nor the backend nor the start of the service is promised.
Fairness ==
  /\ WF_vars(Vacate) /\ <>[][~Occupy]_vars
  /\ WF_vars(\E c \in Call : OnPollTick(c))
  /\ \A c \in Call : /\ WF_vars(Connect(c)) /\ WF_vars(Receive(c))
                     /\ WF_vars(Dispatch(c)) /\ SF_vars(GetStatus(c))

FairSpec == Spec /\ Fairness

-----------------------------------------------------------------------------
\* What is announced on a form is an outcome that the service had on record for
\* the very request on it, and that the service does not take back to "Pending":
\* neither with checks that overlap or fail, nor with an error, whose message
\* carries the status "Failed" too, nor with a restart that forgets the request.
\* It does not hold of a request that came on the form while a check of the one
\* before was under way: the late answer is announced on the new form
\* (RequestForm.OnPollTick does not compare ids), which crossed sets aside.
AnnouncementIsTrue ==
  requestId # None /\ told # {} /\ ~crossed =>
    told \subseteq had[requestId] /\ status[requestId] # "Pending"

\* docs/DEVELOPMENT.md: the tray reports a clear failure rather than hanging,
\* also when the service stops in the middle or its pipe server has ended.
CallsEnd == \A c \in Call : (call[c] # None) ~> (call[c] = None)

Settled(r) == requestId = r /\ status[r] \in Terminal /\ told = {}

\* What takes the outcome away: a restart, or another submission from this form.
Gone(r) == status[r] = None \/ requestId # r

\* docs/DEVELOPMENT.md: "the tray shows "Denied" with a notification". The
\* outcome of the request that the form waits for is announced, however many
\* checks fail or overlap. A check of the request before it, when it is still
\* under way, may stop the timer, and then it is not: such behaviours are set
\* aside by the last conjunct on the left.
OutcomeIsAnnounced ==
  \A r \in Request :
    (Settled(r) /\ timer /\ ~enabled /\ \A c \in Call : call[c] # None => call[c].request = r)
      ~> (told # {} \/ Gone(r))

\* A restart forgets every request, and the tray hears "Unknown request id."
\* from then on (docs/THREAT_MODEL.md: "loses local tracking"), or nothing when
\* the pipe server of the new process has ended.
Forgotten(r) == status[r] = None

\* A form that has gone grey takes input again when its request is decided, or
\* was never taken: after failing submissions, calls that time out or break, and
\* late answers to overlapping checks. It may stay grey for good when the service
\* has forgotten the request, which the code does not repair: that is set aside,
\* as is a request that nobody decides.
FormComesBack ==
  ~enabled ~>
    enabled \/ \E r \in Request :
      requestId = r /\ timer /\ (status[r] = "Pending" \/ Forgotten(r))

=============================================================================
