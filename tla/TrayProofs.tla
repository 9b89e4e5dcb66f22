------------------------------ MODULE TrayProofs ------------------------------
(***************************************************************************)
(* Theorems about Tray, for any number of requests and of calls through    *)
(* the pipe that overlap.                                                  *)
(***************************************************************************)
EXTENDS Tray, TLAPS

(***************************************************************************)
(* The induction. A call about a request names one: a status check from    *)
(* the start, a submission once its request is tracked. Ids are drawn once,*)
(* and a terminal status changes into another terminal one at most, so an  *)
(* answer with an outcome stays true for as long as it is on its way. A    *)
(* check asks for the request on the form, unless another request came on  *)
(* the form meanwhile, and then crossed says so.                           *)
(***************************************************************************)
NamesRequest(c) ==
  call[c] # None =>
    \/ call[c].request \in Request
    \/ call[c].type = "SubmitRequest" /\ call[c].phase # "tracked" /\ call[c].answer = None

CallsNameRequests == \A c \in Call : NamesRequest(c)

StatusIsDrawn == \A r \in Request : status[r] # None => r \in drawn

TrackedIsDrawn ==
  \A c \in Call : call[c] # None /\ call[c].phase = "tracked" => call[c].request \in drawn

FormIsDrawn == requestId # None => requestId \in drawn

StatusIsOnRecord == \A r \in Request : status[r] \in Terminal => status[r] \in had[r]

Settling(r) == r \in drawn /\ status[r] # "Pending"

\* What an answer says of a request.
Holds(r, s) == r \in drawn /\ (s \in Terminal => Settling(r) /\ s \in had[r])

AnswersHold ==
  \A c \in Call :
    call[c] # None /\ call[c].answer # None =>
      call[c].phase = "answered" /\ Holds(call[c].request, call[c].answer)

ChecksAskForTheForm ==
  ~crossed =>
    \A c \in Call : call[c] # None /\ call[c].type = "GetStatus" => call[c].request = requestId

TrayInv ==
  /\ TypeOK
  /\ CallsNameRequests
  /\ StatusIsDrawn
  /\ TrackedIsDrawn
  /\ FormIsDrawn
  /\ StatusIsOnRecord
  /\ AnswersHold
  /\ ChecksAskForTheForm
  /\ AnnouncementIsTrue

-----------------------------------------------------------------------------
LEMMA InitHolds == Init => TrayInv
<1> SUFFICES ASSUME Init PROVE TrayInv
  OBVIOUS
<1> USE TrayAssumption DEF Init
<1>1. TypeOK
  BY DEF TypeOK
<1>2. /\ CallsNameRequests /\ StatusIsDrawn /\ TrackedIsDrawn /\ FormIsDrawn
      /\ AnswersHold /\ ChecksAskForTheForm /\ AnnouncementIsTrue
  BY DEF CallsNameRequests, NamesRequest, StatusIsDrawn, TrackedIsDrawn, FormIsDrawn,
         AnswersHold, ChecksAskForTheForm, AnnouncementIsTrue
<1>3. StatusIsOnRecord
  BY DEF StatusIsOnRecord, Status
<1>4. QED BY <1>1, <1>2, <1>3 DEF TrayInv

\* What was drawn, settled and on record stays so.
Grows ==
  /\ drawn \subseteq drawn'
  /\ \A r \in Request : (Settling(r) => Settling(r)') /\ had[r] \subseteq had'[r]

\* An answer that is not touched still holds.
LEMMA AnswerGrows ==
  ASSUME TrayInv, Grows, NEW c \in Call, call'[c] = call[c],
         call[c] # None, call[c].answer # None
  PROVE  (call[c].phase = "answered" /\ Holds(call[c].request, call[c].answer))'
<1>1. PICK r \in Request : r = call[c].request
  BY DEF TrayInv, CallsNameRequests, NamesRequest
<1>2. PICK s : s = call[c].answer
  OBVIOUS
<1>3. call[c].phase = "answered" /\ Holds(r, s)
  BY <1>1, <1>2 DEF TrayInv, AnswersHold
<1>4. Holds(r, s)'
  BY <1>3 DEF Holds, Grows
<1>5. QED BY <1>1, <1>2, <1>3, <1>4

\* One call changes, and what it says afterwards is true.
LEMMA CallChanges ==
  ASSUME TrayInv, NEW c \in Call, NEW x \in PipeCall \cup {None},
         call' = [call EXCEPT ![c] = x],
         x # None =>
           /\ \/ x.request \in Request
              \/ x.type = "SubmitRequest" /\ x.phase # "tracked" /\ x.answer = None
           /\ x.answer # None => x.phase = "answered" /\ Holds(x.request, x.answer)'
           /\ x.phase = "tracked" => x.request \in drawn',
         Grows
  PROVE  CallsNameRequests' /\ AnswersHold' /\ TrackedIsDrawn'
<1> USE DEF TrayInv, TypeOK
<1>1. \A d \in Call : call'[d] = IF d = c THEN x ELSE call[d]
  OBVIOUS
<1>2. CallsNameRequests'
  BY <1>1 DEF CallsNameRequests, NamesRequest
<1>3. ASSUME NEW d \in Call, d # c, call[d] # None, call[d].answer # None
      PROVE  (call[d].phase = "answered" /\ Holds(call[d].request, call[d].answer))'
  BY <1>1, <1>3, AnswerGrows
<1>4. AnswersHold'
  BY <1>1, <1>3 DEF AnswersHold
<1>5. TrackedIsDrawn'
  BY <1>1 DEF TrackedIsDrawn, Grows
<1>6. QED BY <1>2, <1>4, <1>5

\* What an answered call says.
LEMMA AnsweredIsCall ==
  ASSUME NEW x \in PipeCall, NEW r \in Request \cup {None}, NEW s \in Status \cup {None}
  PROVE  /\ Answered(x, r, s) \in PipeCall
         /\ Answered(x, r, s).type = x.type
         /\ Answered(x, r, s).phase = "answered"
         /\ Answered(x, r, s).request = r
         /\ Answered(x, r, s).answer = s
BY DEF Answered, PipeCall

\* A step of the pipe moves one call on, leaves the form alone, and takes back
\* nothing that is settled.
Moves(c, x) ==
  /\ call[c] # None
  /\ call' = [call EXCEPT ![c] = x]
  /\ x.type = call[c].type
  /\ x.type = "GetStatus" => x.request = call[c].request
  /\ \/ x.request \in Request
     \/ x.type = "SubmitRequest" /\ x.phase # "tracked" /\ x.answer = None
  /\ x.answer # None => x.phase = "answered" /\ Holds(x.request, x.answer)'
  /\ x.phase = "tracked" => x.request \in drawn'

ServiceGoesOn ==
  /\ up' = up
  /\ listening' \in BOOLEAN
  /\ serving' \in Call \cup {Other, None}
  /\ status' \in [Request -> Status \cup {None}]
  /\ had' \in [Request -> SUBSET Terminal]
  /\ drawn' \subseteq Request
  /\ StatusIsDrawn' /\ StatusIsOnRecord'
  /\ Grows

\* What was announced stays true while the form stays as it is.
LEMMA FormHolds ==
  ASSUME TrayInv, Grows, UNCHANGED form
  PROVE  FormIsDrawn' /\ AnnouncementIsTrue'
<1>1. UNCHANGED <<requestId, told, crossed>>
  BY DEF form
<1>2. FormIsDrawn'
  BY <1>1 DEF TrayInv, FormIsDrawn, Grows
<1>3. SUFFICES ASSUME requestId # None, told # {}, ~crossed
               PROVE  told \subseteq had'[requestId] /\ status'[requestId] # "Pending"
  BY <1>1, <1>2 DEF AnnouncementIsTrue
<1>4. PICK r \in Request : r = requestId
  BY <1>3 DEF TrayInv, TypeOK
<1>5. told \subseteq had[r] /\ Settling(r)
  BY <1>3, <1>4 DEF TrayInv, AnnouncementIsTrue, FormIsDrawn, Settling
<1>6. had[r] \subseteq had'[r] /\ Settling(r)'
  BY <1>5 DEF Grows
<1>7. QED BY <1>4, <1>5, <1>6 DEF Settling

LEMMA PipeMoves ==
  ASSUME TrayInv, NEW c \in Call, NEW x \in PipeCall, Moves(c, x), ServiceGoesOn, UNCHANGED form
  PROVE  TrayInv'
<1> USE TrayAssumption DEF TrayInv, TypeOK, Moves, ServiceGoesOn
<1>1. TypeOK'
  BY DEF form
<1>2. CallsNameRequests' /\ AnswersHold' /\ TrackedIsDrawn'
  BY CallChanges
<1>3. FormIsDrawn' /\ AnnouncementIsTrue'
  BY FormHolds
<1>4. ChecksAskForTheForm'
  BY DEF ChecksAskForTheForm, form
<1>5. QED BY <1>1, <1>2, <1>3, <1>4

LEMMA Replies ==
  ASSUME TrayInv, NEW c \in Call, call[c] # None,
         NEW r \in Request \cup {None}, NEW s \in Status \cup {None},
         call' = [call EXCEPT ![c] = Answered(call[c], r, s)],
         r = call[c].request \/ call[c].type = "SubmitRequest",
         r \in Request \/ (call[c].type = "SubmitRequest" /\ s = None),
         s # None => Holds(r, s)',
         ServiceGoesOn, UNCHANGED form
  PROVE  TrayInv'
<1>1. call[c] \in PipeCall
  BY DEF TrayInv, TypeOK
<1>2. PICK x \in PipeCall : x = Answered(call[c], r, s)
  BY <1>1, AnsweredIsCall
<1>3. x.type = call[c].type /\ x.phase = "answered" /\ x.request = r /\ x.answer = s
  BY <1>1, <1>2, AnsweredIsCall
<1>4. Moves(c, x)
  BY <1>2, <1>3 DEF Moves
<1>5. QED BY <1>4, PipeMoves

LEMMA OpenCall ==
  ASSUME TrayInv, NEW c \in Call, call[c] # None
  PROVE  /\ call[c] \in PipeCall
         /\ call[c].request \in Request \cup {None}
         /\ None \notin Status /\ Terminal \subseteq Status /\ "Pending" \notin Terminal
         /\ NamesRequest(c)
BY TrayAssumption DEF TrayInv, TypeOK, CallsNameRequests, PipeCall, Status, Terminal

LEMMA ConnectStep ==
  ASSUME TrayInv, NEW c \in Call, Connect(c)
  PROVE  TrayInv'
<1>1. call[c] # None /\ UNCHANGED form /\ call[c].phase = "connecting"
  BY DEF Connect, Accept, ConnectTimesOut
<1>2. ServiceGoesOn
  BY DEF Connect, Accept, ConnectTimesOut, service, ServiceGoesOn, TrayInv, TypeOK, StatusIsDrawn,
         StatusIsOnRecord, Grows, Settling
<1>3. CASE Accept(c)
  <2>1. PICK x \in PipeCall : x = [call[c] EXCEPT !.phase = "asked"]
    BY <1>1, OpenCall DEF PipeCall
  <2>2. /\ x.type = call[c].type
        /\ x.request = call[c].request
        /\ x.phase = "asked"
        /\ x.answer = call[c].answer
    BY <1>1, <2>1, OpenCall DEF PipeCall
  <2>3. x.answer = None
    BY <1>1, <2>2 DEF TrayInv, AnswersHold
  <2>4. Moves(c, x)
    BY <1>1, <1>3, <2>1, <2>2, <2>3, OpenCall DEF Accept, Moves, NamesRequest
  <2>5. QED BY <1>1, <1>2, <2>4, PipeMoves
<1>4. CASE ConnectTimesOut(c)
  BY <1>1, <1>2, <1>4, OpenCall, Replies DEF ConnectTimesOut, Fails, NamesRequest
<1>5. QED BY <1>3, <1>4 DEF Connect

\* An outcome goes on record for a request that was drawn.
LEMMA SettleGoesOn ==
  ASSUME TrayInv, NEW r \in Request, r \in drawn, NEW s \in Terminal, Settle(r, s),
         UNCHANGED drawn
  PROVE  /\ status' \in [Request -> Status \cup {None}]
         /\ had' \in [Request -> SUBSET Terminal]
         /\ StatusIsDrawn' /\ StatusIsOnRecord' /\ Grows
<1> USE DEF TrayInv, TypeOK, Settle
<1>1. s \in Status /\ s # "Pending"
  BY TrayAssumption DEF Status, Terminal
<1>2. status' \in [Request -> Status \cup {None}] /\ had' \in [Request -> SUBSET Terminal]
  BY <1>1
<1>3. /\ \A q \in Request : status'[q] = IF q = r THEN s ELSE status[q]
      /\ \A q \in Request : had'[q] = IF q = r THEN had[q] \cup {s} ELSE had[q]
  OBVIOUS
<1>4. StatusIsDrawn' /\ StatusIsOnRecord'
  BY <1>3 DEF StatusIsDrawn, StatusIsOnRecord
<1>5. Grows
  BY <1>1, <1>3 DEF Grows, Settling
<1>6. QED BY <1>2, <1>4, <1>5

LEMMA DispatchGoesOn ==
  ASSUME TrayInv, NEW c \in Call, Dispatch(c)
  PROVE  ServiceGoesOn
<1>1. CASE \/ Hangup(c) \/ GetStatus(c) \/ RejectSubmission(c) \/ EndServer(c) \/ SubmitEnds(c)
  BY <1>1 DEF Hangup, GetStatus, RejectSubmission, EndServer, SubmitEnds, Reply, ServiceGoesOn,
              TrayInv, TypeOK, StatusIsDrawn, StatusIsOnRecord, Grows, Settling
<1>2. ASSUME NEW r \in Request, TrackRequest(c, r) PROVE ServiceGoesOn
  <2>1. "Pending" \in Status /\ "Pending" \notin Terminal
    BY TrayAssumption DEF Status, Terminal
  <2>2. QED
    BY <1>2, <2>1 DEF TrackRequest, ServiceGoesOn, TrayInv, TypeOK, StatusIsDrawn,
                      StatusIsOnRecord, Grows, Settling
<1>3. CASE SubmitFails(c)
  <2>1. call[c] # None
    BY <1>3 DEF SubmitFails, In
  <2>2. PICK r \in Request : r = call[c].request /\ r \in drawn
    BY <1>3, <2>1, OpenCall DEF SubmitFails, In, NamesRequest, TrayInv, TrackedIsDrawn
  <2>3. Settle(r, "Failed") /\ UNCHANGED <<up, listening, drawn>> /\ serving' = None
    BY <1>3, <2>2 DEF SubmitFails, Reply
  <2>4. "Failed" \in Terminal
    BY DEF Terminal
  <2>5. QED
    BY <2>2, <2>3, <2>4, SettleGoesOn DEF ServiceGoesOn, TrayInv, TypeOK
<1>4. QED BY <1>1, <1>2, <1>3 DEF Dispatch

LEMMA DispatchStep ==
  ASSUME TrayInv, NEW c \in Call, Dispatch(c)
  PROVE  TrayInv'
<1>1. call[c] # None /\ UNCHANGED form
  BY DEF Dispatch, In, Hangup, GetStatus, RejectSubmission, EndServer, TrackRequest, SubmitEnds,
         SubmitFails
<1>2. ServiceGoesOn
  BY DispatchGoesOn
<1>3. CASE Hangup(c)
  BY <1>1, <1>2, <1>3, OpenCall, Replies DEF Hangup, Reply, NamesRequest
<1>4. CASE GetStatus(c)
  <2>1. PICK r \in Request : r = call[c].request
    BY <1>1, <1>4, OpenCall DEF GetStatus, In, NamesRequest
  <2>2. PICK s \in Status \cup {None} : s = status[r]
    BY <2>1 DEF TrayInv, TypeOK
  <2>3. s # None => Holds(r, s)
    BY <1>1, <2>1, <2>2, OpenCall
       DEF TrayInv, StatusIsDrawn, StatusIsOnRecord, Holds, Settling
  <2>4. s # None => Holds(r, s)'
    BY <1>2, <2>3 DEF Holds, ServiceGoesOn, Grows
  <2>5. QED
    BY <1>1, <1>2, <1>4, <2>1, <2>2, <2>4, Replies DEF GetStatus, Reply
<1>5. CASE RejectSubmission(c) \/ EndServer(c)
  BY <1>1, <1>2, <1>5, OpenCall, Replies DEF RejectSubmission, EndServer, Reply, In
<1>6. ASSUME NEW r \in Request, TrackRequest(c, r) PROVE TrayInv'
  <2>1. PICK x \in PipeCall : x = [call[c] EXCEPT !.request = r, !.phase = "tracked"]
    BY <1>1, OpenCall DEF PipeCall
  <2>2. x.type = call[c].type /\ x.request = r /\ x.answer = call[c].answer
    BY <1>1, <2>1, OpenCall DEF PipeCall
  <2>3. x.answer = None /\ x.type = "SubmitRequest"
    BY <1>1, <1>6, <2>2 DEF TrackRequest, In, TrayInv, AnswersHold
  <2>4. call' = [call EXCEPT ![c] = x] /\ r \in drawn'
    BY <1>6, <2>1 DEF TrackRequest, TrayInv, TypeOK
  <2>5. Moves(c, x)
    BY <1>1, <2>2, <2>3, <2>4 DEF Moves
  <2>6. QED BY <1>1, <1>2, <2>5, PipeMoves
<1>7. CASE SubmitEnds(c) \/ SubmitFails(c)
  <2>1. PICK r \in Request : r = call[c].request /\ r \in drawn
    BY <1>1, <1>7, OpenCall
       DEF SubmitEnds, SubmitFails, In, NamesRequest, TrayInv, TrackedIsDrawn
  <2>2. "Pending" \in Status /\ Holds(r, "Pending")'
    BY <1>1, <1>2, <2>1, OpenCall DEF Status, Holds, ServiceGoesOn, Grows
  <2>3. QED
    BY <1>1, <1>2, <1>7, <2>1, <2>2, Replies DEF SubmitEnds, SubmitFails, Reply
<1>8. QED
  BY <1>3, <1>4, <1>5, <1>6, <1>7 DEF Dispatch

LEMMA ReceiveStep ==
  ASSUME TrayInv, NEW c \in Call, Receive(c)
  PROVE  TrayInv'
<1> USE TrayAssumption DEF TrayInv, TypeOK
<1>1. call[c] # None /\ call' = [call EXCEPT ![c] = None] /\ UNCHANGED service
  BY DEF Receive, Done, In, Submitted, SubmissionFailed, StatusShown, NotifyOutcome, Announce
<1>2. call[c] \in PipeCall /\ call[c].request \in Request \cup {None} /\ NamesRequest(c)
  BY <1>1, OpenCall
<1>3. Grows
  BY <1>1 DEF service, Grows, Settling
<1>4. CallsNameRequests' /\ AnswersHold' /\ TrackedIsDrawn'
  BY <1>1, <1>3, CallChanges
<1>5. StatusIsDrawn' /\ StatusIsOnRecord'
  BY <1>1 DEF StatusIsDrawn, StatusIsOnRecord, service
<1>6. CASE Submitted(c)
  <2>1. PICK r \in Request : r = call[c].request /\ r \in drawn
    BY <1>1, <1>2, <1>6 DEF Submitted, NamesRequest, AnswersHold, Holds
  <2>2. /\ requestId' = r /\ timer' = TRUE /\ enabled' = enabled /\ told' = {}
        /\ crossed' = CheckOfAnother(r)
    BY <1>6, <2>1 DEF Submitted
  <2>3. TypeOK'
    BY <1>1, <2>1, <2>2 DEF service, CheckOfAnother
  <2>4. FormIsDrawn' /\ AnnouncementIsTrue'
    BY <1>1, <2>1, <2>2 DEF service, FormIsDrawn, AnnouncementIsTrue
  <2>5. ChecksAskForTheForm'
    BY <1>1, <2>2 DEF ChecksAskForTheForm, CheckOfAnother
  <2>6. QED BY <1>4, <1>5, <2>3, <2>4, <2>5
<1>7. CASE SubmissionFailed(c) \/ StatusShown(c)
  <2>1. UNCHANGED <<requestId, timer, told, crossed>> /\ enabled' \in BOOLEAN
    BY <1>7 DEF SubmissionFailed, StatusShown, form
  <2>2. TypeOK'
    BY <1>1, <2>1 DEF service
  <2>3. FormIsDrawn' /\ AnnouncementIsTrue'
    BY <1>1, <2>1 DEF service, FormIsDrawn, AnnouncementIsTrue
  <2>4. ChecksAskForTheForm'
    BY <1>1, <2>1 DEF ChecksAskForTheForm
  <2>5. QED BY <1>4, <1>5, <2>2, <2>3, <2>4
<1>8. CASE NotifyOutcome(c)
  <2>1. PICK s \in Terminal : s = call[c].answer
    BY <1>8 DEF NotifyOutcome
  <2>2. /\ timer' = FALSE /\ told' = told \cup {s} /\ enabled' = TRUE
        /\ UNCHANGED <<requestId, crossed>>
    BY <1>8, <2>1 DEF NotifyOutcome, Announce
  <2>3. TypeOK' /\ FormIsDrawn'
    BY <1>1, <2>2 DEF service, FormIsDrawn
  <2>4. ChecksAskForTheForm'
    BY <1>1, <2>2 DEF ChecksAskForTheForm
  <2>5. AnnouncementIsTrue'
    <3>1. SUFFICES ASSUME ~crossed
                   PROVE  told' \subseteq had[requestId] /\ status[requestId] # "Pending"
      BY <1>1, <2>2 DEF service, AnnouncementIsTrue
    <3>2. PICK r \in Request : r = call[c].request
      BY <1>2, <1>8, <2>1 DEF NotifyOutcome, Done, In, NamesRequest
    <3>3. r = requestId
      BY <1>1, <1>8, <3>1, <3>2 DEF NotifyOutcome, Done, In, ChecksAskForTheForm
    <3>4. Settling(r) /\ s \in had[r]
      BY <1>1, <2>1, <3>2, OpenCall DEF AnswersHold, Holds
    <3>5. told \subseteq had[r]
      BY <3>1, <3>3 DEF AnnouncementIsTrue
    <3>6. QED BY <2>2, <3>3, <3>4, <3>5 DEF Settling
  <2>6. QED BY <1>4, <1>5, <2>3, <2>4, <2>5
<1>9. QED BY <1>6, <1>7, <1>8 DEF Receive

\* A call begins.
LEMMA BeginStep ==
  ASSUME TrayInv, NEW c \in Call, OnSubmitClicked(c) \/ OnPollTick(c)
  PROVE  TrayInv'
<1> USE TrayAssumption DEF TrayInv, TypeOK
<1>1. PICK x \in PipeCall :
        /\ call' = [call EXCEPT ![c] = x]
        /\ x.answer = None /\ x.phase = "connecting"
        /\ \/ x.request = requestId /\ requestId \in Request
           \/ x.type = "SubmitRequest"
  <2> DEFINE new(type, r) ==
        [type |-> type, request |-> r, phase |-> "connecting", answer |-> None]
  <2>1. CASE OnPollTick(c)
    <3>1. requestId \in Request /\ call' = [call EXCEPT ![c] = new("GetStatus", requestId)]
      BY <2>1 DEF OnPollTick, Begin
    <3>2. new("GetStatus", requestId) \in PipeCall
      BY <3>1 DEF PipeCall
    <3>3. QED BY <2>1, <3>1, <3>2
  <2>2. CASE ~OnPollTick(c)
    <3>1. call' = [call EXCEPT ![c] = new("SubmitRequest", None)]
      BY <2>2 DEF OnSubmitClicked, Begin
    <3>2. new("SubmitRequest", None) \in PipeCall
      BY DEF PipeCall
    <3>3. QED BY <2>2, <3>1, <3>2
  <2>3. QED BY <2>1, <2>2
<1>2. UNCHANGED <<service, requestId, timer, told, crossed>> /\ call[c] = None
  BY DEF OnSubmitClicked, OnPollTick, form
<1>3. enabled' \in BOOLEAN
  BY DEF OnSubmitClicked, OnPollTick, form
<1>4. TypeOK'
  BY <1>1, <1>2, <1>3 DEF service
<1>5. CallsNameRequests' /\ AnswersHold' /\ TrackedIsDrawn'
  BY <1>1, <1>2, CallChanges DEF service, Grows, Settling
<1>6. ChecksAskForTheForm'
  BY <1>1, <1>2 DEF ChecksAskForTheForm
<1>7. StatusIsDrawn' /\ StatusIsOnRecord' /\ FormIsDrawn' /\ AnnouncementIsTrue'
  BY <1>2 DEF StatusIsDrawn, StatusIsOnRecord, FormIsDrawn, AnnouncementIsTrue, service
<1>8. QED BY <1>4, <1>5, <1>6, <1>7

\* The service stops: every open connection breaks.
LEMMA StopStep ==
  ASSUME TrayInv, StopService
  PROVE  TrayInv'
<1> USE TrayAssumption DEF TrayInv, TypeOK
<1>1. ASSUME NEW c \in Call
      PROVE  \/ call'[c] = call[c] /\ (call[c] # None => call[c].phase # "tracked")
             \/ /\ call[c] # None /\ call[c] \in PipeCall
                /\ call'[c] = Answered(call[c], call[c].request, None)
  BY DEF StopService
<1>2. ASSUME NEW c \in Call, call'[c] # call[c]
      PROVE  /\ call[c] # None /\ NamesRequest(c)
             /\ call'[c] \in PipeCall
             /\ call'[c].type = call[c].type
             /\ call'[c].phase = "answered"
             /\ call'[c].request = call[c].request
             /\ call'[c].answer = None
  <2>1. call[c] # None /\ call'[c] = Answered(call[c], call[c].request, None)
    BY <1>1, <1>2
  <2>2. call[c] \in PipeCall /\ call[c].request \in Request \cup {None} /\ NamesRequest(c)
    BY <2>1, OpenCall
  <2>3. QED BY <2>1, <2>2, AnsweredIsCall
<1>3. call' \in [Call -> PipeCall \cup {None}]
  BY <1>2 DEF StopService
<1>4. UNCHANGED <<drawn, had, form>> /\ status' = [r \in Request |-> None]
  BY DEF StopService
<1>5. TypeOK' /\ None # "Pending" /\ None \notin Terminal
  <2>1. up' = FALSE /\ listening' = FALSE /\ serving' = None
    BY DEF StopService
  <2>2. QED BY <1>3, <1>4, <2>1 DEF form, Status
<1>6. CallsNameRequests' /\ TrackedIsDrawn'
  BY <1>1, <1>2, <1>4 DEF CallsNameRequests, NamesRequest, TrackedIsDrawn
<1>7. ChecksAskForTheForm'
  BY <1>2, <1>4 DEF ChecksAskForTheForm, form
<1>8. StatusIsDrawn' /\ StatusIsOnRecord' /\ Grows
  BY <1>4, <1>5 DEF StatusIsDrawn, StatusIsOnRecord, Grows, Settling
<1>9. FormIsDrawn' /\ AnnouncementIsTrue'
  BY <1>4, <1>8, FormHolds
<1>10. AnswersHold'
  <2>1. ASSUME NEW c \in Call, call'[c] # None, call'[c].answer # None
        PROVE  (call[c].phase = "answered" /\ Holds(call[c].request, call[c].answer))'
    <3>1. call'[c] = call[c]
      BY <1>2, <2>1
    <3>2. QED BY <1>8, <2>1, <3>1, AnswerGrows
  <2>2. QED BY <2>1 DEF AnswersHold
<1>11. QED BY <1>5, <1>6, <1>7, <1>8, <1>9, <1>10

LEMMA OtherSteps ==
  ASSUME TrayInv,
         \/ StartService \/ Occupy \/ Vacate \/ LoseServer \/ UNCHANGED vars
         \/ \E r \in Request, s \in Terminal : UpdateStatus(r, s)
  PROVE  TrayInv'
<1> USE TrayAssumption DEF TrayInv, TypeOK
<1>1. UNCHANGED <<drawn, call, form>>
  BY DEF StartService, Occupy, Vacate, LoseServer, vars, service, UpdateStatus
<1>2. SUFFICES TypeOK' /\ StatusIsDrawn' /\ StatusIsOnRecord' /\ Grows
  <2>1. ASSUME Grows PROVE FormIsDrawn' /\ AnnouncementIsTrue'
    BY <1>1, <2>1, FormHolds
  <2>2. CallsNameRequests' /\ TrackedIsDrawn' /\ ChecksAskForTheForm'
    BY <1>1 DEF CallsNameRequests, NamesRequest, TrackedIsDrawn, ChecksAskForTheForm, form
  <2>3. ASSUME Grows PROVE AnswersHold'
    BY <1>1, <2>3, AnswerGrows DEF AnswersHold
  <2>4. QED BY <2>1, <2>2, <2>3
<1>3. CASE StartService \/ Occupy \/ Vacate \/ LoseServer \/ UNCHANGED vars
  <2>1. TypeOK' /\ UNCHANGED <<status, had>>
    BY <1>1, <1>3 DEF StartService, Occupy, Vacate, LoseServer, vars, service, form
  <2>2. QED BY <1>1, <2>1 DEF StatusIsDrawn, StatusIsOnRecord, Grows, Settling
<1>4. ASSUME NEW r \in Request, NEW s \in Terminal, UpdateStatus(r, s)
      PROVE  TypeOK' /\ StatusIsDrawn' /\ StatusIsOnRecord' /\ Grows
  <2>1. r \in drawn /\ Settle(r, s) /\ UNCHANGED <<up, listening, serving>>
    BY <1>4 DEF UpdateStatus, StatusIsDrawn
  <2>2. /\ status' \in [Request -> Status \cup {None}]
        /\ had' \in [Request -> SUBSET Terminal]
        /\ StatusIsDrawn' /\ StatusIsOnRecord' /\ Grows
    BY <1>1, <2>1, SettleGoesOn
  <2>3. TypeOK'
    BY <1>1, <2>1, <2>2 DEF form
  <2>4. QED BY <2>2, <2>3
<1>5. QED BY <1>3, <1>4

LEMMA Inductive == Spec => []TrayInv
<1>1. TrayInv /\ [Next]_vars => TrayInv'
  BY ConnectStep, DispatchStep, ReceiveStep, BeginStep, StopStep, OtherSteps DEF Next
<1>2. QED
  BY InitHolds, <1>1, PTL DEF Spec

\* Every call, the form and the service's table keep their types, and the timer
\* runs only with a request to ask about.
THEOREM TypeCorrect == Spec => []TypeOK
<1>1. TrayInv => TypeOK
  BY DEF TrayInv
<1>2. QED BY Inductive, <1>1, PTL

\* With any number of overlapping calls, failures and restarts: what is announced
\* on a form is an outcome that the service had on record for the request on it,
\* and is not taken back, unless the request came on the form while a check of
\* another was under way.
THEOREM AnnouncementsAreTrue == Spec => []AnnouncementIsTrue
<1>1. TrayInv => AnnouncementIsTrue
  BY DEF TrayInv
<1>2. QED BY Inductive, <1>1, PTL

=============================================================================
