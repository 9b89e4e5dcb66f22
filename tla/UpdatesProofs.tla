---------------------------- MODULE UpdatesProofs ----------------------------
(***************************************************************************)
(* Theorems about Enrollment, for every set of callers and Guids: types,   *)
(* and that a device keeps one identity, which the backend knows. Then     *)
(* about Updates, for any number of devices, callers, releases and         *)
(* overlapping heartbeats. That the composed system implements Enrollment  *)
(* carries the theorems about the credential over to it.                   *)
(***************************************************************************)
EXTENDS Updates, TLAPS

(***************************************************************************)
(* The credential. Whoever is inside EnrollAsync holds the lock, and while *)
(* somebody is, nothing is cached and the file is not yet complete; so only*)
(* one Guid can ever reach the disk. An answer comes from a committed row. *)
(***************************************************************************)
LockedInside ==
  \A c \in Caller : at[c] # "idle" => holder = c /\ cached = None

NoFileYet ==
  \A c \in Caller : at[c] \in {"posting", "answered"} => file = None

AnswerIsCommitted ==
  \A c \in Caller : at[c] \in {"answered", "writing", "recording"} => mine[c] \in enrolled

FileIsMine ==
  \A c \in Caller : /\ at[c] = "writing" => file = Garbled
                    /\ at[c] = "recording" => file = mine[c]

IInv ==
  /\ TypeOK
  /\ LockedInside
  /\ NoFileYet
  /\ AnswerIsCommitted
  /\ FileIsMine
  /\ CredentialIsEnrolled

Induction == LockedInside /\ NoFileYet /\ AnswerIsCommitted /\ FileIsMine /\ CredentialIsEnrolled

LEMMA InitHolds == Init => IInv
<1> SUFFICES ASSUME Init PROVE IInv
  OBVIOUS
<1> USE EnrollmentAssumption DEF Init
<1>1. TypeOK
  <2>1. stops \in 0 .. MaxStops
    OBVIOUS
  <2>2. at \in [Caller -> PC] /\ mine \in [Caller -> Id \cup {None}]
    BY DEF PC
  <2>3. QED
    BY <2>1, <2>2 DEF TypeOK
<1>2. Induction
  BY DEF Induction, LockedInside, NoFileYet, AnswerIsCommitted, FileIsMine, CredentialIsEnrolled
<1>3. QED
  BY <1>1, <1>2 DEF IInv, Induction

LEMMA TypePreserved == TypeOK /\ [Next]_credentials => TypeOK'
<1> SUFFICES ASSUME TypeOK, [Next]_credentials
             PROVE  TypeOK'
  OBVIOUS
<1> USE EnrollmentAssumption DEF TypeOK, PC
<1>1. ASSUME NEW c \in Caller, GetOrCreate(c) PROVE TypeOK'
  <2>1. CASE LoadFromDisk(c) BY <2>1 DEF LoadFromDisk
  <2>2. CASE LoadThrows(c) BY <2>2 DEF LoadThrows, Throws, Leave, Forget
  <2>3. CASE BeginEnroll(c) BY <2>3 DEF BeginEnroll
  <2>4. CASE Answer(c) BY <2>4 DEF Answer
  <2>5. CASE EnrollFails(c) BY <2>5 DEF EnrollFails, Throws, Leave, Forget
  <2>6. CASE BeginSave(c) BY <2>6 DEF BeginSave
  <2>7. CASE EndSave(c) BY <2>7 DEF EndSave
  <2>8. CASE SaveFails(c) BY <2>8 DEF SaveFails, Throws, Leave, Forget
  <2>9. CASE EndEnroll(c) BY <2>9 DEF EndEnroll, Leave
  <2>10. CASE RecordFails(c) BY <2>10 DEF RecordFails, Throws, Leave, Forget
  <2>11. QED BY <1>1, <2>1, <2>2, <2>3, <2>4, <2>5, <2>6, <2>7, <2>8, <2>9, <2>10 DEF GetOrCreate
<1>2. ASSUME NEW i \in Id, agent_enroll(i) \/ Refuse(i) PROVE TypeOK'
  BY <1>2 DEF agent_enroll, Refuse, store
<1>3. CASE StartService BY <1>3 DEF StartService, store
<1>4. CASE StopService \/ StopItself
  <2>1. stops' \in 0 .. MaxStops
    BY <1>4 DEF StopService, StopItself
  <2>2. at' \in [Caller -> PC] /\ mine' \in [Caller -> Id \cup {None}]
    BY <1>4 DEF StopService, StopItself, GoesDown, Forget
  <2>3. QED
    BY <1>4, <2>1, <2>2 DEF StopService, StopItself, GoesDown, Forget
<1>5. CASE UNCHANGED credentials BY <1>5 DEF credentials, store
<1>6. QED BY <1>1, <1>2, <1>3, <1>4, <1>5 DEF Next, EnrollStep

LEMMA InductionPreserved == IInv /\ [Next]_credentials => Induction'
<1> SUFFICES ASSUME IInv, [Next]_credentials
             PROVE  Induction'
  OBVIOUS
<1> USE EnrollmentAssumption
    DEF IInv, TypeOK, PC, Induction, LockedInside, NoFileYet, AnswerIsCommitted, FileIsMine,
        CredentialIsEnrolled
<1>1. ASSUME NEW c \in Caller, GetOrCreate(c) PROVE Induction'
  <2>1. CASE LoadFromDisk(c) BY <2>1 DEF LoadFromDisk, Enters
  <2>2. CASE LoadThrows(c) BY <2>2 DEF LoadThrows, Enters, Throws, Leave, Forget
  <2>3. CASE BeginEnroll(c) BY <2>3 DEF BeginEnroll, Enters
  <2>4. CASE Answer(c) BY <2>4 DEF Answer
  <2>5. CASE EnrollFails(c) BY <2>5 DEF EnrollFails, Throws, Leave, Forget
  <2>6. CASE BeginSave(c) BY <2>6 DEF BeginSave
  <2>7. CASE EndSave(c) BY <2>7 DEF EndSave
  <2>8. CASE SaveFails(c) BY <2>8 DEF SaveFails, Throws, Leave, Forget
  <2>9. CASE EndEnroll(c) BY <2>9 DEF EndEnroll, Leave
  <2>10. CASE RecordFails(c) BY <2>10 DEF RecordFails, Throws, Leave, Forget
  <2>11. QED BY <1>1, <2>1, <2>2, <2>3, <2>4, <2>5, <2>6, <2>7, <2>8, <2>9, <2>10 DEF GetOrCreate
<1>2. ASSUME NEW i \in Id, agent_enroll(i) \/ Refuse(i) PROVE Induction'
  BY <1>2 DEF agent_enroll, Refuse, store
<1>3. CASE StartService BY <1>3 DEF StartService, store
<1>4. CASE StopService \/ StopItself
  BY <1>4 DEF StopService, StopItself, GoesDown, Forget
<1>5. CASE UNCHANGED credentials BY <1>5 DEF credentials, store
<1>6. QED BY <1>1, <1>2, <1>3, <1>4, <1>5 DEF Next, EnrollStep

LEMMA StepHolds == IInv /\ [Next]_credentials => IInv'
BY TypePreserved, InductionPreserved DEF IInv, Induction

LEMMA Inductive == Spec => []IInv
<1>1. QED
  BY InitHolds, StepHolds, PTL DEF Spec

\* A step that changes a complete file would have to be inside EnrollAsync.
LEMMA FileStays == IInv /\ [Next]_credentials => (file \in Id => file' = file)
<1> SUFFICES ASSUME IInv, [Next]_credentials, file \in Id
             PROVE  file' = file
  OBVIOUS
<1> USE EnrollmentAssumption DEF IInv, NoFileYet, FileIsMine
<1>1. ASSUME NEW c \in Caller, GetOrCreate(c) PROVE file' = file
  BY <1>1 DEF GetOrCreate, LoadFromDisk, LoadThrows, BeginEnroll, Answer, EnrollFails, BeginSave,
              EndSave, SaveFails, EndEnroll, RecordFails
<1>2. ASSUME NEW i \in Id, agent_enroll(i) \/ Refuse(i) PROVE file' = file
  BY <1>2 DEF agent_enroll, Refuse
<1>3. QED
  BY <1>1, <1>2 DEF Next, EnrollStep, StartService, StopService, StopItself, GoesDown,
                  credentials, store

\* Every variable of the store, the file and the table keeps its type.
THEOREM TypeCorrect == Spec => []TypeOK
<1>1. IInv => TypeOK
  BY DEF IInv
<1>2. QED
  BY Inductive, <1>1, PTL

\* What the service authenticates with, now or after a restart, is a committed
\* row's credential.
THEOREM CredentialEnrolled == Spec => []CredentialIsEnrolled
<1>1. IInv => CredentialIsEnrolled
  BY DEF IInv
<1>2. QED
  BY Inductive, <1>1, PTL

\* A device that has a credential on disk stays the device it is.
THEOREM IdentityKept == Spec => IdentityIsKept
<1>1. IInv /\ [Next]_credentials => [(file \in Id) => (file' = file)]_credentials
  BY FileStays
<1>2. QED
  BY Inductive, <1>1, PTL DEF Spec, IdentityIsKept

-----------------------------------------------------------------------------
Applying == {"fetching", "aside", "copy", "tray", "restart"}

(***************************************************************************)
(* The updater. A trigger past the gate holds it; once the executable is *)
(* renamed, the service runs from the leftover until it ends.              *)
(***************************************************************************)
GateHeld == \A t \in Trigger : stage[t] \in Applying => gate = t

RunsFromLeftover == \A t \in Trigger : stage[t] \in {"copy", "tray", "restart"} => image = "backup"

ImageIsProcess ==
  /\ up <=> image # "none"
  /\ ~up => beat = None /\ \A t \in Trigger : stage[t] = "idle"

UpdatesInv ==
  /\ UpdatesTypeOK
  /\ GateHeld
  /\ RunsFromLeftover
  /\ ImageIsProcess
  /\ BuildSurvives

-----------------------------------------------------------------------------
\* Updates implements Enrollment.

LEMMA StepsEnroll == UpdatesNext => [Next]_credentials
<1> SUFFICES ASSUME UpdatesNext PROVE [Next]_credentials
  OBVIOUS
<1>1. CASE Enrolling
  BY <1>1 DEF Enrolling, Next
<1>2. CASE Start
  BY <1>2 DEF Start, Next
<1>3. CASE Stop
  BY <1>3 DEF Stop, Next
<1>4. ASSUME NEW t \in Trigger, CheckAndApply(t) PROVE [Next]_credentials
  BY <1>4 DEF CheckAndApply, SkipTrigger, EnterGate, GiveUpFetching, Fetch, MoveAside, SkipLeftover,
              MeetLeftover, Copy, SwapTray, SwapFails, Restart, Next
<1>5. CASE TimerFires \/ Publish \/ HeartbeatTimesOut \/ request_update
  BY <1>5 DEF TimerFires, Publish, HeartbeatTimesOut, request_update
<1>6. ASSUME NEW h \in Handler, SendHeartbeat(h) \/ agent_heartbeat(h) PROVE [Next]_credentials
  BY <1>6 DEF SendHeartbeat, agent_heartbeat, Respond
<1>7. ASSUME NEW i \in Id, LoadDevice(i) PROVE [Next]_credentials
  BY <1>7 DEF LoadDevice
<1>8. QED
  BY <1>1, <1>2, <1>3, <1>4, <1>5, <1>6, <1>7
  DEF UpdatesNext, UpdateStep, HeartbeatStep, AdminStep

LEMMA InitEnrolls == UpdatesInit => Init
BY DEF UpdatesInit

\* The composed system is an enrollment with other steps in between.
THEOREM ImplementsEnrollment == UpdatesSpec => Spec
<1>1. [UpdatesNext]_updatesVars => [Next]_credentials
  BY StepsEnroll DEF updatesVars
<1>2. QED
  BY InitEnrolls, <1>1, PTL DEF UpdatesSpec, Spec

\* What the service authenticates with is a committed row's credential, and
\* stays so through every update and restart.
THEOREM CredentialAlwaysEnrolled == UpdatesSpec => []CredentialIsEnrolled
BY ImplementsEnrollment, CredentialEnrolled, PTL

\* No update, crash or second caller turns a device into another one.
THEOREM IdentityAlwaysKept == UpdatesSpec => IdentityIsKept
BY ImplementsEnrollment, IdentityKept, PTL

-----------------------------------------------------------------------------
\* Types.

LEMMA EnrollmentMayEnd == EnrollStep => up' = up \/ up' = FALSE
BY DEF EnrollStep, GetOrCreate, LoadFromDisk, LoadThrows, BeginEnroll, Answer, EnrollFails,
       BeginSave, EndSave, SaveFails, EndEnroll, RecordFails, Throws, agent_enroll, Refuse

LEMMA UpdatesInitHolds == UpdatesInit => UpdatesInv
<1> SUFFICES ASSUME UpdatesInit PROVE UpdatesInv
  OBVIOUS
<1> USE UpdatesAssumption DEF UpdatesInit
<1>1. TypeOK
  BY InitHolds DEF IInv
<1>2. /\ latest \in Version
      /\ running \in Version
      /\ installed \in Version \cup {None}
      /\ target \in [Trigger -> Version]
  BY DEF Version
<1>3. UpdatesTypeOK
  BY <1>1, <1>2 DEF UpdatesTypeOK, Image, Stage
<1>4. GateHeld /\ RunsFromLeftover
  BY DEF GateHeld, RunsFromLeftover, Applying
<1>5. up = FALSE /\ installed # None
  BY <1>2 DEF Init
<1>6. ImageIsProcess /\ BuildSurvives
  BY <1>5 DEF ImageIsProcess, BuildSurvives
<1>7. QED
  BY <1>3, <1>4, <1>6 DEF UpdatesInv

LEMMA UpdatesTypePreserved == UpdatesTypeOK /\ [UpdatesNext]_updatesVars => UpdatesTypeOK'
<1> SUFFICES ASSUME UpdatesTypeOK, [UpdatesNext]_updatesVars
             PROVE  UpdatesTypeOK'
  OBVIOUS
<1>1. TypeOK'
  BY StepsEnroll, TypePreserved DEF UpdatesTypeOK, updatesVars
<1> USE <1>1, UpdatesAssumption
    DEF UpdatesTypeOK, Image, Stage, updates, files, swap, backend, devices
<1>2. CASE Enrolling
  BY <1>2 DEF Enrolling, ServiceEnds
<1>3. CASE Publish
  <2>1. latest' \in Version
    BY <1>3 DEF Publish, Version
  <2>2. QED
    BY <1>3, <2>1 DEF Publish
<1>4. CASE Start
  BY <1>4 DEF Start
<1>5. CASE Stop
  BY <1>5 DEF Stop, ServiceEnds
<1>6. CASE TimerFires
  BY <1>6 DEF TimerFires, Trigger
<1>7. ASSUME NEW t \in Trigger, CheckAndApply(t) PROVE UpdatesTypeOK'
  <2>1. CASE SkipTrigger(t) BY <2>1 DEF SkipTrigger
  <2>2. CASE EnterGate(t) BY <2>2 DEF EnterGate
  <2>3. CASE GiveUpFetching(t) BY <2>3 DEF GiveUpFetching, Finish
  <2>4. CASE Fetch(t) BY <2>4 DEF Fetch
  <2>5. CASE MoveAside(t) BY <2>5 DEF MoveAside
  <2>6. CASE SkipLeftover(t) BY <2>6 DEF SkipLeftover
  <2>7. CASE MeetLeftover(t) BY <2>7 DEF MeetLeftover, Finish
  <2>8. CASE Copy(t) BY <2>8 DEF Copy
  <2>9. CASE SwapTray(t) BY <2>9 DEF SwapTray
  <2>10. CASE SwapFails(t) BY <2>10 DEF SwapFails, Finish
  <2>11. CASE Restart(t) BY <2>11 DEF Restart, ServiceEnds
  <2>12. QED
    BY <1>7, <2>1, <2>2, <2>3, <2>4, <2>5, <2>6, <2>7, <2>8, <2>9, <2>10, <2>11 DEF CheckAndApply
<1>8. CASE HeartbeatTimesOut
  BY <1>8 DEF HeartbeatTimesOut
<1>9. ASSUME NEW h \in Handler, SendHeartbeat(h) PROVE UpdatesTypeOK'
  <2>1. cached \in Id
    BY <1>9 DEF SendHeartbeat, TypeOK
  <2>2. [device |-> cached, reported |-> running, asked |-> asked[cached], from |-> from[cached]]
          \in Loaded
    BY <2>1 DEF Loaded
  <2>3. serving' \in [Handler -> Loaded \cup {None}]
    BY <1>9, <2>2 DEF SendHeartbeat
  <2>4. QED
    BY <1>9, <2>3 DEF SendHeartbeat
<1>10. ASSUME NEW h \in Handler, agent_heartbeat(h) PROVE UpdatesTypeOK'
  <2>1. serving[h] \in Loaded
    BY <1>10 DEF agent_heartbeat
  <2>2. /\ serving[h].device \in Id
        /\ serving[h].reported \in Version
    BY <2>1 DEF Loaded
  <2>3. PICK told \in BOOLEAN : Respond(h, told)
    BY <1>10 DEF agent_heartbeat
  <2>4. /\ agentVersion' \in [Id -> Version \cup {None}]
        /\ asked' \in [Id -> BOOLEAN]
        /\ from' \in [Id -> Version \cup {None}]
        /\ serving' \in [Handler -> Loaded \cup {None}]
    BY <2>2, <2>3 DEF Respond
  <2>5. beat' \in Handler \cup {None} /\ stage' \in [Trigger -> Stage]
    BY <2>3 DEF Respond, HeartbeatAnswered, Trigger
  <2>6. QED
    BY <2>3, <2>4, <2>5 DEF Respond
<1>11. ASSUME NEW i \in Id, LoadDevice(i) PROVE UpdatesTypeOK'
  BY <1>11 DEF LoadDevice
<1>12. CASE request_update
  BY <1>12 DEF request_update
<1>13. CASE UNCHANGED updatesVars
  BY <1>13 DEF updatesVars
<1>14. QED
  BY <1>2, <1>3, <1>4, <1>5, <1>6, <1>7, <1>8, <1>9, <1>10, <1>11, <1>12, <1>13
  DEF UpdatesNext, UpdateStep, HeartbeatStep, AdminStep

-----------------------------------------------------------------------------
\* The gate and the files.

SwapInv == GateHeld /\ RunsFromLeftover /\ ImageIsProcess /\ BuildSurvives

LEMMA SwapPreserved == UpdatesInv /\ [UpdatesNext]_updatesVars => SwapInv'
<1> SUFFICES ASSUME UpdatesInv, [UpdatesNext]_updatesVars
             PROVE  SwapInv'
  OBVIOUS
<1> USE UpdatesAssumption
    DEF UpdatesInv, UpdatesTypeOK, SwapInv, GateHeld, RunsFromLeftover, ImageIsProcess,
        BuildSurvives, Applying, updates, files, swap
<1>1. CASE Enrolling
  BY <1>1, EnrollmentMayEnd DEF Enrolling, ServiceEnds, TypeOK
<1>2. CASE Start
  BY <1>2 DEF Start, StartService
<1>3. CASE Stop
  BY <1>3 DEF Stop, StopService, GoesDown, ServiceEnds
<1>4. CASE TimerFires
  BY <1>4 DEF TimerFires, credentials
<1>5. ASSUME NEW t \in Trigger, CheckAndApply(t) PROVE SwapInv'
  <2>1. CASE SkipTrigger(t) BY <2>1 DEF SkipTrigger, credentials
  <2>2. CASE EnterGate(t) BY <2>2 DEF EnterGate, credentials
  <2>3. CASE GiveUpFetching(t) BY <2>3 DEF GiveUpFetching, Finish, credentials
  <2>4. CASE Fetch(t) BY <2>4 DEF Fetch, credentials
  <2>5. CASE MoveAside(t) BY <2>5 DEF MoveAside, Locked, Image, credentials
  <2>6. CASE SkipLeftover(t) BY <2>6 DEF SkipLeftover, Locked, credentials
  <2>7. CASE MeetLeftover(t) BY <2>7 DEF MeetLeftover, Finish, credentials
  <2>8. CASE Copy(t) BY <2>8 DEF Copy, credentials
  <2>9. CASE SwapTray(t) BY <2>9 DEF SwapTray, credentials
  <2>10. CASE SwapFails(t) BY <2>10 DEF SwapFails, Finish, credentials
  <2>11. CASE Restart(t) BY <2>11 DEF Restart, StopItself, GoesDown, ServiceEnds
  <2>12. QED
    BY <1>5, <2>1, <2>2, <2>3, <2>4, <2>5, <2>6, <2>7, <2>8, <2>9, <2>10, <2>11 DEF CheckAndApply
<1>6. CASE Publish \/ HeartbeatTimesOut \/ request_update \/ (\E i \in Id : LoadDevice(i))
           \/ (\E h \in Handler : SendHeartbeat(h))
  BY <1>6 DEF Publish, HeartbeatTimesOut, request_update, LoadDevice, SendHeartbeat, credentials
<1>7. ASSUME NEW h \in Handler, agent_heartbeat(h) PROVE SwapInv'
  <2>1. UNCHANGED <<up, running, installed, backup, image, gate>> /\ beat' \in {beat, None}
    BY <1>7 DEF agent_heartbeat, Respond, HeartbeatAnswered, credentials
  <2>2. \A t \in Trigger : stage'[t] = stage[t] \/ (stage'[t] = "called" /\ beat = h)
    BY <1>7 DEF agent_heartbeat, Respond, HeartbeatAnswered
  <2>3. QED
    BY <2>1, <2>2
<1>8. CASE UNCHANGED updatesVars
  BY <1>8 DEF updatesVars, credentials
<1>9. QED
  BY <1>1, <1>2, <1>3, <1>4, <1>5, <1>6, <1>7, <1>8
  DEF UpdatesNext, UpdateStep, HeartbeatStep, AdminStep

LEMMA UpdatesInductive == UpdatesSpec => []UpdatesInv
<1>1. UpdatesInv /\ [UpdatesNext]_updatesVars => UpdatesInv'
  BY UpdatesTypePreserved, SwapPreserved DEF UpdatesInv, SwapInv
<1>2. QED
  BY UpdatesInitHolds, <1>1, PTL DEF UpdatesSpec

\* Every variable keeps its type, through updates, restarts and late answers.
THEOREM UpdatesTypeCorrect == UpdatesSpec => []UpdatesTypeOK
<1>1. UpdatesInv => UpdatesTypeOK
  BY DEF UpdatesInv
<1>2. QED
  BY UpdatesInductive, <1>1, PTL

\* The timer and the dashboard never make the service apply two updates at once.
THEOREM AppliesAlone == UpdatesSpec => []OneApply
<1>1. UpdatesInv => OneApply
  BY DEF UpdatesInv, UpdatesTypeOK, GateHeld, OneApply, Applying, Stage
<1>2. QED
  BY UpdatesInductive, <1>1, PTL

\* A failed or interrupted swap leaves a build of the service on disk, and the
\* running process the file it runs from.
THEOREM SomeBuildSurvives == UpdatesSpec => []BuildSurvives
<1>1. UpdatesInv => BuildSurvives
  BY DEF UpdatesInv
<1>2. QED
  BY UpdatesInductive, <1>1, PTL

-----------------------------------------------------------------------------
(***************************************************************************)
(* Updates implements Upgrade. A trigger past the download applies a       *)
(* published release that is newer than the process, and copies it to      *)
(* where no executable is: the copy is the one step that changes the       *)
(* build, and before it the build is the leftover the process runs from.   *)
(***************************************************************************)
TargetIsNewer ==
  \A t \in Trigger : /\ stage[t] \in Applying => target[t] <= latest
                     /\ stage[t] \in {"aside", "copy"} => target[t] > running

CopiesIntoGap == \A t \in Trigger : stage[t] = "copy" => installed = None

UpgradeInv == UpdatesInv /\ TargetIsNewer /\ CopiesIntoGap

LEMMA UpgradeInvInit == UpdatesInit => UpgradeInv
BY UpdatesInitHolds DEF UpgradeInv, TargetIsNewer, CopiesIntoGap, Applying, UpdatesInit

LEMMA UpgradeInvPreserved ==
  ASSUME UpgradeInv, [UpdatesNext]_updatesVars
  PROVE  TargetIsNewer' /\ CopiesIntoGap'
<1> USE UpdatesAssumption
    DEF UpgradeInv, UpdatesInv, UpdatesTypeOK, Version, GateHeld, RunsFromLeftover, ImageIsProcess,
        TargetIsNewer, CopiesIntoGap, Applying, updates, files, swap
<1>1. CASE Enrolling \/ Stop
  BY <1>1 DEF Enrolling, Stop, ServiceEnds
<1>2. CASE Start
  BY <1>2 DEF Start, StartService
<1>3. CASE Publish
  BY <1>3 DEF Publish
<1>4. CASE TimerFires
  BY <1>4 DEF TimerFires
<1>5. ASSUME NEW t \in Trigger, CheckAndApply(t) PROVE TargetIsNewer' /\ CopiesIntoGap'
  <2>1. CASE SkipTrigger(t) BY <2>1 DEF SkipTrigger
  <2>2. CASE EnterGate(t) BY <2>2 DEF EnterGate
  <2>3. CASE GiveUpFetching(t) BY <2>3 DEF GiveUpFetching, Finish
  <2>4. CASE Fetch(t) BY <2>4 DEF Fetch
  <2>5. CASE MoveAside(t) BY <2>5 DEF MoveAside
  <2>6. CASE SkipLeftover(t) BY <2>6 DEF SkipLeftover
  <2>7. CASE MeetLeftover(t) BY <2>7 DEF MeetLeftover, Finish
  <2>8. CASE Copy(t) BY <2>8 DEF Copy
  <2>9. CASE SwapTray(t) BY <2>9 DEF SwapTray
  <2>10. CASE SwapFails(t) BY <2>10 DEF SwapFails, Finish
  <2>11. CASE Restart(t) BY <2>11 DEF Restart, ServiceEnds
  <2>12. QED
    BY <1>5, <2>1, <2>2, <2>3, <2>4, <2>5, <2>6, <2>7, <2>8, <2>9, <2>10, <2>11 DEF CheckAndApply
<1>6. CASE HeartbeatStep
  <2>1. UNCHANGED <<latest, running, installed, target>>
    BY <1>6 DEF HeartbeatStep, HeartbeatTimesOut, SendHeartbeat, agent_heartbeat, Respond
  <2>2. \A t \in Trigger : stage'[t] = stage[t] \/ stage'[t] = "called"
    BY <1>6 DEF HeartbeatStep, HeartbeatTimesOut, SendHeartbeat, agent_heartbeat, Respond,
                HeartbeatAnswered
  <2>3. QED
    BY <2>1, <2>2
<1>7. CASE AdminStep \/ UNCHANGED updatesVars
  BY <1>7 DEF AdminStep, LoadDevice, request_update, updatesVars
<1>8. QED
  BY <1>1, <1>2, <1>3, <1>4, <1>5, <1>6, <1>7 DEF UpdatesNext, UpdateStep

LEMMA UpgradeInductive == UpdatesSpec => []UpgradeInv
<1>1. UpgradeInv /\ [UpdatesNext]_updatesVars => UpgradeInv'
  BY UpdatesTypePreserved, SwapPreserved, UpgradeInvPreserved DEF UpgradeInv, UpdatesInv, SwapInv
<1>2. QED
  BY UpgradeInvInit, <1>1, PTL DEF UpdatesSpec

\* Each step of the updater, the service or a heartbeat is an upgrade's or none.
LEMMA StepsUpgrade ==
  ASSUME UpgradeInv, [UpdatesNext]_updatesVars
  PROVE  [U!UpgradeNext]_(U!upgradeVars)
<1> USE UpdatesAssumption
    DEF UpgradeInv, UpdatesInv, UpdatesTypeOK, Version, U!UpgradeNext, U!upgradeVars, Build
<1>1. CASE Enrolling
  BY <1>1, EnrollmentMayEnd DEF Enrolling, ServiceEnds, updates, files, U!Stop
<1>2. CASE Start
  BY <1>2 DEF Start, StartService, U!Start
<1>3. CASE Stop
  BY <1>3 DEF Stop, StopService, GoesDown, ServiceEnds, U!Stop
<1>4. CASE Publish
  BY <1>4 DEF Publish, files, credentials, U!Publish
<1>5. ASSUME NEW t \in Trigger, CheckAndApply(t) PROVE [U!UpgradeNext]_(U!upgradeVars)
  <2>1. CASE MoveAside(t)
    BY <2>1 DEF MoveAside, Locked, Image, ImageIsProcess, BuildSurvives, credentials
  <2>2. CASE Copy(t)
    <3>1. up /\ installed = None /\ backup = running
      BY <2>2 DEF Copy, CopiesIntoGap, RunsFromLeftover, ImageIsProcess, BuildSurvives
    <3>2. target[t] \in 1 .. latest /\ target[t] > running
      BY <2>2 DEF Copy, TargetIsNewer, Applying
    <3>3. U!Install(target[t])
      BY <2>2, <3>1, <3>2 DEF Copy, credentials, U!Install
    <3>4. QED
      BY <3>2, <3>3
  <2>3. CASE Restart(t)
    BY <2>3 DEF Restart, StopItself, GoesDown, ServiceEnds, U!Stop
  <2>4. CASE ~MoveAside(t) /\ ~Copy(t) /\ ~Restart(t)
    BY <1>5, <2>4 DEF CheckAndApply, SkipTrigger, EnterGate, GiveUpFetching, Fetch, SkipLeftover,
                      MeetLeftover, SwapTray, SwapFails, files, credentials
  <2>5. QED
    BY <2>1, <2>2, <2>3, <2>4
<1>6. CASE TimerFires \/ HeartbeatStep \/ AdminStep \/ UNCHANGED updatesVars
  BY <1>6 DEF TimerFires, HeartbeatStep, HeartbeatTimesOut, SendHeartbeat, agent_heartbeat, Respond,
              AdminStep, LoadDevice, request_update, updatesVars, updates, files, credentials
<1>7. QED
  BY <1>1, <1>2, <1>3, <1>4, <1>5, <1>6 DEF UpdatesNext, UpdateStep

LEMMA InitUpgrades == UpdatesInit => U!UpgradeInit
<1>1. 0 # None
  BY UpdatesAssumption DEF Version
<1>2. QED
  BY <1>1 DEF UpdatesInit, Init, U!UpgradeInit, Build

\* However a swap fails, is retried or is cut short, what the device has is
\* replaced in one step, by a newer published release, once per start.
THEOREM ImplementsUpgrade == UpdatesSpec => RefinesUpgrade
<1>1. UpgradeInv /\ [UpdatesNext]_updatesVars => [U!UpgradeNext]_(U!upgradeVars)
  BY StepsUpgrade
<1>2. QED
  BY UpgradeInductive, InitUpgrades, <1>1, PTL DEF UpdatesSpec, RefinesUpgrade, U!UpgradeSpec

=============================================================================
