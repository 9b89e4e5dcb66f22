------------------------------- MODULE Updates -------------------------------
(***************************************************************************)
(* An enrolled device reports its version by heartbeats, an administrator  *)
(* asks it to update, and the service replaces its own executables. Two    *)
(* triggers share one coordinator; the swap renames the running file away  *)
(* and copies the new one into place, and any step of it may fail or be    *)
(* the last one before a crash.                                            *)
(***************************************************************************)
EXTENDS Enrollment

CONSTANTS
  MaxRelease,  \* bound on the releases published; the device starts on 0
  Timer,       \* SelfUpdateWorker
  Telemetry,   \* TelemetryWorker, which relays the dashboard's request
  Handler,     \* heartbeat handlers of the backend that may overlap
  Managed      \* rows an administrator may act on

Trigger == {Timer, Telemetry}
Version == 0 .. MaxRelease

ASSUME UpdatesAssumption ==
  /\ MaxRelease \in Nat
  /\ Timer # Telemetry
  /\ Managed \subseteq Id
  /\ None \notin Trigger \cup Version \cup Handler

VARIABLES
  latest,        \* the latest release on GitHub
  running,       \* the version of the service's process, while it is up
  installed,     \* the build in ElevateGate.Service.exe, None while there is none
  backup,        \* the build in ElevateGate.Service.exe.old
  image,         \* the file the service's process runs from
  gate,          \* the trigger that holds UpdateCoordinator's _gate
  stage,         \* stage[t]: where t is in CheckAndApplyAsync
  target,        \* target[t]: the release it applies
  agentVersion,  \* agentVersion[i]: devices.agent_version
  asked,         \* asked[i]: update_requested_at is set
  from,          \* from[i]: update_requested_from_version
  adminHas,      \* the device an administrator's handler loaded, with its version
  serving,       \* serving[h]: the device row as the handler's authentication loaded it
  beat           \* the handler the agent's heartbeat waits for

swap == <<gate, stage, target>>
files == <<installed, backup, image>>
devices == <<agentVersion, asked, from>>
backend == <<devices, adminHas, serving>>
updates == <<latest, running, files, swap, backend, beat>>
updatesVars == <<credentials, updates>>

Stage == {"idle", "called", "fetching", "aside", "copy", "tray", "restart"}
Image == {"none", "current", "backup"}
Loaded == [device : Id, reported : Version, asked : BOOLEAN, from : Version \cup {None}]

UpdatesTypeOK ==
  /\ TypeOK
  /\ latest \in Version
  /\ running \in Version
  /\ installed \in Version \cup {None}
  /\ backup \in Version \cup {None}
  /\ image \in Image
  /\ gate \in Trigger \cup {None}
  /\ stage \in [Trigger -> Stage]
  /\ target \in [Trigger -> Version]
  /\ agentVersion \in [Id -> Version \cup {None}]
  /\ asked \in [Id -> BOOLEAN]
  /\ from \in [Id -> Version \cup {None}]
  /\ adminHas \in [device : Id, version : Version \cup {None}] \cup {None}
  /\ serving \in [Handler -> Loaded \cup {None}]
  /\ beat \in Handler \cup {None}

UpdatesInit ==
  /\ Init
  /\ latest = 0
  /\ running = 0
  /\ installed = 0
  /\ backup = None
  /\ image = "none"
  /\ gate = None
  /\ stage = [t \in Trigger |-> "idle"]
  /\ target = [t \in Trigger |-> 0]
  /\ agentVersion = [i \in Id |-> None]
  /\ asked = [i \in Id |-> FALSE]
  /\ from = [i \in Id |-> None]
  /\ adminHas = None
  /\ serving = [h \in Handler |-> None]
  /\ beat = None

Publish ==
  /\ latest < MaxRelease
  /\ latest' = latest + 1
  /\ UNCHANGED <<credentials, running, files, swap, backend, beat>>

-----------------------------------------------------------------------------
\* The service's process.

ServiceEnds ==
  /\ image' = "none"
  /\ gate' = None
  /\ stage' = [t \in Trigger |-> "idle"]
  /\ beat' = None
  /\ UNCHANGED <<latest, running, installed, backup, target, backend>>

Enrolling ==
  /\ EnrollStep
  /\ \/ up' = up /\ UNCHANGED updates
     \/ up' # up /\ ServiceEnds

\* At boot, by an administrator, or by the helper an update leaves behind.
Start ==
  /\ installed # None
  /\ StartService
  /\ running' = installed
  /\ image' = "current"
  /\ UNCHANGED <<latest, installed, backup, swap, backend, beat>>

Stop == StopService /\ ServiceEnds

-----------------------------------------------------------------------------
\* UpdateCoordinator.CheckAndApplyAsync. TelemetryWorker calls it from
\* HeartbeatAnswered.

\* Two minutes after the start at the earliest: by then the worker's enrollment,
\* which waits 30 s at most for another's and its own, is done or stopped the host.
TimerFires ==
  /\ up
  /\ cached # None
  /\ stage[Timer] = "idle"
  /\ stage' = [stage EXCEPT ![Timer] = "called"]
  /\ UNCHANGED <<credentials, latest, running, files, gate, target, backend, beat>>

SkipTrigger(t) ==
  /\ stage[t] = "called"
  /\ gate # None
  /\ stage' = [stage EXCEPT ![t] = "idle"]
  /\ UNCHANGED <<credentials, latest, running, files, gate, target, backend, beat>>

\* A plausible slip: the result of WaitAsync(0) is not looked at.
EnterAnyway(t) ==
  /\ stage[t] = "called"
  /\ gate' = t
  /\ stage' = [stage EXCEPT ![t] = "fetching"]
  /\ target' = [target EXCEPT ![t] = latest]
  /\ UNCHANGED <<credentials, latest, running, files, backend, beat>>

\* The gate is free, and GetLatestReleaseAsync answers.
EnterGate(t) ==
  /\ stage[t] = "called"
  /\ gate = None
  /\ gate' = t
  /\ stage' = [stage EXCEPT ![t] = "fetching"]
  /\ target' = [target EXCEPT ![t] = latest]
  /\ UNCHANGED <<credentials, latest, running, files, backend, beat>>

Finish(t) ==
  /\ gate' = None
  /\ stage' = [stage EXCEPT ![t] = "idle"]

\* Nothing newer; GitHub cannot be reached; the download or the unpacking fails.
GiveUpFetching(t) ==
  /\ stage[t] = "fetching"
  /\ Finish(t)
  /\ UNCHANGED <<credentials, latest, running, files, target, backend, beat>>

Fetch(t) ==
  /\ stage[t] = "fetching"
  /\ target[t] > running
  /\ stage' = [stage EXCEPT ![t] = "aside"]
  /\ UNCHANGED <<credentials, latest, running, files, gate, target, backend, beat>>

\* Windows refuses to delete the file a process runs from.
Locked == image = "backup"

\* A plausible slip: the executable is deleted instead of renamed.
DeleteInPlace(t) ==
  /\ stage[t] = "aside"
  /\ ~Locked
  /\ backup' = None
  /\ installed' = None
  /\ image' = "backup"
  /\ stage' = [stage EXCEPT ![t] = "copy"]
  /\ UNCHANGED <<credentials, latest, running, gate, target, backend, beat>>

\* SwapExecutable deletes the leftover and renames the executable; the process
\* runs on from the renamed file.
MoveAside(t) ==
  /\ stage[t] = "aside"
  /\ ~Locked
  /\ backup' = installed
  /\ installed' = None
  /\ image' = "backup"
  /\ stage' = [stage EXCEPT ![t] = "copy"]
  /\ UNCHANGED <<credentials, latest, running, gate, target, backend, beat>>

\* The leftover stays where nothing has to be renamed onto it. (The catch is
\* of IOException; Windows may report a running image as access denied.)
SkipLeftover(t) ==
  /\ stage[t] = "aside"
  /\ Locked
  /\ installed = None
  /\ stage' = [stage EXCEPT ![t] = "copy"]
  /\ UNCHANGED <<credentials, latest, running, files, gate, target, backend, beat>>

\* The leftover cannot be deleted: that exception, or the one of the rename
\* onto a file that exists, ends the attempt.
MeetLeftover(t) ==
  /\ stage[t] = "aside"
  /\ Locked
  /\ Finish(t)
  /\ UNCHANGED <<credentials, latest, running, files, target, backend, beat>>

Copy(t) ==
  /\ stage[t] = "copy"
  /\ installed' = target[t]
  /\ stage' = [stage EXCEPT ![t] = "tray"]
  /\ UNCHANGED <<credentials, latest, running, backup, image, gate, target, backend, beat>>

\* The same for the tray, whose old process may hold the leftover.
SwapTray(t) ==
  /\ stage[t] = "tray"
  /\ stage' = [stage EXCEPT ![t] = "restart"]
  /\ UNCHANGED <<credentials, latest, running, files, gate, target, backend, beat>>

SwapFails(t) ==
  /\ stage[t] \in {"copy", "tray"}
  /\ Finish(t)
  /\ UNCHANGED <<credentials, latest, running, files, target, backend, beat>>

\* The tray is told if it listens, the helper is started and the host stops.
Restart(t) ==
  /\ stage[t] = "restart"
  /\ StopItself
  /\ ServiceEnds

CheckAndApply(t) ==
  \/ SkipTrigger(t) \/ EnterGate(t) \/ GiveUpFetching(t) \/ Fetch(t)
  \/ MoveAside(t) \/ SkipLeftover(t) \/ MeetLeftover(t)
  \/ Copy(t) \/ SwapTray(t) \/ SwapFails(t) \/ Restart(t)

-----------------------------------------------------------------------------
\* request_device_update: the row is loaded, and written later.

\* A plausible slip: the id is kept, not the row.
LoadId(i) ==
  /\ i \in enrolled \cap Managed
  /\ adminHas = None
  /\ adminHas' = i
  /\ UNCHANGED <<credentials, latest, running, files, swap, devices, serving, beat>>

LoadDevice(i) ==
  /\ i \in enrolled \cap Managed
  /\ adminHas = None
  /\ adminHas' = [device |-> i, version |-> agentVersion[i]]
  /\ UNCHANGED <<credentials, latest, running, files, swap, devices, serving, beat>>

request_update ==
  /\ adminHas # None
  /\ asked' = [asked EXCEPT ![adminHas.device] = TRUE]
  /\ from' = [from EXCEPT ![adminHas.device] = adminHas.version]
  /\ adminHas' = None
  /\ UNCHANGED <<credentials, latest, running, files, swap, agentVersion, serving, beat>>

\* SendHeartbeatOnceAsync; the handler authenticates, which loads the row.
SendHeartbeat(h) ==
  /\ up
  /\ cached \in enrolled
  /\ beat = None
  /\ stage[Telemetry] = "idle"
  /\ serving[h] = None
  /\ serving' = [serving EXCEPT ![h] =
       [device |-> cached, reported |-> running, asked |-> asked[cached], from |-> from[cached]]]
  /\ beat' = h
  /\ UNCHANGED <<credentials, latest, running, files, swap, devices, adminHas>>

\* The 30 s of HttpClient are over; the handler goes on.
HeartbeatTimesOut ==
  /\ beat # None
  /\ beat' = None
  /\ UNCHANGED <<credentials, latest, running, files, swap, backend>>

\* The agent reads the answer, if it still waits for it.
HeartbeatAnswered(h, updateRequested) ==
  \/ /\ beat # h
     /\ UNCHANGED <<stage, beat>>
  \/ /\ beat = h
     /\ beat' = None
     /\ stage' = IF updateRequested THEN [stage EXCEPT ![Telemetry] = "called"] ELSE stage

\* agent_heartbeat after its authentication: the UPDATE and the commit.
\* RETURNING does not refresh the row the session holds, so the answer is
\* given, and the request cleared, on the row as it was loaded.
Landed(s) == s.asked /\ s.reported # s.from

\* A plausible slip: the version is stored only with an update that landed.
RespondLanded(h, updateRequested) ==
  LET s == serving[h]
  IN /\ s # None
     /\ serving' = [serving EXCEPT ![h] = None]
     /\ agentVersion' = IF Landed(s) THEN [agentVersion EXCEPT ![s.device] = s.reported] ELSE agentVersion
     /\ asked' = IF Landed(s) THEN [asked EXCEPT ![s.device] = FALSE] ELSE asked
     /\ from' = IF Landed(s) THEN [from EXCEPT ![s.device] = None] ELSE from
     /\ HeartbeatAnswered(h, updateRequested)
     /\ UNCHANGED <<credentials, latest, running, files, gate, target, adminHas>>

Respond(h, updateRequested) ==
  LET s == serving[h]
  IN /\ s # None
     /\ serving' = [serving EXCEPT ![h] = None]
     /\ agentVersion' = [agentVersion EXCEPT ![s.device] = s.reported]
     /\ asked' = IF Landed(s) THEN [asked EXCEPT ![s.device] = FALSE] ELSE asked
     /\ from' = IF Landed(s) THEN [from EXCEPT ![s.device] = None] ELSE from
     /\ HeartbeatAnswered(h, updateRequested)
     /\ UNCHANGED <<credentials, latest, running, files, gate, target, adminHas>>

\* A plausible slip: the answer says whether the update has landed.
AnswerLanded(h) == serving[h] # None /\ Respond(h, Landed(serving[h]))

agent_heartbeat(h) ==
  serving[h] # None /\ Respond(h, serving[h].asked /\ ~Landed(serving[h]))

-----------------------------------------------------------------------------
UpdateStep == TimerFires \/ \E t \in Trigger : CheckAndApply(t)
HeartbeatStep == HeartbeatTimesOut \/ \E h \in Handler : SendHeartbeat(h) \/ agent_heartbeat(h)
AdminStep == request_update \/ \E i \in Id : LoadDevice(i)

UpdatesNext ==
  \/ Enrolling \/ Publish \/ Start \/ Stop \/ UpdateStep \/ HeartbeatStep \/ AdminStep

UpdatesSpec == UpdatesInit /\ [][UpdatesNext]_updatesVars

\* A service that is down is started again, the polling worker asks for the
\* credential, calls and the backend's handlers go on, telemetry comes round and
\* its answer arrives some time. Nobody has to submit, publish, ask or stop.
FairSpec ==
  /\ UpdatesSpec
  /\ WF_updatesVars(Start)
  /\ WF_updatesVars(Enrolling /\ GetOrCreate(Poller))
  /\ \A c \in Caller : WF_updatesVars(Enrolling /\ at[c] # "idle" /\ GetOrCreate(c))
  /\ \A i \in Id : WF_updatesVars(Enrolling /\ agent_enroll(i))
  /\ WF_updatesVars(\E h \in Handler : SendHeartbeat(h))
  /\ \A h \in Handler :
       WF_updatesVars(agent_heartbeat(h)) /\ SF_updatesVars(beat = h /\ agent_heartbeat(h))
  /\ WF_updatesVars(CheckAndApply(Telemetry))

\* The timer fires, and no step of an update fails for ever.
UpdatingSpec ==
  /\ FairSpec
  /\ WF_updatesVars(TimerFires)
  /\ WF_updatesVars(CheckAndApply(Timer))
  /\ \A t \in Trigger : /\ SF_updatesVars(EnterGate(t))
                        /\ SF_updatesVars(Fetch(t))
                        /\ SF_updatesVars(SkipLeftover(t))
                        /\ SF_updatesVars(Copy(t))
                        /\ SF_updatesVars(SwapTray(t))

-----------------------------------------------------------------------------
\* Only one trigger downloads and swaps at a time.
OneApply == \A t, u \in Trigger : stage[t] # "idle" /\ stage[t] # "called"
                                /\ stage[u] # "idle" /\ stage[u] # "called" => t = u

\* A build of the service is always on disk, whatever fails or crashes in a
\* swap and however often it is tried, and the running process keeps its file.
BuildSurvives ==
  /\ installed # None \/ backup # None
  /\ up /\ image = "current" => installed = running
  /\ up /\ image = "backup" => backup = running

\* Across renames, leftovers, failed copies, crashes and two triggers, the build
\* a device has changes in one step, from the one that runs to a newer release:
\* no attempt downgrades it, repeats an update or replaces one not yet started.
Build == IF installed # None THEN installed ELSE backup

U == INSTANCE Upgrade WITH
  build <- Build,
  process <- IF up THEN running ELSE None

RefinesUpgrade == U!UpgradeSpec

\* Once a device stays on one version, the dashboard comes to show that one and
\* keeps showing it: no late or overlapping heartbeat leaves an older version.
ShownVersionConverges ==
  \A i \in Id, v \in Version :
    <>[](up /\ cached = i /\ running = v) => <>[](agentVersion[i] = v)

UpdateAsked == file \in Id /\ asked[file]

\* An administrator's request for an update reaches the device, or is found to
\* have landed, however heartbeats are lost, overlap or time out.
RequestReachesDevice ==
  UpdateAsked ~> (~UpdateAsked \/ stage[Telemetry] # "idle" \/ installed = None)

\* docs/INSTALL.md: a release that stays the latest is installed.
UpdateLands == []<>up => ((latest = MaxRelease /\ cached # None) ~> (running = MaxRelease))

\* The service comes by a credential, whatever is lost, refused or stopped on
\* the way: no caller is left waiting for a lock that nobody holds. (Unless a
\* half-written file or a missing executable is in the way.)
EventuallyEnrolled == <>(file \in Id \/ file = Garbled \/ installed = None)

=============================================================================
