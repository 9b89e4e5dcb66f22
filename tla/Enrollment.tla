------------------------------ MODULE Enrollment ------------------------------
(***************************************************************************)
(* How a device comes by its identity. Every caller of the service that    *)
(* needs the bearer token asks DeviceCredentialStore, which loads it from  *)
(* disk or enrolls under a fresh Guid; the backend keeps one row per Guid  *)
(* and no memory of the machine behind it. The service may die between any *)
(* two steps, and the answer to an enrollment may never arrive.            *)
(*                                                                         *)
(* A credential is named by the Guid it was issued for.                    *)
(***************************************************************************)
EXTENDS Naturals

CONSTANTS
  Id,        \* the Guids that may be drawn; their number bounds the attempts
  Caller,    \* the callers of GetOrCreateAsync
  Poller,    \* ApprovalPollingWorker
  Server,    \* NamedPipeServer, for a submission from the tray
  MaxStops,  \* bound on the stops of the service that no exception explains
  Garbled,   \* a credential file that was only partly written
  None

ASSUME EnrollmentAssumption ==
  /\ {Poller, Server} \subseteq Caller
  /\ MaxStops \in Nat
  /\ None \notin Id \cup Caller \cup {Garbled}
  /\ Garbled \notin Id

VARIABLES
  enrolled,  \* Guids with a committed row in table devices
  posted,    \* Guids of POST /api/v1/enroll that the backend has still to handle
  drawn,     \* Guids that were ever drawn
  file,      \* device-credential.json
  up,        \* whether the service runs
  cached,    \* _cached
  holder,    \* the caller that holds _lock
  at,        \* at[c]: where c is in EnrollAsync
  mine,      \* mine[c]: the Guid c enrolls under
  stops

store == <<cached, holder, at, mine>>
credentials == <<enrolled, posted, drawn, file, up, store, stops>>

PC == {"idle", "posting", "answered", "writing", "recording"}

TypeOK ==
  /\ enrolled \subseteq Id
  /\ posted \subseteq Id
  /\ drawn \subseteq Id
  /\ file \in Id \cup {None, Garbled}
  /\ up \in BOOLEAN
  /\ cached \in Id \cup {None}
  /\ holder \in Caller \cup {None}
  /\ at \in [Caller -> PC]
  /\ mine \in [Caller -> Id \cup {None}]
  /\ stops \in 0 .. MaxStops

Init ==
  /\ enrolled = {}
  /\ posted = {}
  /\ drawn = {}
  /\ file = None
  /\ up = FALSE
  /\ cached = None
  /\ holder = None
  /\ at = [c \in Caller |-> "idle"]
  /\ mine = [c \in Caller |-> None]
  /\ stops = 0

\* The bound on attempts: the last Guid is not wasted.
AttemptsLeft == Id \ drawn # {} \/ file # None

-----------------------------------------------------------------------------
\* The service process.

Forget ==
  /\ cached' = None
  /\ holder' = None
  /\ at' = [c \in Caller |-> "idle"]
  /\ mine' = [c \in Caller |-> None]

StartService ==
  /\ ~up
  /\ up' = TRUE
  /\ UNCHANGED <<enrolled, posted, drawn, file, store, stops>>

GoesDown ==
  /\ up
  /\ up' = FALSE
  /\ Forget
  /\ UNCHANGED <<enrolled, posted, drawn, file>>

\* A stop, a crash or a shutdown of the machine.
StopService ==
  /\ stops < MaxStops
  /\ AttemptsLeft
  /\ stops' = stops + 1
  /\ GoesDown

\* The host stops for a reason of its own, an update.
StopItself == GoesDown /\ UNCHANGED stops

\* A plausible slip: the lock is released on success only.
LeaveLocked(c) ==
  /\ UNCHANGED holder
  /\ at' = [at EXCEPT ![c] = "idle"]
  /\ mine' = [mine EXCEPT ![c] = None]

\* finally { _lock.Release(); }
Leave(c) ==
  /\ holder' = None
  /\ at' = [at EXCEPT ![c] = "idle"]
  /\ mine' = [mine EXCEPT ![c] = None]

\* The kinds of exceptions that the callers tell apart.
Exception == {"cancelled", "io", "other"}

\* Telemetry catches everything, the pipe server what ends a connection, the
\* polling worker nothing.
Catches(c, e) == c # Poller /\ (c = Server => e # "other")

\* An exception leaves GetOrCreateAsync. One that nobody catches ends a
\* BackgroundService, and that stops the host.
Throws(c, e) ==
  \/ /\ Catches(c, e)
     /\ Leave(c)
     /\ UNCHANGED <<up, cached>>
  \/ /\ ~Catches(c, e)
     /\ up' = FALSE
     /\ Forget

-----------------------------------------------------------------------------
\* GetOrCreateAsync past its two tests of _cached.

Enters(c) ==
  /\ up
  /\ at[c] = "idle"
  /\ cached = None
  /\ holder = None

LoadFromDisk(c) ==
  /\ Enters(c)
  /\ file \in Id
  /\ cached' = file
  /\ UNCHANGED <<enrolled, posted, drawn, file, up, holder, at, mine, stops>>

LoadThrows(c) ==
  /\ Enters(c)
  /\ file = Garbled
  /\ Throws(c, "other")
  /\ UNCHANGED <<enrolled, posted, drawn, file, stops>>

\* A plausible slip: the lock is not taken.
BeginEnrollUnlocked(c) ==
  /\ Enters(c)
  /\ file = None
  /\ \E i \in Id \ drawn :
       /\ drawn' = drawn \cup {i}
       /\ posted' = posted \cup {i}
       /\ mine' = [mine EXCEPT ![c] = i]
  /\ at' = [at EXCEPT ![c] = "posting"]
  /\ UNCHANGED <<enrolled, file, up, cached, holder, stops>>

BeginEnroll(c) ==
  /\ Enters(c)
  /\ file = None
  /\ \E i \in Id \ drawn :
       /\ drawn' = drawn \cup {i}
       /\ posted' = posted \cup {i}
       /\ mine' = [mine EXCEPT ![c] = i]
  /\ holder' = c
  /\ at' = [at EXCEPT ![c] = "posting"]
  /\ UNCHANGED <<enrolled, file, up, cached, stops>>

\* agent_enroll commits the row and its audit row together. A Guid is drawn
\* once, so the test for an existing row never answers 409.
agent_enroll(i) ==
  /\ i \in posted
  /\ posted' = posted \ {i}
  /\ enrolled' = enrolled \cup {i}
  /\ UNCHANGED <<drawn, file, up, store, stops>>

\* A wrong key, the rate limit, a lost request, a rollback.
Refuse(i) ==
  /\ i \in posted
  /\ AttemptsLeft
  /\ posted' = posted \ {i}
  /\ UNCHANGED <<enrolled, drawn, file, up, store, stops>>

\* A plausible slip: the POST is not awaited.
AnswerUnawaited(c) ==
  /\ at[c] = "posting"
  /\ at' = [at EXCEPT ![c] = "answered"]
  /\ UNCHANGED <<enrolled, posted, drawn, file, up, cached, holder, mine, stops>>

Answer(c) ==
  /\ at[c] = "posting"
  /\ mine[c] \in enrolled
  /\ at' = [at EXCEPT ![c] = "answered"]
  /\ UNCHANGED <<enrolled, posted, drawn, file, up, cached, holder, mine, stops>>

\* EnsureSuccessStatusCode, a timeout, a lost or unreadable answer, or the
\* protector fails. The row may be there, or come yet.
EnrollFails(c) ==
  /\ at[c] \in {"posting", "answered"}
  /\ AttemptsLeft
  /\ \E e \in Exception : Throws(c, e)
  /\ UNCHANGED <<enrolled, posted, drawn, file, stops>>

\* SaveToDisk: WriteAllText truncates the file first and is done later.
BeginSave(c) ==
  /\ at[c] = "answered"
  /\ file' = Garbled
  /\ at' = [at EXCEPT ![c] = "writing"]
  /\ UNCHANGED <<enrolled, posted, drawn, up, cached, holder, mine, stops>>

EndSave(c) ==
  /\ at[c] = "writing"
  /\ file' = mine[c]
  /\ at' = [at EXCEPT ![c] = "recording"]
  /\ UNCHANGED <<enrolled, posted, drawn, up, cached, holder, mine, stops>>

SaveFails(c) ==
  /\ at[c] = "writing"
  /\ Throws(c, "io")
  /\ UNCHANGED <<enrolled, posted, drawn, file, stops>>

\* The DeviceEnrolled row is written and the credential returned.
EndEnroll(c) ==
  /\ at[c] = "recording"
  /\ cached' = mine[c]
  /\ Leave(c)
  /\ UNCHANGED <<enrolled, posted, drawn, file, up, stops>>

\* The local audit log cannot be written: the credential is on disk already.
RecordFails(c) ==
  /\ at[c] = "recording"
  /\ Throws(c, "other")
  /\ UNCHANGED <<enrolled, posted, drawn, file, stops>>

GetOrCreate(c) ==
  \/ LoadFromDisk(c) \/ LoadThrows(c) \/ BeginEnroll(c)
  \/ Answer(c) \/ EnrollFails(c)
  \/ BeginSave(c) \/ EndSave(c) \/ SaveFails(c)
  \/ EndEnroll(c) \/ RecordFails(c)

EnrollStep ==
  \/ \E c \in Caller : GetOrCreate(c)
  \/ \E i \in Id : agent_enroll(i) \/ Refuse(i)

Next == EnrollStep \/ StartService \/ StopService \/ StopItself

Spec == Init /\ [][Next]_credentials

-----------------------------------------------------------------------------
\* The token the service authenticates with, and the one a later start will
\* read, belong to a row of the backend: the row commits before the answer,
\* the answer precedes the file and the file the cache, whoever dies between.
CredentialIsEnrolled ==
  /\ file \in Id => file \in enrolled
  /\ cached # None => cached = file

\* However many callers start at once, however often the service dies or the
\* audit log fails, a machine that once has a credential on disk never turns
\* into another device (a row of its own, with none of its requests).
IdentityIsKept == [][(file \in Id) => (file' = file)]_credentials

=============================================================================
