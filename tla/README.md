# ElevateGate, verified

TLA+ modules for ElevateGate: endpoint users ask for one `.exe` or `.msi` to be
run elevated, administrators decide, and a Windows service carries the decision
out. Paths below are relative to the repository's root; `Service/`, `Core/` and
`Infrastructure/` stand for `src/ElevateGate.Service/` and so on, and `app/`
for `backend/app/`.

To check one run: `tlc -workers 2 -config Gate.cfg ElevateGate.tla`; to check
the proofs of a module: `tlapm AgentProofs.tla`. `PROJECT.json` lists the runs,
the mutants that show each property can fail, the theorems, the source lines
behind each definition, and the hazards.

## 1. The system

| part | state | operations |
|---|---|---|
| **Review** (`app/api/v1/elevation_requests.py`, `app/repositories/elevation_request_repository.py`) | table `elevation_requests`: status, device, expires_at, reviewed_at, reviewed_by | submit, approve, deny, expiry by a late click |
| **Agent API** (`app/api/v1/agent_compat.py`, `agent.py`) | the same table; `devices` | enroll, submit with the allowlist's approval, heartbeat, poll decisions with bulk expiry |
| **Approvals** (`app/core/approvals.py`, `app/api/v1/approvals.py`) | table `approvals`: nonce, expires_at, signature, consumed_at | issue and sign, mark consumed |
| **Audit log** (`app/core/audit.py`) | table `audit_logs` | stage a row in the caller's transaction |
| **Devices, groups, allowlist** (`app/repositories/device_repository.py`, `app_allowlist_repository.py`, ...) | tables `devices`, `device_groups`, `app_allowlist` | telemetry, update requests, assignment, matching |
| **Administrators** (`app/api/v1/auth.py`, `app/core/security.py`) | table `admin_users`; stateless JWT | log in |
| **Request coordinator** (`Service/RequestTracking`) | in memory: request id -> path, status | submit (hash, track, POST), answer the tray |
| **Polling worker** (`Service/Workers/ApprovalPollingWorker.cs`) | watermark `sinceUtc` | poll, deal with each decision |
| **Execution engine** (`Service/Execution`, `Core/Validation/ApprovalTokenValidator.cs`) | none | re-check path, hash and token, consume the nonce, start the process, wait |
| **Local stores** (`Infrastructure/Persistence`) | SQLite: consumed nonces, audit rows | insert |
| **Credential store** (`Service/Enrollment`) | credential file, cache | enroll once, load |
| **Pipe server** (`Service/Pipes`) | one connection at a time | submit, get status |
| **Self-update and telemetry** (`Service/Update`, `Service/Telemetry`) | a gate, the executables and their `.old` copies | heartbeat, check, download, swap, restart |
| **Tray** (`src/ElevateGate.Tray`) | form: request id, shown status, poll timer | submit, poll, notify |
| **Dashboard views** (`dashboard/components`, `dashboard/lib/api-client.ts`) | TanStack Query's cache in each tab | queries on mount, interval and invalidation; dialogs and buttons that change something |
| **Notifier** (`dashboard/lib/pending-requests-context.tsx`) | ids seen, ids highlighted, a timer | toast and highlight for requests that appear |
| **Dashboard session** (`dashboard/proxy.ts`, `dashboard/app/api`, `dashboard/lib/auth.ts`) | a cookie that all tabs share | log in, log out, relay a call, clear the cookie on a 401 |

How they interact: the tray talks to the service over a named pipe; the
coordinator and the polling worker share the state store, concurrently; the
service calls the backend over HTTP and the backend never calls back, so every
decision reaches the device by a poll with a watermark; administrators go
through the dashboard's stateless proxy to the same backend, whose handlers
meet only in the database. A token signed by the backend is the one thing the
engine believes.

What is hard, and what makes each part correct:

* **Review** - handlers of several administrators, of a device's poll and of a
  late click interleave between `await`s and wait for each other's row locks;
  each may be rolled back. *A request is decided once and for good; tokens,
  audit rows and answers agree with the decision; nothing expires early;
  whatever lapses is settled.*
* **Agent** - the service dies at any point, decisions come again, out of place
  or with another request's token, files change, SQLite fails. *A process
  starts only with the request's own, unexpired, unspent token for the content
  that was submitted, once; the log and the status shown are true.*
* **Both together** - answers get lost, cycles break off, the watermark is read
  on one machine and the decision stamped on the other, ids change their
  spelling. *The tray shows only what the backend decided, and every decision
  that is waited for arrives.* The code keeps the first. It does not keep the
  second: with the ids it makes no decision finds its request, and with ids that
  came back as they were sent only the decisions that a poll itself makes, the
  expiries, would be sure to arrive (section 6).
* **Enrollment** - three callers want the credential at the first start, the
  backend commits and its answer is lost, the file is truncated by a crash, an
  exception leaves through a caller that does not catch it and ends the host.
  *One machine keeps one identity, the backend knows it, and it is reached.*
* **Updates** - heartbeats overlap and decide on a row as they loaded it, two
  triggers want to swap, and a swap may fail or end at any of its steps. *A
  request to update reaches the device, the version shown becomes the one that
  runs, a runnable build stays on disk.* That a failed swap can be repeated is
  not so: section 6.
* **Tray and pipe server** - the form's handlers overlap with the ticks of its
  timer, the pipe serves one connection at a time, breaks, or is served no more.
  *Every call ends, the outcome that the form waits for is announced, what is
  announced is so, and a form that has gone grey takes input again.* The last is
  not so once the service has restarted and forgotten the request, which
  docs/THREAT_MODEL.md accepts; the third not when a late answer meets the next
  request (section 6).
* **Dashboard views and notifier** - fetches are lost, overtaken by changes or
  paused in a hidden tab, and each dialog names by hand the queries it makes
  stale. *Nobody goes on seeing the state before his own change; polled views
  catch up; an arrival is announced once.* Two views are left stale and a list of
  more than 100 pending requests breaks the last (section 6).
* **Session** - calls carry the cookie of the moment they are sent, and their
  401 clears the cookie of the moment it arrives. *A refused token does not come
  back; a tab with a dead session reaches the login page.*

## 2. The modules

| module | what it is | theorems in |
|---|---|---|
| `Verdict` | abstract: a request is settled at most once; a token exists exactly for an approval | |
| `ElevationRequests` | the backend's transactions; implements `Verdict` | `ElevationRequestsProofs`, `ReviewProofs` |
| `Licence` | abstract: an approval is a licence to run one file once | |
| `Agent` | coordinator, worker, engine and SQLite stores of one device, against arbitrary answers; implements `Licence` | `AgentProofs` |
| `Elevation` | abstract, extends `Verdict`: what was submitted and approved runs, once, and only what is so is told | |
| `ElevateGate` | `Agent` with the backend's own answers, the watermark and the spelling of ids; implements `Elevation` | `ElevateGateProofs` |
| `Enrollment` | the credential store, its callers and the backend's `enroll` | `UpdatesProofs` |
| `Upgrade` | abstract: a newer build takes the place of the running one in one step | |
| `Updates` | `Enrollment` with heartbeats, update requests and the swap of executables; implements `Enrollment` and `Upgrade` | `UpdatesProofs` |
| `Tray` | the request form, the pipe client and the pipe server | `TrayProofs` |
| `Console` | the dashboard's queries, pages, mutations and notifier | `ConsoleProofs` |
| `Session` | the session cookie, the tabs and the dashboard's server routes | `SessionProofs` |
| `MCAgent`, `MCConsole` | instances for TLC: a symmetry set; the queries that are followed and the order of requests | |

### ElevationRequests

One action per stretch of a handler between two `await`s that others can
observe. `row` is what is committed. A handler that ran its `UPDATE` (`staged`,
`expiring`) holds the row's lock (`Locked`), and its change appears in `row`
with the commit, together with the token and the audit row that the code puts
into the same session; `Rollback` is a lost connection or a dead process before
that. `StillPending` is the `WHERE status = 'pending'` of `transition_status`,
evaluated on the committed row once the lock is free, which is what PostgreSQL
does under READ COMMITTED. The test for the window (`FindFresh`, `FindStale`)
and the stamp of the decision are two reads of the clock, as in the code.
`SubmitBegin` reads the clock, `SubmitCommit` or `AutoApprove` commits: nobody
else sees the row in between. `PollExpire` is the bulk `UPDATE` with its commit:
the poll does nothing between the two. `PollList` is the query after it.

Left out: the fields that no test looks at (names, paths, sizes, reasons), the
authentication before each handler, and paging.

### Agent

`tracked` is `RequestStateStore`, `spent` and `rows` the SQLite files (rows
about decisions only), `worker` the polling worker's position in
`HandleDecisionAsync` / `ExecuteAsync` / `ValidateAsync`, with the hash and the
time of the vetting it carries; `batch` is the rest of the answer it works
through, its head the decision in hand. Every `await` is a step boundary, so
submissions, file changes, the clock and a stop fall between any two of them.
`StopService` is a crash as well as a stop; what it clears is what is only in
memory. The backend is reduced to what the agent depends on: it files what it
receives (perhaps after the sender has given up) and signs at most one token
per request, which `ElevationRequests` shows it does; `Answers` lets a poll
return anything that can be put together from signed and garbled tokens.
`starts` and `launched` record what the service has started and are read by no
action.

Left out: the text of paths, signatures and reasons. A file that the path rules
refuse, or that is not there, has `content[f] = None`. Whether `t \in issued`
stands for the Ed25519 check of the canonical payload: a signed payload contains
exactly the fields of `Token`.

### ElevateGate

Extends `Agent`: `Poll` computes the answer as
`expire_stale_pending_requests_for_device` and `list_decisions_for_device_since`
do, `since` is the worker's watermark, `staged` a review between its stamp and
its commit. The backend reads an id into a `uuid.UUID` and writes it with dashes;
the agent compares text. So `WireId` gives an id back as it was only if it was
written with dashes in the first place (`dashed`). The code's ids,
`ToString("N")`, are not: that is the initial state `dashed = {}`. The other
initial state, agents that write their ids with dashes, is there to tell what is
wrong because of the spelling from what is wrong besides. Every property of
`Gate` is checked from both. `ShownVerdictIsBackends` and `RefinesElevation` hold
in both; `NoExpiryIsMissed` and the arrival of an expiry at the tray are
statements about requests in `dashed`; of the code's own ids
`UnreviewedRequestSurfaces` says that the expiry is made and handed to the
worker, which then skips it. The two clocks are one.

`RefinesElevation` reads the promise off the two sides: a verdict is the
committed row, a submission the request's POST, a run a process started, and
what the user is told the entry of `RequestStateStore`. Polls, batches, tokens
in transit, nonces and the watermark are no part of `Elevation`; each step on
them must be a stutter there. `NoExpiryIsMissed` is what the watermark keeps of
its promise: of a request that no administrator acts on, the expiry is either
in the worker's hands or not older than the watermark. (For an administrator's
decision the same is false, which is the run `Watermark`.)

### Enrollment

`holder` is `_lock`, `cached` is `_cached`, `file` the credential file, `at` a
caller's position in `EnrollAsync` and `mine` the Guid it draws there. A
credential is named by the Guid it was issued for. `agent_enroll` commits a row
when the POST reaches the backend, perhaps after the caller has given up or
died. `WriteAllText` truncates first (`BeginSave`), so a stop leaves `Garbled`.
Three kinds of exceptions are told apart, because the callers are: telemetry
catches everything, the pipe server what it takes for a broken connection or
its own stop, the polling worker nothing, and what nobody catches ends a
`BackgroundService` and with it the host. `Id` bounds the attempts: a stop is
not taken while no Guid is left to enroll under (`AttemptsLeft`).

### Updates

Extends `Enrollment`. `gate` and `stage` are `UpdateCoordinator`'s semaphore and
each trigger's position past it; `installed` and `backup` are
`ElevateGate.Service.exe` and its `.old`, `image` the one that the process runs
from. Windows renames a running executable and refuses to delete it: `Locked`.
The tray's executables are one step that may fail. A heartbeat handler decides
on the row as authentication loaded it (`serving`), with the administrator's
request and other heartbeats in between; `RETURNING` does not refresh it.
Releases and versions are numbers, agents always report theirs.

`RefinesUpgrade` says what the device has: the executable, or while there is
none its leftover. Of all the steps of a swap only the copy changes that, from
the version that runs to a newer release; renames, failures, crashes and a
second trigger do not.

### Tray

One form. `call` are its calls through the pipe, at most as many at a time as
`Call` has members: a submission, and ticks of the timer that do not wait for
each other. `Accept`, `ConnectTimesOut` and what follows are
`PipeClient.SendAsync`; `serving` is the connection of the pipe server, which
has one at a time, `Other` that of another user's form. `EndServer` is the
enrollment's timeout that `NamedPipeServer` takes for its own stop: it ends
`listening` while the service stays `up`. It can only happen while nothing was
tracked yet (`MayEnroll`), since a tracked request had a credential and the
service keeps that; another form may do the same (`LoseServer`). The receiving
halves of the async handlers are actions of their own (`Submitted`,
`NotifyOutcome`, ...), and they do not ask which request an answer is about, as
in the code. When decisions change a status is `Agent`'s matter, here any known
request may be settled, and settled anew.

A balloon names no request, so to the user it is about the one on the form.
`told` records what was announced since the form got its request, `had` what the
service ever had on record for a request, `crossed` that the request came on the
form while a check of another was under way. `AnnouncementIsTrue` says that what
was announced is in `had` and is not pending again, without `crossed`; with it,
that is false of the code, as a late answer about the request before is
announced over the new one. `FormComesBack` says that a grey form takes input
again unless its request is undecided or forgotten. `Forgotten` is what a restart
does: each check is then answered "Unknown request id.", `StatusShown` changes
nothing, the timer goes on, and the form may stay grey for good. Left out: the
label's text; closing the form, which leaves the timer running and so changes
nothing here.

### Console

`db` is a version per datum. A query is its key, what its answer depends on,
and whether and how it polls; a page is the set of queries its components
mount; a mutation is the page and rows that offer it, what it changes in the
database, and the keys that its `onSuccess` invalidates. Those three catalogues
are the code's `useQuery` and `useMutation` calls; the rest of the module is the
cache: fetch, answer taken (`Serve`) and arrived (`Land`), retries, intervals
that stop in a hidden tab, data dropped when nobody shows it. `owed`, `known`,
`toasts` and `crowded` are histories. Queries meet only in the database and in
mutations, so a behaviour follows those in `focus`. `LeftBehind` names what the
code leaves stale, nothing in it says why: the `device_count` of a group after
an assignment, and an open audit log after everything. `OwnChangesShow` is false
of these two and speaks of all others. `HighlightEnds` is the notifier's timer,
which the cleanup of the next poll's effect cancels.

The notifier asks for the newest pending requests up to a limit, 100 in the code
and `focus.limit` here; `Newest` is the backend's `ORDER BY requested_at DESC
LIMIT`. `Listed` is what it gets and what `seenIdsRef` keeps, so a request that
was pushed out by newer ones and comes back is an arrival once more. `crowded`
collects the requests to which that may happen, and `ArrivalsAnnouncedOnce` is
about the others.

### Session

`jar` is the cookie, `get`, `sign` and `out` a tab's data call, login and
logout. A call keeps the token it was sent with; what its answer does to the
cookie it does to whatever is there then. `Enter` and `Arrive` are the
navigations with `proxy.ts`'s test, which asks only whether there is a cookie.

## 3. The runs

| run | bounds | question |
|---|---|---|
| `RequestRace` | 1 request that the allowlist may approve, 2 reviewers, 2 devices, times 0..2, windows of 1, fair | one request under every race: safety, `Verdict`, and that what lapses is settled |
| `LateVerdict` | 1 request, 1 reviewer | *violated*: a decision after the window |
| `Agent` | 2 requests, 1 file, 2 hashes, 1 token, 2 devices, answers of one decision, times 0..1 | own token only, once, `Licence`, the audit log and the status shown |
| `Gate` | 2 requests, one that nobody reviews, answers of 2, times 0..2, both spellings, fair | `Elevation`, what the tray shows, that the watermark passes no expiry the agent would recognize, that an unreviewed request is settled and handed over, and surfaces if the id comes back as it was |
| `Watermark` | 1 request, both spellings, fair | *violated*: a decision that is never delivered, although the agent would know its id |
| `IdForm` | 2 requests, both spellings | *violated*: every decision is on an unknown id |
| `Fleet` | 2 Guids, polling worker and pipe server, 1 stop, 1 release, 2 heartbeat handlers, 1 row an administrator acts on, fair | one identity, one build, `Upgrade`, and that backend and device come to agree |
| `UpdateLands` | 1 Guid, 1 caller, 1 handler, no stop, every step repeated | *violated*: a release that is never installed |
| `Console` | each query in turn with the pages about it, 2 requests, 1 retry, 2 changes (3 for the notifier), a pending list with place for both requests or for one, fair | own changes show but for the two stale views, arrivals that always had a place are announced once, views catch up |
| `Highlight` | the notifier alone, 3 changes, fair | *violated*: a highlight that stays |
| `Session` | 2 tabs, 2 logins, fair | a refused token stays away, a logout is not undone, a dead session ends at the login page |
| `Tray` | 1 form, 2 requests after another, 2 calls at a time, 2 outcomes, fair | only what is so is announced, calls end, the outcome is announced, a grey form comes back unless its request is forgotten |

Why the bounds are enough. A race for one row needs two handlers that hold and
wait; a third can only wait behind them, and the two kinds of verdict, the polls
of the row's device and of another, and the allowlist's approval are all
present. The ticks place a window's end before, on and after the reads of the
clock. Crossing a token needs two requests; a replay needs one token and one
more delivery, and since answers are arbitrary in every cycle, an answer of one
decision at a time reaches what longer answers reach, except for what a
cut-short batch drops, which `Gate` has. Two hashes tell a changed file from the
approved one. Two Guids and one stop allow an enrollment that is lost and one
that follows, two callers a race for the lock, two handlers an overtaken
heartbeat; each release goes through the same steps, so one suffices for
the crash and the leftover. (A second release that overtakes a swap is left to
`ImplementsUpgrade`; the safety of `Fleet` was also checked with two.) For the cache two versions tell an answer from
before a change from one after it. Two tabs make a login race a refusal, two
requests make a late answer meet a new submission, and push each other out of a
list of one. Two outcomes, of which one is "Failed", tell one that was announced
from one that was on record; the form treats "Approved", "Denied" and "Expired"
alike but for the wording (`Outcome`). The theorems of section 5 do
not depend on any of these bounds; a token that looks right and was not signed
(`Garbled`) is left to them altogether.

`Agent` uses symmetry (requests and hashes): no action or property there singles
out a member, and no liveness is checked. Deadlock checking is off in `Fleet`
and `UpdateLands` only: a machine whose executable is gone stays down.

## 4. Fairness

`ElevationRequests!Fairness`: time passes; a handler that runs reaches its end
(it awaits nothing but the database); devices keep polling. A poll's `UPDATE`
that waits for a row lock stands in PostgreSQL's queue of that row and is not
overtaken forever: strong fairness of `PollExpire`. Polls break off before
their `UPDATE` has committed, but not for ever. Administrators, submissions and the allowlist have no fairness.

`ElevateGate!GateFairness`: time, reviews in progress, the worker's timer and its work
through an answer. The installer is assumed to exit (`HandlingSteps` contains
`ProcessExits`), which the code cannot enforce: without it no liveness holds,
since one installer that stays keeps the only worker. Answers are lost and
cycles fail, but not for ever. Users, administrators and the service's being
up are not assumed: after a restart the agent does not know its requests any
more and `UnreviewedRequestSurfaces` speaks only of those it knows.

`Updates!FairSpec`: a service that is down is started again; the polling worker
asks for its credential at each start; a call under way goes on and the backend
handles what reaches it; telemetry comes round, and the answer to one heartbeat
or another arrives (strong fairness, since many may be lost first). Nobody has
to submit, publish, ask for an update, or stop. `UpdatingSpec` adds, to make the
violated promise as weak as possible, that the timer fires and no step of an
update fails for ever.

`Tray!Fairness`: the timer ticks, an attempt to connect ends within its five
seconds, other forms do not keep the pipe for ever, not every connection breaks
(strong fairness of `GetStatus`). The user, the backend and the start of the
service are not promised.

`Console!Fairness`: intervals and retries come round while they run; calls and
answers are lost, but not for ever; the timer of a highlight fires if it is not
cancelled. `Session!Fairness`: navigations end, a tab's poll goes on, some of
its answers arrive. In both the administrator promises nothing.

## 5. What is proved

For every value of the constants that satisfies the named assumptions of the
modules (`ConstantsAssumption`, `AgentAssumption`, `GateAssumption`,
`EnrollmentAssumption`, `UpdatesAssumption`, `SessionAssumption`,
`ConsoleAssumption`, `TrayAssumption`): times and bounds are naturals, `None` and the like are no
real values, the callers that are named are callers; nothing else.

`ElevationRequestsProofs`: `TypeCorrect` and `DecisionsAreFinal`. The inductive
invariant adds to the types that a row lock has one holder *and that the row
under it is still pending* (`LockInv`): this is what carries the status test at
the `UPDATE` to the commit; that the clock values handlers carry are not in the
future and those that expire a request are from after its window (`StampInv`);
and that a row being inserted is not there yet (`SubmissionInv`).

`ReviewProofs`: `TokensMatchVerdicts`, `AuditIsExact`, `ExpiryHonest`,
`AnswersHold`, `InboxesHold` and `ImplementsVerdict`. Of the handlers' many
steps only five kinds change what is committed (`Files`, `Approves`, `Denies`,
`Expires`, `Consumes`; `StepCommits` shows that every other step is `Quiet`),
and each changes a row together with its token and its audit row. `LockInv` is
what makes a commit that was staged earlier such a change: the row is still
pending when the commit arrives. So the properties are proved against five
commits instead of some twenty actions, together in `FullInv`: a consumed row
is `Accounted` for only because tokens are one per request, and an inbox stays
true because decided rows and their tokens are permanent. A commit is one step
of `Verdict`, as `TokenOf` then picks the same token before and after.

`AgentProofs`: `TypeCorrect`, `OnlyLicensedLaunches`, `AtMostOneRun`,
`AuditIsComplete`, `StatusTruthful` and `ImplementsLicence`. The invariant
follows a decision through the engine: tokens are one per request and per nonce
and match what was sent (`TokenInv`); the worker beyond `TakeApproval` works on
an approved, tracked, recorded decision (`EngagedInv`); each test leaves its
result for the next (`EngineInv`), up to `cleared`, where the nonce is spent
and the request has not run; a request that has run has a token that is spent
(`StartInv`). So a worker that finds a nonce fresh works for a request that has
not run, however often the answer was repeated and the service restarted in
between: the step of the proof that the order of consuming and starting, and
the durability of the nonce, are needed for. `StartProcess` is the one step
that `Licence` sees as `Run`, `Sign` the one it sees as `Grant`.

Each action has one lemma, in which the steps are the parts of the invariant.

`ElevateGateProofs`: `ShownVerdictsAreBackends`, `ImplementsElevation`,
`ExpiriesAreDelivered`, and `AgentPromisesHold`, which carries `AgentProofs` over
to the agent with the real backend. A verdict
comes to the tray by way of a row, an answer and the batch, each older than the
next; `GateInv` says that a review is staged on a pending row only
(`StagedOnPending`), and that the batch agrees with the committed rows
(`BatchIsBackends`), which stays true because rows only settle.
On this rests `ImplementsElevation`: the backend's commits are reviews,
`StartProcess` is `Run` (the worker has a decision that the rows confirm, and a
request that has not run), each update of the state store is a `Show` of what
is deserved by then, a restart is `Forget`, everything else a stutter. It is the
one theorem that no side could have alone: `Agent` knows nothing of rows and
`ElevationRequests` nothing of processes.

`ExpiriesAreDelivered` needs `WatermarkInv`: an expiry that a tracked request
still waits for (`Overdue`) is never older than `since`, and in the rest of the
batch while the worker is in a cycle (`Delivered`). A poll puts it
into the batch since its query lists what is not older; only dealing with it, or
a cut-short cycle that leaves `since` alone, takes it out; and `since` moves only
when the batch is empty. A row that only a poll settles is stamped and listed in
one call, which is what an administrator's decision lacks.

`UpdatesProofs` begins with `Enrollment` alone: `TypeCorrect`,
`CredentialEnrolled`, `IdentityKept`. Whoever
is inside `EnrollAsync` holds the lock, with nothing cached (`LockedInside`); up
to the answer there is no file (`NoFileYet`); an answer comes from a committed
row (`AnswerIsCommitted`); what is written is one's own (`FileIsMine`). So at
most one Guid can reach the disk between two crashes, and none can replace it.

Then `ImplementsEnrollment` shows each step of the composed device to
be a step of `Enrollment` or a stutter, and brings `CredentialAlwaysEnrolled` and
`IdentityAlwaysKept` with it. `UpdatesTypeCorrect`, `AppliesAlone` and
`SomeBuildSurvives` rest on `GateHeld` (past the gate means holding it),
`RunsFromLeftover` (after the rename the process runs from `.old`) and
`ImageIsProcess`: the file that a process runs from cannot be deleted, so while
the executable is missing its predecessor is there. `ImplementsUpgrade` adds that
a trigger past the download has a published release newer than the process
(`TargetIsNewer`) and copies it to where no executable is (`CopiesIntoGap`): two
triggers, or a retry after a failure, would otherwise replace a build that was
never started. `Copy` is the one step that `Upgrade` sees as `Install`.

`SessionProofs`: `TypeCorrect`, `RefusedStaysGone`, `SignOutStaysFinal`. The property alone is not
inductive, since a login under way might bring the refused token back; it cannot
because a token is in one login's answer at most and goes into the jar once
(`AnswersAreNew`), and everything else that names a token had it from the jar
(`FromTheJar`). From the same invariant only a login's answer, never that of a
call sent before, can put a token into the jar. The types of `Session` are left to
`TypeCorrect`; no run repeats them.

`ConsoleProofs`: `TypeCorrect`, `CatalogueIsExact`, `OwnChangesAreShown`,
`ArrivalsAreAnnouncedOnce`. First facts without time: `CatalogueIsComplete`,
that every mutation invalidates every query that reads what it changes, except
those in `LeftBehind`, by going through both catalogues (`MutationTable`,
`QueryTable`), and `CatalogueIsExact`, that these it does not invalidate: the
exceptions are the gaps of the code and no more. Then that an entry which is settled, loaded and without error has
what is owed (`EntriesAreSound`), as an invalidation makes every answer from
before the change be fetched again. For the notifier, that answers to the
pending poll arrive in the order of the database (`AnswersInOrder`), so that a
request which has been settled does not come back, and one that never had to
make room for newer ones is among those seen for as long as it is pending
(`Noticed`). Neither the limit nor the order of requests matters to the proof.

`TrayProofs`: `TypeCorrect`, `AnnouncementsAreTrue`. `TrayInv` says that a call
about a request names one (`CallsNameRequests`), that whatever has a status, is
being filed or is on the form has an id that is used up (`StatusIsDrawn`,
`TrackedIsDrawn`, `FormIsDrawn`), that the outcome in an answer under way is on
record and settled for good (`AnswersHold`): no id is made twice and no settled
status turns back, so an answer that is late by any number of steps is no less
true. And without `crossed` every check asks for the request on the form
(`ChecksAskForTheForm`), which is what makes its outcome that request's.

Only model-checked: all liveness, which is out of the prover's reach: `LapsedRequestIsSettled`, `UnreviewedRequestSurfaces`,
`RequestReachesDevice`, `ShownVersionConverges`, `EventuallyEnrolled`,
`CallsEnd`, `OutcomeIsAnnounced`, `FormComesBack`, `OpenViewsConverge`, `DeadSessionEndsAtLogin`.

## 6. Where code and documents disagree

Each of these is a run that TLC finds violated; PROJECT.json quotes the lines.

* `IdForm`: the agent's ids have no dashes, the backend's have, and the agent
  compares text; no decision ever finds its request.
* `Watermark`: the agent asks next for what was decided after it had finished
  with the last answer, not after the last answer was made.
* `LateVerdict`: the window is tested before the `UPDATE`, not by it.
* `UpdateLands`: a swap that fails after its rename leaves a file that the same
  process can neither delete nor rename onto, so each later attempt fails.
* `Highlight`: the cleanup of one poll cancels the timer of another, and the
  highlight stays until the page is loaded anew.

Met on the way and part of the models, without a run of their own:

* A replayed token is logged as `ExecutionFailed`, where `docs/DEVELOPMENT.md`
  lines 70-72 expect a `ValidationRejected` row.
* In the tray a late answer about the previous request is announced over the form
  of the new one and stops its timer, so that the outcome of the new one is never
  announced (`RequestForm.cs` line 152; `AnnouncementIsTrue` and
  `OutcomeIsAnnounced` set it aside), and two ticks that overlap announce one
  outcome twice (line 141).
* After a restart of the service the form that waits for a request stays grey and
  asks for ever for an id that is unknown (`RequestForm.cs` lines 142-146,
  `RequestCoordinator.cs` lines 107-109). docs/THREAT_MODEL.md, lines 215-218,
  accepts the loss of tracking; `FormComesBack` sets it aside.
* With more than 100 pending requests the notifier announces a request again that
  newer ones had pushed out of its list, and announces those that were there at
  the first load when they come back, although `pending-requests-context.tsx`,
  lines 31-35, says that the toast "never fires more than once per request".
  `Console` reaches it in its list of one (`Cramped`); `ArrivalsAnnouncedOnce`
  sets the pushed-out aside.
* No dialog refreshes an open audit log, and putting a device into a group does
  not refresh the groups' device counts (`device-group-select.tsx` lines 26-28).
  `OwnChangesShow` sets these aside, `CatalogueIsExact` proves that there are no
  others.
* An enrollment that times out inside a submission ends the pipe server while
  the service runs on (`NamedPipeServer.cs` lines 58-61).
* An exception of SQLite or HTTP inside a submission's enrollment is not caught
  by the pipe server and stops the host.

## 7. Not modelled, and why

* Pure functions on text: the Windows path rules, the comparison of versions,
  the canonical payload, the allowlist's matching rule. They are sequential and
  have unit tests; in the models a refused path is a file without content, a
  version a number, a payload the record `Token`, a match any member of `Trusted`.
* External: Ed25519, DPAPI, GitHub, the service control manager.
* Administrators' passwords, the encoding of JWTs, rate limits, the HTTP-Basic
  routes of `app/api/v1/devices.py`: stateless or one transaction with nothing
  behind it. Statistics, paging and filters of listings: single reads, of which
  `Console` keeps what they depend on.
* The tray's label, its activation channel between two launches and its elevated
  exit: one-shot hand-overs without state. The tray's own executables in a swap
  are one step. UI primitives of the dashboard, migrations and install scripts.
* Two clocks: agent and backend share one. A skew moves the watermark and
  expiries by a constant and adds to the case that `Watermark` shows.

Left out of the models although the code has them: a first heartbeat after a
version was never reported clears a request to update that was not told; rows
of devices whose enrollment's answer was lost stay in the list; a soft
navigation keeps the notifier's memory after a logout; an approval whose answer
is lost is reported to the administrator as not made.
