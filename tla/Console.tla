------------------------------- MODULE Console -------------------------------
(***************************************************************************)
(* The dashboard in one browser tab: the views and the queries they mount, *)
(* TanStack Query's cache between them and the backend, the dialogs that   *)
(* change something and invalidate what they think they changed, and the   *)
(* notifier of new requests.                                               *)
(*                                                                         *)
(* The backend's database is a version per datum: of a request 0 is not    *)
(* filed, 1 pending and 2 settled; of the rest, versions count changes.    *)
(* An answer is kept as the versions it was computed from; that a list is  *)
(* cut off at its limit matters to the notifier only (Listed). Queries     *)
(* meet only in the database and in the mutations, so a behaviour follows  *)
(* some of them, and the administrator some of the pages; db keeps what    *)
(* those queries read.                                                     *)
(***************************************************************************)
EXTENDS Naturals, FiniteSets

CONSTANTS
  Request,     \* elevation requests
  Slot,        \* mutations that may be in flight at once
  RequestedAt, \* RequestedAt[r]: requested_at, when the insert of r began
  Focus,       \* what to follow: queries, pages, limit: how many requests the
               \* notifier's poll asks for (100), and bound: changes of db
  MaxRetries,  \* how often a failed fetch is tried again (2)
  MaxVersion,  \* bound: changes of one datum by others, at least 2
  Null         \* no call in a slot; seenIdsRef before the first load

-----------------------------------------------------------------------------
(* What an answer depends on: the response shapes of lib/schemas.ts. *)

MeResponse             == {"account"}
ElevationRequestList   == Request
DeviceList             == {"telemetry", "grouping", "updates"}
DeviceGroupList        == {"groups", "grouping"}   \* device_count
AppAllowlistEntryList  == {"allowlist"}
AlertList              == {"telemetry"}
EnrollmentInfo         == {"enrollment key"}
AuditLogList           == {"audit"}
DashboardSummary       == Request \cup {"telemetry"}

Shared == {"account", "telemetry", "grouping", "updates", "groups", "allowlist",
           "enrollment key", "audit"}

Datum == Request \cup Shared

(* What a call changes: the functions of lib/api-client.ts. Every one of   *)
(* them also writes the backend's audit log.                               *)

approveElevationRequest(r) == {r, "audit"}
denyElevationRequest(r)    == {r, "audit"}
assignDeviceGroup          == {"grouping", "audit"}
requestDeviceUpdate        == {"updates", "audit"}
createDeviceGroup          == {"groups", "audit"}
deleteDeviceGroup          == {"groups", "grouping", "allowlist", "audit"}
createAppAllowlistEntry    == {"allowlist", "audit"}
deleteAppAllowlistEntry    == {"allowlist", "audit"}

-----------------------------------------------------------------------------
(* The queries, by the component whose useQuery mounts them. A key is the  *)
(* first element of queryKey and the rest. polls: refetchInterval is set;  *)
(* background: refetchIntervalInBackground too.                            *)

Query(root, rest, reads, polls, background) ==
  [key |-> <<root, rest>>, reads |-> reads, polls |-> polls, background |-> background]

Filter == {"pending", "approved", "denied", "expired", "all"}

PendingPoll == Query("elevation-requests", "pending-poll", ElevationRequestList, TRUE, TRUE)
Header == Query("me", "", MeResponse, FALSE, FALSE)
AlertsBanner == Query("dashboard-alerts", "", AlertList, TRUE, FALSE)
SummaryCards == Query("dashboard-summary", "", DashboardSummary, TRUE, FALSE)
RecentRequests == Query("elevation-requests", "recent", ElevationRequestList, TRUE, FALSE)
RequestsTable(filter) ==
  Query("elevation-requests", filter, ElevationRequestList, filter \in {"pending", "all"}, FALSE)
ElevationRequestDetail(r) == Query("elevation-request", r, {r}, TRUE, FALSE)
DevicesTable == Query("devices", "", DeviceList, TRUE, FALSE)
GroupsTable == Query("device-groups", "", DeviceGroupList, FALSE, FALSE)
AllowlistTable == Query("app-allowlist", "", AppAllowlistEntryList, FALSE, FALSE)
AuditLogTable == Query("audit-logs", "", AuditLogList, FALSE, FALSE)
EnrollmentCard == Query("enrollment-info", "", EnrollmentInfo, FALSE, FALSE)

Queries ==
  {PendingPoll, Header, AlertsBanner, SummaryCards, RecentRequests, DevicesTable,
   GroupsTable, AllowlistTable, AuditLogTable, EnrollmentCard}
    \cup {RequestsTable(filter) : filter \in Filter}
    \cup {ElevationRequestDetail(r) : r \in Request}

(* The pages, each the set of queries that its components mount. The layout *)
(* around them mounts the notifier and the header.                          *)

DashboardLayout == {PendingPoll, Header}
DashboardPage == {AlertsBanner, SummaryCards, RecentRequests}
ElevationRequestsPage(filter) == {RequestsTable(filter)}
RequestPage(r) == {ElevationRequestDetail(r)}
DevicesPage == {DevicesTable, GroupsTable}
DeviceGroupsPage == {GroupsTable}
AppAllowlistPage == {AllowlistTable, GroupsTable}
AuditLogsPage == {AuditLogTable}
\* The second for role admin.
SettingsPages == {{Header}, {Header, EnrollmentCard}}

Pages ==
  {DashboardPage, DevicesPage, DeviceGroupsPage, AppAllowlistPage, AuditLogsPage}
    \cup SettingsPages
    \cup {ElevationRequestsPage(filter) : filter \in Filter}
    \cup {RequestPage(r) : r \in Request}

ASSUME ConsoleAssumption ==
  /\ Request \cap Shared = {}
  /\ RequestedAt \in [Request -> Nat]
  /\ \A r, s \in Request : RequestedAt[r] = RequestedAt[s] => r = s
  /\ Focus \subseteq
       [queries : SUBSET Queries, pages : SUBSET Pages, limit : Nat, bound : Nat]
  /\ MaxRetries \in Nat
  /\ MaxVersion \in Nat
  /\ \A R \in SUBSET Request : R # Null

(* The mutations: the page that offers them and the query whose rows carry  *)
(* their buttons, what they change, and the roots and the single keys that  *)
(* their onSuccess invalidates.                                             *)

Mutation(where, rows, changes, roots, keys) ==
  [page |-> where, rows |-> rows, changes |-> changes, roots |-> roots, keys |-> keys]

Invalidates(op, q) == q.key[1] \in op.roots \/ q.key \in op.keys

\* A plausible slip: only the open detail view is refreshed.
ApproveForgetsLists(r) ==
  Mutation(RequestPage(r), {ElevationRequestDetail(r)}, approveElevationRequest(r),
           {}, {<<"elevation-request", r>>})

ApproveDialog(r) ==
  Mutation(RequestPage(r), {ElevationRequestDetail(r)}, approveElevationRequest(r),
           {"elevation-requests", "dashboard-summary"}, {<<"elevation-request", r>>})
DenyDialog(r) ==
  Mutation(RequestPage(r), {ElevationRequestDetail(r)}, denyElevationRequest(r),
           {"elevation-requests", "dashboard-summary"}, {<<"elevation-request", r>>})
DeviceGroupSelect == Mutation(DevicesPage, {DevicesTable}, assignDeviceGroup, {"devices"}, {})
UpdateNowButton == Mutation(DevicesPage, {DevicesTable}, requestDeviceUpdate, {"devices"}, {})
CreateGroupDialog == Mutation(DeviceGroupsPage, {}, createDeviceGroup, {"device-groups"}, {})
DeleteGroupDialog ==
  Mutation(DeviceGroupsPage, {GroupsTable}, deleteDeviceGroup,
           {"device-groups", "devices", "app-allowlist"}, {})
CreateEntryDialog ==
  Mutation(AppAllowlistPage, {}, createAppAllowlistEntry, {"app-allowlist"}, {})
DeleteEntry ==
  Mutation(AppAllowlistPage, {AllowlistTable}, deleteAppAllowlistEntry, {"app-allowlist"}, {})

Mutations ==
  {DeviceGroupSelect, UpdateNowButton, CreateGroupDialog, DeleteGroupDialog,
   CreateEntryDialog, DeleteEntry}
    \cup {ApproveDialog(r) : r \in Request} \cup {DenyDialog(r) : r \in Request}

-----------------------------------------------------------------------------
VARIABLES
  focus,     \* what this behaviour follows
  db,        \* db[d]: the committed version of d
  writes,    \* how often db has changed
  page,      \* the page that is open
  visible,   \* the tab is in the foreground
  cache,     \* cache[q]: the entry of q
  call,      \* call[s]: the mutation in flight in slot s
  owed,      \* owed[q][d]: the version a confirmed mutation promised to q's viewer
  seen,      \* seenIdsRef
  fresh,     \* newRequestIds
  timer,     \* the ids that the running highlight timer removes
  known,     \* history: the ids of the first load
  toasts,    \* history: the toasts raised for each request
  crowded    \* history: the pending requests that some answer left out

notifier == <<seen, fresh, timer, known, toasts, crowded>>
vars == <<focus, db, writes, page, visible, cache, call, owed, notifier>>

watched == focus.queries
Scope == UNION {q.reads : q \in watched}
Mounted == DashboardLayout \cup page
Active == watched \cap Mounted

Phase == {"idle", "asked", "answered", "waiting"}

\* loaded: data is there; invalid: isInvalidated; error: the last fetch failed;
\* phase, answer and tries are those of the running fetch.
Entry(q) ==
  [loaded : BOOLEAN, data : [q.reads -> Nat], invalid : BOOLEAN, error : BOOLEAN,
   phase : Phase, answer : [q.reads -> Nat], tries : 0..MaxRetries]

Zero(q) == [d \in q.reads |-> 0]

Empty(q) ==
  [loaded |-> FALSE, data |-> Zero(q), invalid |-> FALSE, error |-> FALSE,
   phase |-> "idle", answer |-> Zero(q), tries |-> 0]

Call == [op : Mutations, phase : {"sent", "done"}, made : [Scope -> Nat]]

TypeOK ==
  /\ focus \in [queries : SUBSET Queries, pages : SUBSET Pages, limit : Nat, bound : Nat]
  /\ db \in [Scope -> Nat]
  /\ writes \in Nat
  /\ page \in focus.pages
  /\ visible \in BOOLEAN
  /\ DOMAIN cache = watched
  /\ \A q \in watched : cache[q] \in Entry(q)
  /\ call \in [Slot -> Call \cup {Null}]
  /\ owed \in [watched -> [Scope -> Nat]]
  /\ seen = Null \/ seen \subseteq Request
  /\ fresh \subseteq Request
  /\ timer \subseteq Request
  /\ known \subseteq Request
  /\ toasts \in [Request -> Nat]
  /\ crowded \subseteq Request

Asking(e) == [e EXCEPT !.phase = "asked", !.tries = 0]
Resting(e, q) == [e EXCEPT !.phase = "idle", !.answer = Zero(q), !.tries = 0]

\* A query that is mounted fetches unless it has good data or a fetch runs.
\* Data older than staleTime is fetched again, other data is not: maybe.
Refreshed(q, maybe) ==
  IF cache[q].phase = "idle" /\ (~cache[q].loaded \/ cache[q].invalid \/ q \in maybe)
    THEN Asking(cache[q]) ELSE cache[q]

\* One tab, opened on some page.
Init ==
  /\ focus \in Focus
  /\ page \in focus.pages
  /\ db = [d \in Scope |-> 0]
  /\ writes = 0
  /\ visible = TRUE
  /\ cache = [q \in watched |-> IF q \in Mounted THEN Asking(Empty(q)) ELSE Empty(q)]
  /\ call = [s \in Slot |-> Null]
  /\ owed = [q \in watched |-> [d \in Scope |-> 0]]
  /\ seen = Null
  /\ fresh = {}
  /\ timer = {}
  /\ known = {}
  /\ toasts = [r \in Request |-> 0]
  /\ crowded = {}

-----------------------------------------------------------------------------
(* The world outside the tab. *)

Write(ds) ==
  /\ ds # {} => writes < focus.bound
  /\ writes' = IF ds = {} THEN writes ELSE writes + 1
  /\ db' = [d \in Scope |-> IF d \in ds THEN db[d] + 1 ELSE db[d]]

\* An agent files or another reviewer, a poll or the allowlist settles a
\* request; agents and other administrators change the rest.
Elsewhere(d) ==
  /\ d \in Scope
  /\ db[d] < IF d \in Request THEN 2 ELSE MaxVersion
  /\ Write({d})
  /\ UNCHANGED <<focus, page, visible, cache, call, owed, notifier>>

\* The administrator turns to another window.
Hide ==
  /\ visible
  /\ visible' = FALSE
  /\ UNCHANGED <<focus, db, writes, page, cache, call, owed, notifier>>

\* ... and comes back: stale views are fetched again.
Show(maybe) ==
  /\ ~visible
  /\ maybe \subseteq Active
  /\ visible' = TRUE
  /\ cache' = [q \in watched |-> IF q \in Active THEN Refreshed(q, maybe) ELSE cache[q]]
  /\ UNCHANGED <<focus, db, writes, page, call, owed, notifier>>

\* A link to another page: its components mount.
Visit(p, maybe) ==
  /\ visible
  /\ p # page
  /\ maybe \subseteq watched \cap (p \ Mounted)
  /\ page' = p
  /\ cache' = [q \in watched |-> IF q \in p \ Mounted THEN Refreshed(q, maybe) ELSE cache[q]]
  /\ UNCHANGED <<focus, db, writes, visible, call, owed, notifier>>

\* The page is loaded anew, by the administrator or after a 401: everything in
\* memory is gone. Calls that were under way end like changes made elsewhere.
Reload ==
  /\ visible' = TRUE
  /\ cache' = [q \in watched |-> IF q \in Mounted THEN Asking(Empty(q)) ELSE Empty(q)]
  /\ call' = [s \in Slot |-> Null]
  /\ owed' = [q \in watched |-> [d \in Scope |-> 0]]
  /\ seen' = Null
  /\ fresh' = {}
  /\ timer' = {}
  /\ known' = {}
  /\ toasts' = [r \in Request |-> 0]
  /\ crowded' = {}
  /\ UNCHANGED <<focus, db, writes, page>>

-----------------------------------------------------------------------------
(* The queries. *)

Set(q, e) == cache' = [cache EXCEPT ![q] = e]

\* A plausible slip: polling ends with the first error.
TickUntilError(q) ==
  /\ q \in Active
  /\ q.polls
  /\ visible \/ q.background
  /\ cache[q].phase = "idle"
  /\ ~cache[q].error
  /\ Set(q, Asking(cache[q]))
  /\ UNCHANGED <<focus, db, writes, page, visible, call, owed, notifier>>

\* The interval has passed; in a hidden tab it does not, but for the notifier.
Tick(q) ==
  /\ q \in Active
  /\ q.polls
  /\ visible \/ q.background
  /\ cache[q].phase = "idle"
  /\ Set(q, Asking(cache[q]))
  /\ UNCHANGED <<focus, db, writes, page, visible, call, owed, notifier>>

\* "Try again" under an error message.
OnRetry(q) ==
  /\ q \in Active
  /\ visible
  /\ cache[q].error
  /\ cache[q].phase = "idle"
  /\ Set(q, Asking(cache[q]))
  /\ UNCHANGED <<focus, db, writes, page, visible, call, owed, notifier>>

\* The backend computes the answer.
Serve(q) ==
  /\ q \in watched
  /\ cache[q].phase = "asked"
  /\ Set(q, [cache[q] EXCEPT !.phase = "answered", !.answer = [d \in q.reads |-> db[d]]])
  /\ UNCHANGED <<focus, db, writes, page, visible, call, owed, notifier>>

Pending(answer) == {r \in Request : answer[r] = 1}

\* order_by(requested_at.desc()).limit(limit): newer requests push older ones out
\* of the list, and these come back when the newer ones are settled.
Newest(limit, R) ==
  {r \in R : Cardinality({s \in R : RequestedAt[s] > RequestedAt[r]}) < limit}

Listed(answer) == Newest(focus.limit, Pending(answer))

\* What the answer says: items and total.
Response(answer) == <<Listed(answer), Cardinality(Pending(answer))>>

\* A plausible slip: seenIdsRef keeps the arrivals of this time only.
NoticeForgets(current) ==
  IF seen = Null
    THEN /\ seen' = current
         /\ known' = current
         /\ UNCHANGED <<fresh, timer, toasts>>
    ELSE LET freshlyArrived == current \ seen IN
         /\ seen' = freshlyArrived
         /\ toasts' = [r \in Request |-> IF r \in freshlyArrived THEN toasts[r] + 1 ELSE toasts[r]]
         /\ fresh' = fresh \cup freshlyArrived
         /\ timer' = freshlyArrived
         /\ UNCHANGED known

\* The effect of PendingRequestsProvider, which runs when the data has changed.
\* Its cleanup stops the timer of the run before.
Notice(current) ==
  IF seen = Null
    THEN /\ seen' = current
         /\ known' = current
         /\ UNCHANGED <<fresh, timer, toasts>>
    ELSE LET freshlyArrived == current \ seen IN
         /\ seen' = current
         /\ toasts' = [r \in Request |-> IF r \in freshlyArrived THEN toasts[r] + 1 ELSE toasts[r]]
         /\ fresh' = fresh \cup freshlyArrived
         /\ timer' = freshlyArrived
         /\ UNCHANGED known

\* The effect runs when data is another object than before. An answer that says
\* the same is replaced by the data there is.
Inform(old, answer) ==
  /\ crowded' = crowded \cup (Pending(answer) \ Listed(answer))
  /\ IF seen = Null \/ Response(answer) # Response(old)
       THEN Notice(Listed(answer))
       ELSE UNCHANGED <<seen, fresh, timer, known, toasts>>

\* The answer arrives and is shown.
Land(q) ==
  /\ q \in watched
  /\ cache[q].phase = "answered"
  /\ Set(q, [Resting(cache[q], q) EXCEPT
               !.loaded = TRUE, !.data = cache[q].answer, !.invalid = FALSE, !.error = FALSE])
  /\ IF q = PendingPoll THEN Inform(cache[q].data, cache[q].answer) ELSE UNCHANGED notifier
  /\ UNCHANGED <<focus, db, writes, page, visible, call, owed>>

\* A plausible slip: the count of failures is not looked at.
RetryForEver(q) ==
  /\ q \in Active
  /\ cache[q].phase \in {"asked", "answered"}
  /\ Set(q, [cache[q] EXCEPT !.phase = "waiting", !.answer = Zero(q), !.tries = @ + 1])
  /\ UNCHANGED <<focus, db, writes, page, visible, call, owed, notifier>>

\* A call or its answer is lost or the backend fails, and another try is to be
\* made, a bounded number of times.
Retry(q) ==
  /\ q \in Active
  /\ cache[q].phase \in {"asked", "answered"}
  /\ cache[q].tries < MaxRetries
  /\ Set(q, [cache[q] EXCEPT !.phase = "waiting", !.answer = Zero(q), !.tries = @ + 1])
  /\ UNCHANGED <<focus, db, writes, page, visible, call, owed, notifier>>

\* The next try, after a while; not in a hidden tab, where the fetch pauses.
TryAgain(q) ==
  /\ q \in watched
  /\ visible
  /\ cache[q].phase = "waiting"
  /\ Set(q, [cache[q] EXCEPT !.phase = "asked"])
  /\ UNCHANGED <<focus, db, writes, page, visible, call, owed, notifier>>

\* The fetch fails for good: its tries are used up, nobody shows the query any
\* more, or the answer was a refusal or of an unexpected shape.
GiveUp(q) ==
  /\ q \in watched
  /\ cache[q].phase \in {"asked", "answered"}
  /\ Set(q, [Resting(cache[q], q) EXCEPT !.error = TRUE])
  /\ UNCHANGED <<focus, db, writes, page, visible, call, owed, notifier>>

\* What no component has shown for five minutes is dropped.
Collect(q) ==
  /\ q \in watched \ Mounted
  /\ cache[q].phase = "idle"
  /\ cache[q].loaded \/ cache[q].error
  /\ Set(q, Empty(q))
  /\ owed' = [owed EXCEPT ![q] = [d \in Scope |-> 0]]
  /\ UNCHANGED <<focus, db, writes, page, visible, call, notifier>>

-----------------------------------------------------------------------------
(* The mutations. *)

\* A button is where its row is shown, those of a request while it is pending.
Offered(op) ==
  /\ page = op.page
  /\ \A q \in watched \cap op.rows :
       /\ cache[q].loaded
       /\ ~cache[q].error
       /\ \A r \in op.changes \cap Request : cache[q].data[r] = 1

Send(s, op) ==
  /\ visible
  /\ call[s] = Null
  /\ Offered(op)
  /\ call' = [call EXCEPT ![s] = [op |-> op, phase |-> "sent", made |-> [d \in Scope |-> 0]]]
  /\ UNCHANGED <<focus, db, writes, page, visible, cache, owed, notifier>>

\* The backend carries it out; a request is settled only while it is pending.
Commit(s) ==
  /\ call[s] # Null
  /\ call[s].phase = "sent"
  /\ \A r \in call[s].op.changes \cap Request \cap Scope : db[r] = 1
  /\ Write(call[s].op.changes \cap Scope)
  /\ call' = [call EXCEPT ![s].phase = "done",
                          ![s].made = [d \in Scope |->
                                         IF d \in call[s].op.changes THEN db[d] + 1 ELSE 0]]
  /\ UNCHANGED <<focus, page, visible, cache, owed, notifier>>

\* onError: it was refused (a request that is no longer pending, a name in use)
\* or lost, or only its answer was. A toast says that it could not be done;
\* nothing is invalidated.
Fail(s) ==
  /\ call[s] # Null
  /\ call' = [call EXCEPT ![s] = Null]
  /\ UNCHANGED <<focus, db, writes, page, visible, cache, owed, notifier>>

\* invalidateQueries: what matches is marked; what is mounted is fetched again,
\* and a running fetch is cancelled for it unless it is the first load.
Invalidated(q) ==
  LET e == [cache[q] EXCEPT !.invalid = TRUE] IN
    IF q \in Mounted /\ (e.loaded \/ e.phase = "idle")
      THEN [Asking(e) EXCEPT !.answer = Zero(q)] ELSE e

\* What the code overlooks: after a device is put into a group the groups' device
\* counts stay as they were, and after any mutation the audit log does.
LeftBehind ==
  {<<DeviceGroupSelect, GroupsTable, "grouping">>}
    \cup {<<op, AuditLogTable, "audit">> : op \in Mutations}

\* Confirming op promises the version it made to the viewers of q that have the
\* data before them.
Promised(op, q, made) ==
  [d \in Scope |->
     IF /\ q \in Mounted /\ cache[q].loaded
        /\ d \in q.reads /\ <<op, q, d>> \notin LeftBehind
        /\ made[d] > owed[q][d]
       THEN made[d] ELSE owed[q][d]]

\* onSuccess.
Confirm(s) ==
  /\ call[s] # Null
  /\ call[s].phase = "done"
  /\ cache' = [q \in watched |->
                 IF Invalidates(call[s].op, q) THEN Invalidated(q) ELSE cache[q]]
  /\ owed' = [q \in watched |-> Promised(call[s].op, q, call[s].made)]
  /\ call' = [call EXCEPT ![s] = Null]
  /\ UNCHANGED <<focus, db, writes, page, visible, notifier>>

-----------------------------------------------------------------------------
(* The notifier's timer. *)

HighlightEnds ==
  /\ timer # {}
  /\ fresh' = fresh \ timer
  /\ timer' = {}
  /\ UNCHANGED <<focus, db, writes, page, visible, cache, call, owed, seen, known, toasts,
                 crowded>>

Next ==
  \/ \E d \in Datum : Elsewhere(d)
  \/ Hide
  \/ \E maybe \in SUBSET watched : Show(maybe)
  \/ \E p \in focus.pages, maybe \in SUBSET watched : Visit(p, maybe)
  \/ Reload
  \/ \E q \in watched : Tick(q)
  \/ \E q \in watched : OnRetry(q)
  \/ \E q \in watched : Serve(q)
  \/ \E q \in watched : Land(q)
  \/ \E q \in watched : Retry(q)
  \/ \E q \in watched : TryAgain(q)
  \/ \E q \in watched : GiveUp(q)
  \/ \E q \in watched : Collect(q)
  \/ \E s \in Slot, op \in Mutations : Send(s, op)
  \/ \E s \in Slot : Commit(s)
  \/ \E s \in Slot : Fail(s)
  \/ \E s \in Slot : Confirm(s)
  \/ HighlightEnds

Spec == Init /\ [][Next]_vars

\* Intervals pass, and calls and answers are lost, but not for ever. (Stated for
\* the queries together, which is each of them where one is watched.) The
\* administrator promises nothing.
Fairness ==
  /\ WF_vars(\E q \in watched : Tick(q))
  /\ WF_vars(\E q \in watched : TryAgain(q))
  /\ SF_vars(\E q \in watched : Serve(q))
  /\ SF_vars(\E q \in watched : Land(q))
  /\ WF_vars(HighlightEnds)

FairSpec == Spec /\ Fairness

-----------------------------------------------------------------------------
(* Properties. *)

\* Once a change of the administrator's own has been confirmed, an open view
\* that was showing the data does not go on showing what was there before: it
\* shows the change, or is being fetched, or says that it failed. (Each dialog
\* names the queries it invalidates; a view that none of them names, or a
\* fetch that was under way, would go unnoticed until somebody's next visit.)
\* Two views do go on so, and LeftBehind sets them aside: nothing in the code
\* refreshes the groups' device counts after an assignment, or an open audit
\* log after anything.
OwnChangesShow ==
  \A q \in Active :
    cache[q].phase = "idle" /\ cache[q].loaded /\ ~cache[q].error
      => \A d \in q.reads : cache[q].data[d] >= owed[q][d]

\* A request that was already there at the first load is never announced, and
\* every other that the notifier has before it has been, once; none is twice.
\* So it is for requests that always had a place in the list. One that newer
\* ones pushed out of the newest 100 is announced when it comes back, whether
\* it has been before or was there at the first load: beyond the limit it is not
\* so that "the "new request" toast never fires more than once per request"
\* (pending-requests-context.tsx).
ArrivalsAnnouncedOnce ==
  \A r \in Request \ crowded :
    /\ toasts[r] <= 1
    /\ seen # Null /\ r \in seen => toasts[r] = IF r \in known THEN 0 ELSE 1

Shows(q, d, n) == cache[q].loaded /\ cache[q].data[d] >= n

\* n changes of something are not seen yet in a polled view that is open.
Lags(n) ==
  visible /\ \E q \in Active : q.polls /\ \E d \in q.reads : db[d] >= n /\ ~Shows(q, d, n)

\* Views that are polled catch up: whatever happened, they show it again and
\* again, for as long as they stay open in a visible tab; after a failure or a
\* change of page they recover without anyone's help.
OpenViewsConverge == \A n \in 1..MaxVersion : []<>~Lags(n)

\* "How long a request stays visually flagged as "new" after first appearing":
\* the flag does not stay for ever.
HighlightIsBrief ==
  \A r \in Request : (r \in fresh) ~> (r \notin fresh)

=============================================================================
