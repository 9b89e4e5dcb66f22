---------------------------- MODULE ConsoleProofs ----------------------------
(***************************************************************************)
(* Proofs about module Console, for any requests, slots, views and bounds. *)
(***************************************************************************)
EXTENDS Console, TLAPS

(***************************************************************************)
(* The catalogue of queries and mutations: whatever a mutation changes, it *)
(* invalidates every query that reads it, but for what LeftBehind names.   *)
(***************************************************************************)
RequestChange(op) ==
  \E r \in Request : /\ op.changes = {r, "audit"}
                     /\ "elevation-requests" \in op.roots
                     /\ "dashboard-summary" \in op.roots
                     /\ <<"elevation-request", r>> \in op.keys

DeviceChange(op) ==
  /\ "devices" \in op.roots
  /\ \/ op.changes = {"grouping", "audit"} /\ op = DeviceGroupSelect
     \/ op.changes = {"updates", "audit"}

GroupChange(op) ==
  /\ op.changes \in {{"groups", "audit"}, {"groups", "grouping", "allowlist", "audit"}}
  /\ "device-groups" \in op.roots
  /\ "grouping" \in op.changes => "devices" \in op.roots /\ "app-allowlist" \in op.roots

EntryChange(op) == op.changes = {"allowlist", "audit"} /\ "app-allowlist" \in op.roots

LEMMA MutationTable ==
  ASSUME NEW op \in Mutations
  PROVE  RequestChange(op) \/ DeviceChange(op) \/ GroupChange(op) \/ EntryChange(op)
<1> USE DEF Mutation
<1>1. CASE op \in {DeviceGroupSelect, UpdateNowButton}
  <2>1. DeviceChange(op)
    BY <1>1
       DEF DeviceGroupSelect, UpdateNowButton, assignDeviceGroup, requestDeviceUpdate, DeviceChange
  <2>2. QED BY <2>1
<1>2. CASE op \in {CreateGroupDialog, DeleteGroupDialog}
  <2>1. GroupChange(op)
    BY <1>2
       DEF CreateGroupDialog, DeleteGroupDialog, createDeviceGroup, deleteDeviceGroup, GroupChange
  <2>2. QED BY <2>1
<1>3. CASE op \in {CreateEntryDialog, DeleteEntry}
  <2>1. EntryChange(op)
    BY <1>3
       DEF CreateEntryDialog, DeleteEntry, createAppAllowlistEntry, deleteAppAllowlistEntry,
           EntryChange
  <2>2. QED BY <2>1
<1>4. CASE op \in {ApproveDialog(r) : r \in Request} \cup {DenyDialog(r) : r \in Request}
  <2>1. RequestChange(op)
    BY <1>4
       DEF ApproveDialog, DenyDialog, approveElevationRequest, denyElevationRequest, RequestChange
  <2>2. QED BY <2>1
<1>5. QED
  BY <1>1, <1>2, <1>3, <1>4 DEF Mutations

Root(q, root) == \E rest : q.key = <<root, rest>>

ReadsRequests(q) ==
  \/ q.reads = Request /\ Root(q, "elevation-requests")
  \/ q.reads = Request \cup {"telemetry"} /\ Root(q, "dashboard-summary")
  \/ \E r \in Request : q.reads = {r} /\ q.key = <<"elevation-request", r>>

ReadsFleet(q) ==
  \/ q.reads = {"telemetry", "grouping", "updates"} /\ Root(q, "devices")
  \/ q.reads = {"groups", "grouping"} /\ Root(q, "device-groups") /\ q = GroupsTable
  \/ q.reads = {"allowlist"} /\ Root(q, "app-allowlist")

ReadsLog(q) == q.reads = {"audit"} /\ q = AuditLogTable

ReadsOther(q) == q.reads \in {{"account"}, {"telemetry"}, {"enrollment key"}}

LEMMA QueryTable ==
  ASSUME NEW q \in Queries
  PROVE  ReadsRequests(q) \/ ReadsFleet(q) \/ ReadsLog(q) \/ ReadsOther(q)
<1> USE DEF Query
<1>1. CASE q \in {PendingPoll, RecentRequests} \cup {RequestsTable(filter) : filter \in Filter}
  <2>1. q.reads = Request
    BY <1>1 DEF PendingPoll, RecentRequests, RequestsTable, ElevationRequestList
  <2>2. Root(q, "elevation-requests")
    BY <1>1 DEF PendingPoll, RecentRequests, RequestsTable, Root
  <2>3. QED BY <2>1, <2>2 DEF ReadsRequests
<1>2. CASE q \in {ElevationRequestDetail(r) : r \in Request}
  <2>1. PICK r \in Request : q = ElevationRequestDetail(r)
    BY <1>2
  <2>2. q.reads = {r} /\ q.key = <<"elevation-request", r>>
    BY <2>1 DEF ElevationRequestDetail
  <2>3. QED BY <2>2 DEF ReadsRequests
<1>3. CASE q \in {Header, AlertsBanner, EnrollmentCard}
  <2>1. q.reads \in {{"account"}, {"telemetry"}, {"enrollment key"}}
    <3>1. Header.reads = {"account"}
      BY DEF Header, MeResponse
    <3>2. AlertsBanner.reads = {"telemetry"}
      BY DEF AlertsBanner, AlertList
    <3>3. EnrollmentCard.reads = {"enrollment key"}
      BY DEF EnrollmentCard, EnrollmentInfo
    <3>4. QED BY <1>3, <3>1, <3>2, <3>3
  <2>2. QED BY <2>1 DEF ReadsOther
<1>4. CASE q = SummaryCards
  <2>1. q.reads = Request \cup {"telemetry"} /\ q.key = <<"dashboard-summary", "">>
    BY <1>4 DEF SummaryCards, DashboardSummary
  <2>2. QED BY <2>1 DEF ReadsRequests, Root
<1>5. CASE q \in {DevicesTable, GroupsTable, AllowlistTable}
  <2>1. CASE q = DevicesTable
    <3>1. q.reads = {"telemetry", "grouping", "updates"} /\ q.key = <<"devices", "">>
      BY <2>1 DEF DevicesTable, DeviceList
    <3>2. QED BY <3>1 DEF ReadsFleet, Root
  <2>2. CASE q = GroupsTable
    <3>1. q.reads = {"groups", "grouping"} /\ q.key = <<"device-groups", "">>
      BY <2>2 DEF GroupsTable, DeviceGroupList
    <3>2. QED BY <2>2, <3>1 DEF ReadsFleet, Root
  <2>3. CASE q = AllowlistTable
    <3>1. q.reads = {"allowlist"} /\ q.key = <<"app-allowlist", "">>
      BY <2>3 DEF AllowlistTable, AppAllowlistEntryList
    <3>2. QED BY <3>1 DEF ReadsFleet, Root
  <2>4. QED BY <1>5, <2>1, <2>2, <2>3
<1>6. CASE q = AuditLogTable
  BY <1>6 DEF AuditLogTable, AuditLogList, ReadsLog
<1>7. QED
  BY <1>1, <1>2, <1>3, <1>4, <1>5, <1>6 DEF Queries

LEMMA CatalogueIsComplete ==
  ASSUME NEW op \in Mutations, NEW q \in Queries, NEW d \in op.changes,
         d \in q.reads, <<op, q, d>> \notin LeftBehind
  PROVE  Invalidates(op, q)
<1> USE DEF Invalidates
<1>1. \A r \in Request : r \notin Shared
  BY ConsoleAssumption
<1>2. CASE RequestChange(op)
  <2>1. d \in Request \/ d = "audit"
    BY <1>2 DEF RequestChange
  <2>2. CASE d \in Request
    <3>1. ReadsRequests(q)
      BY <1>1, <2>2, QueryTable DEF ReadsFleet, ReadsLog, ReadsOther, Shared
    <3>2. PICK r \in Request : /\ op.changes = {r, "audit"}
                               /\ "elevation-requests" \in op.roots
                               /\ "dashboard-summary" \in op.roots
                               /\ <<"elevation-request", r>> \in op.keys
      BY <1>2 DEF RequestChange
    <3>3. d = r
      BY <1>1, <2>2, <3>2 DEF Shared
    <3>4. CASE \E root \in {"elevation-requests", "dashboard-summary"} : Root(q, root)
      BY <3>2, <3>4 DEF Root
    <3>5. CASE \E s \in Request : q.reads = {s} /\ q.key = <<"elevation-request", s>>
      BY <3>2, <3>3, <3>5
    <3>6. QED BY <3>1, <3>4, <3>5 DEF ReadsRequests
  <2>3. CASE d = "audit"
    <3>1. ~ReadsRequests(q)
      BY <1>1, <2>3 DEF ReadsRequests, Shared
    <3>2. ~ReadsFleet(q) /\ ~ReadsOther(q)
      BY <2>3 DEF ReadsFleet, ReadsOther
    <3>3. QED
      BY <2>3, <3>1, <3>2, QueryTable DEF ReadsLog, LeftBehind
  <2>4. QED BY <2>1, <2>2, <2>3
<1>3. CASE DeviceChange(op) \/ GroupChange(op) \/ EntryChange(op)
  <2>1. d \in {"grouping", "updates", "groups", "allowlist", "audit"}
    BY <1>3 DEF DeviceChange, GroupChange, EntryChange
  <2>2. ReadsFleet(q) \/ ReadsLog(q)
    BY <1>1, <2>1, QueryTable DEF ReadsRequests, ReadsOther, Shared
  <2>3. CASE ReadsLog(q)
    BY <2>3 DEF ReadsLog, LeftBehind
  <2>4. CASE ReadsFleet(q)
    <3>1. d # "audit"
      BY <2>4 DEF ReadsFleet
    <3>2. CASE DeviceChange(op)
      <4>1. d = "grouping" => q # GroupsTable
        BY <3>1, <3>2 DEF DeviceChange, LeftBehind
      <4>2. QED
        BY <2>4, <3>1, <3>2, <4>1 DEF ReadsFleet, Root, DeviceChange
    <3>3. CASE GroupChange(op) \/ EntryChange(op)
      BY <2>4, <3>1, <3>3 DEF ReadsFleet, Root, GroupChange, EntryChange
    <3>4. QED BY <1>3, <3>2, <3>3
  <2>5. QED BY <2>2, <2>3, <2>4
<1>4. QED
  BY <1>2, <1>3, MutationTable

LEMMA MutationRoots ==
  ASSUME NEW op \in Mutations
  PROVE  /\ op.roots \subseteq {"elevation-requests", "dashboard-summary", "devices",
                               "device-groups", "app-allowlist"}
         /\ op.keys \subseteq {<<"elevation-request", r>> : r \in Request}
<1> USE DEF Mutation
<1>1. CASE op \in {DeviceGroupSelect, UpdateNowButton}
  BY <1>1 DEF DeviceGroupSelect, UpdateNowButton
<1>2. CASE op \in {CreateGroupDialog, DeleteGroupDialog}
  BY <1>2 DEF CreateGroupDialog, DeleteGroupDialog
<1>3. CASE op \in {CreateEntryDialog, DeleteEntry}
  BY <1>3 DEF CreateEntryDialog, DeleteEntry
<1>4. CASE op \in {ApproveDialog(r) : r \in Request} \cup {DenyDialog(r) : r \in Request}
  BY <1>4 DEF ApproveDialog, DenyDialog
<1>5. QED
  BY <1>1, <1>2, <1>3, <1>4 DEF Mutations

\* What the dialogs forget, exactly: a query that reads what a mutation changes
\* goes without an invalidation for the groups' device counts after an
\* assignment and for the audit log, and never otherwise.
THEOREM CatalogueIsExact ==
  ASSUME NEW op \in Mutations, NEW q \in Queries, NEW d \in op.changes \cap q.reads
  PROVE  Invalidates(op, q) <=> <<op, q, d>> \notin LeftBehind
<1>1. <<op, q, d>> \notin LeftBehind => Invalidates(op, q)
  BY CatalogueIsComplete
<1>2. ASSUME op = DeviceGroupSelect, q = GroupsTable PROVE ~Invalidates(op, q)
  BY <1>2 DEF Invalidates, DeviceGroupSelect, GroupsTable, Mutation, Query
<1>3. ASSUME q = AuditLogTable PROVE ~Invalidates(op, q)
  <2>1. q.key = <<"audit-logs", "">> /\ q.key[1] = "audit-logs"
    BY <1>3 DEF AuditLogTable, Query
  <2>2. QED BY <2>1, MutationRoots DEF Invalidates
<1>4. QED
  BY <1>1, <1>2, <1>3 DEF LeftBehind

\* Whatever the limit, the list has nothing that is not pending.
LEMMA NewestIsPart == ASSUME NEW n, NEW R PROVE Newest(n, R) \subseteq R
BY DEF Newest

-----------------------------------------------------------------------------
(* Types. *)

CacheTypes == DOMAIN cache = watched /\ \A q \in watched : cache[q] \in Entry(q)

OtherTypes ==
  /\ focus \in [queries : SUBSET Queries, pages : SUBSET Pages, limit : Nat, bound : Nat]
  /\ db \in [Scope -> Nat]
  /\ writes \in Nat
  /\ page \in focus.pages
  /\ visible \in BOOLEAN
  /\ call \in [Slot -> Call \cup {Null}]
  /\ owed \in [watched -> [Scope -> Nat]]
  /\ seen = Null \/ seen \subseteq Request
  /\ fresh \subseteq Request
  /\ timer \subseteq Request
  /\ known \subseteq Request
  /\ toasts \in [Request -> Nat]
  /\ crowded \subseteq Request

LEMMA TypesSplit == TypeOK <=> CacheTypes /\ OtherTypes
BY DEF TypeOK, CacheTypes, OtherTypes

\* What is followed does not change.
LEMMA FocusStays == focus' = focus => watched' = watched /\ Scope' = Scope /\ Call' = Call
BY DEF watched, Scope, Call

LEMMA ReadsInScope == ASSUME NEW q \in watched PROVE q.reads \subseteq Scope
BY DEF Scope

\* The parts from which the steps build entries.
LEMMA EntryParts ==
  ASSUME NEW q
  PROVE  /\ Zero(q) \in [q.reads -> Nat]
         /\ Empty(q) \in Entry(q)
         /\ Asking(Empty(q)) \in Entry(q)
         /\ \A e \in Entry(q) : Asking(e) \in Entry(q) /\ Resting(e, q) \in Entry(q)
<1> USE DEF Entry, Phase
<1>0. 0 \in 0 .. MaxRetries BY ConsoleAssumption
<1>1. Zero(q) \in [q.reads -> Nat] BY DEF Zero
<1>2. Empty(q) \in Entry(q) BY <1>0, <1>1 DEF Empty
<1>3. ASSUME NEW f \in Entry(q) PROVE Asking(f) \in Entry(q) BY <1>0, <1>3 DEF Asking
<1>4. ASSUME NEW e \in Entry(q) PROVE Resting(e, q) \in Entry(q) BY <1>0, <1>1 DEF Resting
<1>5. QED BY <1>1, <1>2, <1>3, <1>4

\* What a step makes of an entry.
LEMMA EntrySteps ==
  ASSUME CacheTypes, NEW q \in watched, db \in [Scope -> Nat]
  PROVE  /\ \A maybe : Refreshed(q, maybe) \in Entry(q)
         /\ Invalidated(q) \in Entry(q)
         /\ [cache[q] EXCEPT !.phase = "answered", !.answer = [d \in q.reads |-> db[d]]] \in Entry(q)
         /\ [Resting(cache[q], q) EXCEPT !.loaded = TRUE, !.data = cache[q].answer,
                                         !.invalid = FALSE, !.error = FALSE] \in Entry(q)
         /\ cache[q].tries < MaxRetries =>
              [cache[q] EXCEPT !.phase = "waiting", !.answer = Zero(q), !.tries = @ + 1] \in Entry(q)
         /\ [cache[q] EXCEPT !.phase = "asked"] \in Entry(q)
         /\ [Resting(cache[q], q) EXCEPT !.error = TRUE] \in Entry(q)
<1>0. cache[q] \in Entry(q) /\ Zero(q) \in [q.reads -> Nat] /\ Resting(cache[q], q) \in Entry(q)
  BY EntryParts DEF CacheTypes
<1>1. \A maybe : Refreshed(q, maybe) \in Entry(q)
  BY <1>0, EntryParts DEF Refreshed
<1>2. Invalidated(q) \in Entry(q)
  <2> DEFINE e == [cache[q] EXCEPT !.invalid = TRUE]
  <2>1. e \in Entry(q) BY <1>0 DEF Entry
  <2>2. Asking(e) \in Entry(q) BY <2>1, EntryParts
  <2>3. [Asking(e) EXCEPT !.answer = Zero(q)] \in Entry(q) BY <1>0, <2>2 DEF Entry
  <2>4. QED BY <2>1, <2>3 DEF Invalidated
<1>3. [d \in q.reads |-> db[d]] \in [q.reads -> Nat]
  BY ReadsInScope
<1>4. [cache[q] EXCEPT !.phase = "answered", !.answer = [d \in q.reads |-> db[d]]] \in Entry(q)
  BY <1>0, <1>3 DEF Entry, Phase
<1>5. [Resting(cache[q], q) EXCEPT !.loaded = TRUE, !.data = cache[q].answer,
                                   !.invalid = FALSE, !.error = FALSE] \in Entry(q)
  BY <1>0 DEF Entry
<1>6. ASSUME cache[q].tries < MaxRetries
      PROVE  [cache[q] EXCEPT !.phase = "waiting", !.answer = Zero(q), !.tries = @ + 1] \in Entry(q)
  <2>1. cache[q].tries + 1 \in 0 .. MaxRetries
    BY <1>0, <1>6, ConsoleAssumption DEF Entry
  <2>2. QED BY <1>0, <2>1 DEF Entry, Phase
<1>7. [cache[q] EXCEPT !.phase = "asked"] \in Entry(q)
  BY <1>0 DEF Entry, Phase
<1>8. [Resting(cache[q], q) EXCEPT !.error = TRUE] \in Entry(q)
  BY <1>0 DEF Entry
<1>9. QED
  BY <1>1, <1>2, <1>4, <1>5, <1>6, <1>7, <1>8

LEMMA SetKeepsTypes ==
  ASSUME CacheTypes, NEW q \in watched, NEW e \in Entry(q), Set(q, e), focus' = focus
  PROVE  CacheTypes'
BY FocusStays DEF CacheTypes, Set

\* A step changes the entry of one query, or several by what EntrySteps lists.
LEMMA CacheTypesPreserved == CacheTypes /\ OtherTypes /\ [Next]_vars => CacheTypes'
<1> SUFFICES ASSUME CacheTypes, OtherTypes, [Next]_vars
             PROVE  CacheTypes'
  OBVIOUS
<1>1. ASSUME focus' = focus, cache' = cache PROVE CacheTypes'
  BY <1>1, FocusStays DEF CacheTypes
<1>2. ASSUME NEW q \in watched, Tick(q) \/ OnRetry(q) PROVE CacheTypes'
  BY <1>2, EntryParts, SetKeepsTypes DEF Tick, OnRetry, CacheTypes
<1>3. ASSUME NEW q \in watched, Serve(q) PROVE CacheTypes'
  BY <1>3, EntrySteps, SetKeepsTypes DEF Serve, OtherTypes
<1>4. ASSUME NEW q \in watched, Land(q) PROVE CacheTypes'
  BY <1>4, EntrySteps, SetKeepsTypes DEF Land, OtherTypes
<1>5. ASSUME NEW q \in watched, Retry(q) PROVE CacheTypes'
  BY <1>5, EntrySteps, SetKeepsTypes DEF Retry, OtherTypes
<1>6. ASSUME NEW q \in watched, TryAgain(q) PROVE CacheTypes'
  BY <1>6, EntrySteps, SetKeepsTypes DEF TryAgain, OtherTypes
<1>7. ASSUME NEW q \in watched, GiveUp(q) PROVE CacheTypes'
  BY <1>7, EntrySteps, SetKeepsTypes DEF GiveUp, OtherTypes
<1>8. ASSUME NEW q \in watched, Collect(q) PROVE CacheTypes'
  BY <1>8, EntryParts, SetKeepsTypes DEF Collect, CacheTypes
<1>9. ASSUME NEW maybe, Show(maybe) PROVE CacheTypes'
  BY <1>9, EntrySteps, FocusStays DEF Show, CacheTypes, OtherTypes
<1>10. ASSUME NEW p, NEW maybe, Visit(p, maybe) PROVE CacheTypes'
  BY <1>10, EntrySteps, FocusStays DEF Visit, CacheTypes, OtherTypes
<1>11. CASE Reload
  BY <1>11, EntryParts, FocusStays DEF Reload, CacheTypes
<1>12. ASSUME NEW s \in Slot, Confirm(s) PROVE CacheTypes'
  BY <1>12, EntrySteps, FocusStays DEF Confirm, CacheTypes, OtherTypes
<1>13. ASSUME NEW s \in Slot, Commit(s) \/ Fail(s) \/ \E op \in Mutations : Send(s, op)
       PROVE  CacheTypes'
  BY <1>1, <1>13 DEF Commit, Fail, Send
<1>14. CASE Hide \/ HighlightEnds \/ \E d \in Datum : Elsewhere(d)
  BY <1>1, <1>14 DEF Hide, HighlightEnds, Elsewhere
<1>15. CASE UNCHANGED vars
  BY <1>1, <1>15 DEF vars
<1>16. QED
  BY <1>2, <1>3, <1>4, <1>5, <1>6, <1>7, <1>8, <1>9, <1>10, <1>11, <1>12, <1>13, <1>14, <1>15
     DEF Next

LEMMA OtherTypesPreserved == CacheTypes /\ OtherTypes /\ [Next]_vars => OtherTypes'
<1> SUFFICES ASSUME CacheTypes, OtherTypes, [Next]_vars
             PROVE  OtherTypes'
  OBVIOUS
<1> USE FocusStays DEF OtherTypes
<1>1. ASSUME NEW d \in Datum, Elsewhere(d) PROVE OtherTypes'
  BY <1>1 DEF Elsewhere, Write, notifier
<1>2. CASE Hide \/ HighlightEnds
  BY <1>2 DEF Hide, HighlightEnds, notifier
<1>3. ASSUME NEW p \in focus.pages, NEW maybe, Show(maybe) \/ Visit(p, maybe) PROVE OtherTypes'
  BY <1>3 DEF Show, Visit, notifier
<1>4. CASE Reload
  <2>1. call' \in [Slot -> Call \cup {Null}] /\ toasts' \in [Request -> Nat]
    BY <1>4 DEF Reload
  <2>2. owed' \in [watched -> [Scope -> Nat]]
    BY <1>4 DEF Reload
  <2>3. (seen' = Null \/ seen' \subseteq Request) /\ fresh' = {} /\ timer' = {} /\ known' = {}
       /\ crowded' = {}
    BY <1>4 DEF Reload
  <2>4. UNCHANGED <<focus, db, writes, page>> /\ visible' = TRUE
    BY <1>4 DEF Reload
  <2>5. QED BY <2>1, <2>2, <2>3, <2>4
<1>5. ASSUME NEW q \in watched, Tick(q) \/ OnRetry(q) \/ Serve(q) \/ Retry(q) \/ TryAgain(q) \/ GiveUp(q)
      PROVE  OtherTypes'
  BY <1>5 DEF Tick, OnRetry, Serve, Retry, TryAgain, GiveUp, notifier
<1>6. ASSUME NEW q \in watched, Land(q) PROVE OtherTypes'
  <2>1. CASE UNCHANGED notifier
    BY <1>6, <2>1 DEF Land, notifier
  <2>2. ASSUME NEW current \in SUBSET Request, Notice(current)
        PROVE  /\ (seen' = Null \/ seen' \subseteq Request) /\ fresh' \subseteq Request
               /\ timer' \subseteq Request /\ known' \subseteq Request /\ toasts' \in [Request -> Nat]
    BY <2>2 DEF Notice
  <2>3. ASSUME Inform(cache[q].data, cache[q].answer) PROVE OtherTypes'
    <3>1. Pending(cache[q].answer) \in SUBSET Request /\ Listed(cache[q].answer) \in SUBSET Request
      BY NewestIsPart DEF Pending, Listed
    <3>2. crowded' \subseteq Request
      BY <2>3, <3>1 DEF Inform
    <3>3. CASE Notice(Listed(cache[q].answer))
      BY <1>6, <2>2, <3>1, <3>2, <3>3 DEF Land
    <3>4. CASE UNCHANGED <<seen, fresh, timer, known, toasts>>
      BY <1>6, <3>2, <3>4 DEF Land
    <3>5. QED BY <2>3, <3>3, <3>4 DEF Inform
  <2>4. QED BY <1>6, <2>1, <2>3 DEF Land
<1>7. ASSUME NEW q \in watched, Collect(q) PROVE OtherTypes'
  BY <1>7 DEF Collect, notifier
<1>8. ASSUME NEW s \in Slot, NEW op \in Mutations, Send(s, op) PROVE OtherTypes'
  BY <1>8 DEF Send, Call, notifier
<1>9. ASSUME NEW s \in Slot, Commit(s) PROVE OtherTypes'
  <2>1. db' \in [Scope -> Nat] /\ writes' \in Nat
    BY <1>9 DEF Commit, Write
  <2>2. [d \in Scope |-> IF d \in call[s].op.changes THEN db[d] + 1 ELSE 0] \in [Scope -> Nat]
    OBVIOUS
  <2>3. call[s] \in Call
    BY <1>9 DEF Commit
  <2>4. [call[s] EXCEPT !.phase = "done",
                        !.made = [d \in Scope |-> IF d \in call[s].op.changes THEN db[d] + 1 ELSE 0]]
          \in Call
    BY <2>2, <2>3 DEF Call
  <2>5. call' \in [Slot -> Call \cup {Null}]
    BY <1>9, <2>4 DEF Commit
  <2>6. QED BY <1>9, <2>1, <2>5 DEF Commit, notifier
<1>10. ASSUME NEW s \in Slot, Fail(s) PROVE OtherTypes'
  BY <1>10 DEF Fail, notifier
<1>11. ASSUME NEW s \in Slot, Confirm(s) PROVE OtherTypes'
  <2>1. call[s] \in Call
    BY <1>11 DEF Confirm
  <2>2. call[s].made \in [Scope -> Nat]
    BY <2>1 DEF Call
  <2>3. \A q \in watched : Promised(call[s].op, q, call[s].made) \in [Scope -> Nat]
    BY <2>2 DEF Promised
  <2>4. QED BY <1>11, <2>3 DEF Confirm, notifier
<1>12. CASE UNCHANGED vars
  BY <1>12 DEF vars, notifier
<1>13. QED
  BY <1>1, <1>2, <1>3, <1>4, <1>5, <1>6, <1>7, <1>8, <1>9, <1>10, <1>11, <1>12 DEF Next

LEMMA TypeInit == Init => TypeOK
<1> SUFFICES ASSUME Init
             PROVE  CacheTypes /\ OtherTypes
  BY TypesSplit
<1>1. CacheTypes
  BY EntryParts DEF Init, CacheTypes
<1>2. OtherTypes
  <2>1. focus \in [queries : SUBSET Queries, pages : SUBSET Pages, limit : Nat, bound : Nat]
    BY ConsoleAssumption DEF Init
  <2>2. call \in [Slot -> Call \cup {Null}] /\ toasts \in [Request -> Nat]
    BY DEF Init
  <2>3. owed \in [watched -> [Scope -> Nat]] /\ db \in [Scope -> Nat]
    BY DEF Init
  <2>4. QED BY <2>1, <2>2, <2>3 DEF Init, OtherTypes
<1>3. QED BY <1>1, <1>2

\* Types: the cached answers, calls and notices keep their shapes, and no fetch
\* is tried more often than retry allows.
THEOREM TypeCorrect == Spec => []TypeOK
<1>1. TypeOK /\ [Next]_vars => TypeOK'
  <2>1. TypeOK' <=> CacheTypes' /\ OtherTypes'
    BY TypesSplit, PTL
  <2>2. QED
    BY <2>1, TypesSplit, CacheTypesPreserved, OtherTypesPreserved
<1>2. QED
  BY TypeInit, <1>1, PTL DEF Spec

-----------------------------------------------------------------------------
(* The administrator's own changes. *)

(***************************************************************************)
(* OwnChangesShow is not inductive: what a view is owed must be in its     *)
(* data, or on its way in the answer of the running fetch, or the entry    *)
(* must be marked; and a mounted entry that is marked is being fetched     *)
(* again or has failed to. What is owed comes from a commit, and a commit  *)
(* only makes versions of what its mutation, says the catalogue, changes.  *)
(***************************************************************************)
OwedIsCommitted ==
  \A q \in watched, d \in Scope : owed[q][d] <= db[d]

MadeIsCommitted ==
  \A s \in Slot : call[s] # Null =>
    \A d \in Scope : /\ call[s].made[d] <= db[d]
                     /\ call[s].made[d] > 0 => d \in call[s].op.changes

\* What is asked of an entry e of q, whose viewers are owed the versions owing;
\* open: q is mounted.
Sound(q, e, owing, open) ==
  /\ \A d \in q.reads :
       /\ e.loaded /\ ~e.invalid => e.data[d] >= owing[d]
       /\ ~e.loaded => owing[d] = 0
       /\ e.phase = "answered" => e.answer[d] >= owing[d]
  /\ open /\ e.loaded /\ e.invalid => e.phase # "idle" \/ e.error

EntriesAreSound ==
  \A q \in watched : Sound(q, cache[q], owed[q], q \in Mounted)

OwnInv == CacheTypes /\ OtherTypes /\ OwedIsCommitted /\ MadeIsCommitted /\ EntriesAreSound

LEMMA OwnInit == Init => OwnInv
<1> SUFFICES ASSUME Init
             PROVE  OwedIsCommitted /\ MadeIsCommitted /\ EntriesAreSound
  BY TypeInit, TypesSplit DEF OwnInv
<1>1. OwedIsCommitted /\ MadeIsCommitted
  BY DEF Init, OwedIsCommitted, MadeIsCommitted
<1>2. ASSUME NEW q \in watched
      PROVE  cache[q].loaded = FALSE /\ cache[q].phase # "answered"
  BY DEF Init, Asking, Empty
<1>3. EntriesAreSound
  BY <1>2, ReadsInScope DEF Init, EntriesAreSound, Sound
<1>4. QED BY <1>1, <1>3

\* Versions grow, and what is owed and made stays behind them.
LEMMA OwedPreserved == OwnInv /\ [Next]_vars => OwedIsCommitted' /\ MadeIsCommitted'
<1> SUFFICES ASSUME OwnInv, [Next]_vars
             PROVE  OwedIsCommitted' /\ MadeIsCommitted'
  OBVIOUS
<1> USE FocusStays DEF OwnInv, OtherTypes, OwedIsCommitted, MadeIsCommitted
<1>1. ASSUME UNCHANGED <<focus, db, call, owed>> PROVE OwedIsCommitted' /\ MadeIsCommitted'
  BY <1>1
<1>2. ASSUME NEW d \in Datum, Elsewhere(d) PROVE OwedIsCommitted' /\ MadeIsCommitted'
  BY <1>2 DEF Elsewhere, Write, Call
<1>3. CASE Reload
  BY <1>3 DEF Reload
<1>4. ASSUME NEW q \in watched, Collect(q) PROVE OwedIsCommitted' /\ MadeIsCommitted'
  BY <1>4 DEF Collect
<1>5. ASSUME NEW s \in Slot, NEW op \in Mutations, Send(s, op)
      PROVE  OwedIsCommitted' /\ MadeIsCommitted'
  BY <1>5 DEF Send
<1>6. ASSUME NEW s \in Slot, Commit(s) PROVE OwedIsCommitted' /\ MadeIsCommitted'
  BY <1>6 DEF Commit, Write, Call
<1>7. ASSUME NEW s \in Slot, Fail(s) PROVE OwedIsCommitted' /\ MadeIsCommitted'
  BY <1>7 DEF Fail
<1>8. ASSUME NEW s \in Slot, Confirm(s) PROVE OwedIsCommitted' /\ MadeIsCommitted'
  BY <1>8 DEF Confirm, Promised, Call
<1>9. QED
  BY <1>1, <1>2, <1>3, <1>4, <1>5, <1>6, <1>7, <1>8
     DEF Next, vars, Hide, Show, Visit, Tick, OnRetry, Serve, Land, Retry, TryAgain, GiveUp,
         HighlightEnds

\* One entry changes, for one that is as sound.
LEMMA SoundSet ==
  ASSUME OwnInv, NEW q \in watched, NEW e, Set(q, e), Sound(q, e, owed[q], q \in Mounted),
         UNCHANGED <<focus, page, owed>>
  PROVE  EntriesAreSound'
<1>1. Mounted' = Mounted
  BY DEF Mounted
<1>2. QED
  BY <1>1, FocusStays DEF OwnInv, CacheTypes, EntriesAreSound, Set, Sound

LEMMA AskingIsSound ==
  ASSUME NEW q, NEW e \in Entry(q), NEW owing, NEW open, NEW before, Sound(q, e, owing, before)
  PROVE  Sound(q, Asking(e), owing, open)
BY DEF Sound, Asking, Entry

LEMMA SoundPreserved == OwnInv /\ [Next]_vars => EntriesAreSound'
<1> SUFFICES ASSUME OwnInv, [Next]_vars
             PROVE  EntriesAreSound'
  OBVIOUS
<1>0. \A q \in watched : cache[q] \in Entry(q) /\ Sound(q, cache[q], owed[q], q \in Mounted)
  BY DEF OwnInv, CacheTypes, EntriesAreSound
<1>1. ASSUME UNCHANGED <<focus, page, cache, owed>> PROVE EntriesAreSound'
  BY <1>1, FocusStays DEF OwnInv, EntriesAreSound, Mounted
<1>2. ASSUME NEW q \in watched, Tick(q) \/ OnRetry(q) PROVE EntriesAreSound'
  BY <1>0, <1>2, AskingIsSound, SoundSet DEF Tick, OnRetry
<1>3. ASSUME NEW q \in watched, Serve(q) PROVE EntriesAreSound'
  <2> DEFINE e == [cache[q] EXCEPT !.phase = "answered", !.answer = [d \in q.reads |-> db[d]]]
  <2>1. Sound(q, e, owed[q], q \in Mounted)
    BY <1>0, ReadsInScope DEF Sound, Entry, OwnInv, OwedIsCommitted, OtherTypes
  <2>2. QED BY <1>3, <2>1, SoundSet DEF Serve
<1>4. ASSUME NEW q \in watched, Land(q) PROVE EntriesAreSound'
  <2> DEFINE e == [Resting(cache[q], q) EXCEPT
                     !.loaded = TRUE, !.data = cache[q].answer, !.invalid = FALSE, !.error = FALSE]
  <2>1. Sound(q, e, owed[q], q \in Mounted)
    BY <1>0, <1>4 DEF Sound, Entry, Resting, Land
  <2>2. QED BY <1>4, <2>1, SoundSet DEF Land
<1>5. ASSUME NEW q \in watched, Retry(q) PROVE EntriesAreSound'
  <2> DEFINE e == [cache[q] EXCEPT !.phase = "waiting", !.answer = Zero(q), !.tries = @ + 1]
  <2>1. Sound(q, e, owed[q], q \in Mounted)
    BY <1>0 DEF Sound, Entry
  <2>2. QED BY <1>5, <2>1, SoundSet DEF Retry
<1>6. ASSUME NEW q \in watched, TryAgain(q) PROVE EntriesAreSound'
  <2>1. Sound(q, [cache[q] EXCEPT !.phase = "asked"], owed[q], q \in Mounted)
    BY <1>0 DEF Sound, Entry
  <2>2. QED BY <1>6, <2>1, SoundSet DEF TryAgain
<1>7. ASSUME NEW q \in watched, GiveUp(q) PROVE EntriesAreSound'
  <2>1. Sound(q, [Resting(cache[q], q) EXCEPT !.error = TRUE], owed[q], q \in Mounted)
    BY <1>0 DEF Sound, Entry, Resting
  <2>2. QED BY <1>7, <2>1, SoundSet DEF GiveUp
<1>8. ASSUME NEW q \in watched, Collect(q) PROVE EntriesAreSound'
  <2>1. Sound(q, Empty(q), [d \in Scope |-> 0], q \in Mounted)
    BY ReadsInScope DEF Sound, Empty
  <2>2. Mounted' = Mounted /\ watched' = watched
    BY <1>8, FocusStays DEF Collect, Mounted
  <2>3. \A p \in watched : /\ cache'[p] = IF p = q THEN Empty(q) ELSE cache[p]
                           /\ owed'[p] = IF p = q THEN [d \in Scope |-> 0] ELSE owed[p]
    BY <1>8 DEF Collect, Set, OwnInv, CacheTypes, OtherTypes
  <2>4. QED BY <1>0, <2>1, <2>2, <2>3 DEF EntriesAreSound
<1>9. ASSUME NEW maybe, Show(maybe) PROVE EntriesAreSound'
  <2>1. Mounted' = Mounted /\ watched' = watched
    BY <1>9, FocusStays DEF Show, Mounted
  <2>2. ASSUME NEW q \in watched PROVE Sound(q, Refreshed(q, maybe), owed[q], q \in Mounted)
    BY <1>0, AskingIsSound DEF Refreshed
  <2>3. QED BY <1>0, <1>9, <2>1, <2>2 DEF Show, EntriesAreSound
<1>10. ASSUME NEW p, NEW maybe, Visit(p, maybe) PROVE EntriesAreSound'
  <2>1. watched' = watched /\ Mounted' \subseteq Mounted \cup p
    BY <1>10, FocusStays DEF Visit, Mounted
  <2>2. ASSUME NEW q \in watched
        PROVE  /\ Sound(q, Refreshed(q, maybe), owed[q], TRUE)
               /\ q \notin p \ Mounted => Sound(q, cache[q], owed[q], q \in Mounted')
    <3>1. Sound(q, Refreshed(q, maybe), owed[q], TRUE)
      BY <1>0, AskingIsSound DEF Refreshed, Sound
    <3>2. QED BY <1>0, <2>1, <3>1 DEF Sound
  <2>3. ASSUME NEW q \in watched PROVE Sound(q, cache'[q], owed'[q], q \in Mounted')
    BY <1>10, <2>2 DEF Visit, Sound
  <2>4. QED BY <2>1, <2>3 DEF EntriesAreSound
<1>11. CASE Reload
  <2>1. watched' = watched
    BY <1>11, FocusStays DEF Reload
  <2>2. ASSUME NEW q \in watched PROVE Sound(q, cache'[q], owed'[q], q \in Mounted')
    BY <1>11, ReadsInScope DEF Reload, Sound, Asking, Empty
  <2>3. QED BY <2>1, <2>2 DEF EntriesAreSound
<1>12. ASSUME NEW s \in Slot, Confirm(s) PROVE EntriesAreSound'
  <2> DEFINE op == call[s].op
  <2>1. watched' = watched /\ Mounted' = Mounted
    BY <1>12, FocusStays DEF Confirm, Mounted
  <2>2. op \in Mutations
    BY <1>12 DEF Confirm, OwnInv, OtherTypes, Call
  <2>3. ASSUME NEW q \in watched PROVE Sound(q, cache'[q], owed'[q], q \in Mounted')
    <3>1. q \in Queries
      BY DEF OwnInv, OtherTypes, watched
    <3>2. CASE Invalidates(op, q)
      <4>1. cache'[q] = Invalidated(q) /\ owed'[q] = Promised(op, q, call[s].made)
        BY <1>12, <3>2 DEF Confirm
      <4>2. CASE q \in Mounted /\ cache[q].loaded
        BY <1>0, <2>1, <4>1, <4>2 DEF Invalidated, Asking, Sound, Entry
      <4>3. CASE ~(q \in Mounted /\ cache[q].loaded)
        <5>1. owed'[q] = owed[q]
          BY <4>1, <4>3 DEF Promised, OwnInv, OtherTypes
        <5>2. QED BY <1>0, <2>1, <4>1, <4>3, <5>1 DEF Invalidated, Asking, Sound, Entry
      <4>4. QED BY <4>2, <4>3
    <3>3. CASE ~Invalidates(op, q)
      <4>1. \A d \in q.reads : <<op, q, d>> \notin LeftBehind => call[s].made[d] = 0
        BY <1>12, <2>2, <3>1, <3>3, CatalogueIsComplete, ReadsInScope
           DEF Confirm, OwnInv, OtherTypes, MadeIsCommitted, Call
      <4>2. owed'[q] = owed[q]
        BY <1>12, <4>1, ReadsInScope DEF Confirm, Promised, OwnInv, OtherTypes
      <4>3. cache'[q] = cache[q]
        BY <1>12, <3>3 DEF Confirm
      <4>4. QED BY <1>0, <2>1, <4>2, <4>3
    <3>4. QED BY <3>2, <3>3
  <2>4. QED BY <2>1, <2>3 DEF EntriesAreSound
<1>13. QED
  BY <1>1, <1>2, <1>3, <1>4, <1>5, <1>6, <1>7, <1>8, <1>9, <1>10, <1>11, <1>12
     DEF Next, vars, Elsewhere, Hide, Send, Commit, Fail, HighlightEnds

LEMMA OwnInvariant == Spec => []OwnInv
<1>1. OwnInv /\ [Next]_vars => OwnInv'
  BY CacheTypesPreserved, OtherTypesPreserved, OwedPreserved, SoundPreserved DEF OwnInv
<1>2. QED
  BY OwnInit, <1>1, PTL DEF Spec

\* The dialogs invalidate enough, but for the two views of CatalogueIsExact: any
\* other open view that showed what a change of the administrator's own concerns
\* does not rest on older data once the change is confirmed.
THEOREM OwnChangesAreShown == Spec => []OwnChangesShow
<1>1. OwnInv => OwnChangesShow
  BY DEF OwnInv, EntriesAreSound, Sound, OwnChangesShow, Active, CacheTypes, Entry
<1>2. QED
  BY OwnInvariant, <1>1, PTL

-----------------------------------------------------------------------------
(* The notifier. *)

(***************************************************************************)
(* A request that has been announced must not look new again. seenIdsRef   *)
(* forgets the requests that are settled, so this rests on the answers     *)
(* coming in order: a fetch that runs is never older than the data, hence  *)
(* what has been settled is not pending again. And it forgets those that   *)
(* the list has no place for, which is why it holds for the others only.   *)
(***************************************************************************)
InOrder(e) ==
  \A r \in Request :
    /\ e.data[r] <= db[r]
    /\ e.phase = "answered" => e.data[r] <= e.answer[r] /\ e.answer[r] <= db[r]

AnswersInOrder == PendingPoll \in watched => InOrder(cache[PendingPoll])

Noticed ==
  /\ seen = Null => known = {} /\ \A r \in Request : toasts[r] = 0
  /\ seen # Null =>
       /\ PendingPoll \in watched
       /\ seen = Listed(cache[PendingPoll].data)
       /\ Pending(cache[PendingPoll].data) \subseteq seen \cup crowded
       /\ \A r \in Request : toasts[r] > 0 \/ r \in known => cache[PendingPoll].data[r] >= 1
       /\ ArrivalsAnnouncedOnce

NoticeInv == CacheTypes /\ OtherTypes /\ AnswersInOrder /\ Noticed

LEMMA PollReadsRequests == PendingPoll.reads = Request
BY DEF PendingPoll, Query, ElevationRequestList

LEMMA NoticeInit == Init => NoticeInv
<1> SUFFICES ASSUME Init
             PROVE  AnswersInOrder /\ Noticed
  BY TypeInit, TypesSplit DEF NoticeInv
<1>1. Noticed
  BY DEF Init, Noticed
<1>2. ASSUME PendingPoll \in watched PROVE InOrder(cache[PendingPoll])
  <2>1. Request \subseteq Scope
    BY <1>2, PollReadsRequests, ReadsInScope
  <2>2. cache[PendingPoll].phase # "answered"
    BY <1>2 DEF Init, Asking, Empty
  <2>3. \A r \in Request : cache[PendingPoll].data[r] = 0
    BY <1>2, PollReadsRequests DEF Init, Asking, Empty, Zero
  <2>4. \A r \in Request : db[r] = 0
    BY <2>1 DEF Init
  <2>5. ASSUME NEW r \in Request PROVE cache[PendingPoll].data[r] <= db[r]
    BY <2>3, <2>4
  <2>6. QED BY <2>2, <2>5 DEF InOrder
<1>3. QED BY <1>1, <1>2 DEF AnswersInOrder

\* Any step but Land and Reload leaves the data alone, and an answer is either
\* the one there was or that of the database.
Onward(e, f) ==
  /\ f.data = e.data
  /\ f.phase = "answered" =>
       \/ e.phase = "answered" /\ f.answer = e.answer
       \/ f.answer = [r \in Request |-> db[r]]

LEMMA OnwardInOrder ==
  ASSUME NoticeInv, PendingPoll \in watched, UNCHANGED focus,
         Onward(cache[PendingPoll], cache'[PendingPoll]),
         \A d \in Scope : db'[d] >= db[d] /\ db'[d] \in Nat,
         UNCHANGED <<seen, known, toasts, crowded>>
  PROVE  AnswersInOrder' /\ Noticed'
<1>1. Request \subseteq Scope
  BY PollReadsRequests, ReadsInScope
<1>2. cache[PendingPoll].data \in [Request -> Nat] /\ cache[PendingPoll].answer \in [Request -> Nat]
  BY PollReadsRequests DEF NoticeInv, CacheTypes, Entry
<1>3. \A r \in Request : db[r] \in Nat
  BY <1>1 DEF NoticeInv, OtherTypes
<1>4. InOrder(cache[PendingPoll])'
  BY <1>1, <1>2, <1>3 DEF NoticeInv, AnswersInOrder, InOrder, Onward
<1>5. Noticed'
  BY FocusStays DEF NoticeInv, Noticed, Onward, Pending, Listed, ArrivalsAnnouncedOnce
<1>6. QED BY <1>4, <1>5 DEF AnswersInOrder

LEMMA NoticePreserved == NoticeInv /\ [Next]_vars => AnswersInOrder' /\ Noticed'
<1> SUFFICES ASSUME NoticeInv, [Next]_vars
             PROVE  AnswersInOrder' /\ Noticed'
  OBVIOUS
<1> DEFINE P == PendingPoll
<1>0. \A q \in watched : cache[q] \in Entry(q)
  BY DEF NoticeInv, CacheTypes
<1>1. CASE Reload
  <2>1. seen' = Null /\ Noticed'
    BY <1>1 DEF Reload, Noticed
  <2>2. ASSUME P \in watched PROVE InOrder(cache[P])'
    <3>1. /\ cache'[P].data = [r \in Request |-> 0]
          /\ cache'[P].phase # "answered"
      BY <1>1, <2>2, PollReadsRequests DEF Reload, Asking, Empty, Zero
    <3>2. \A r \in Request : db'[r] \in Nat
      BY <1>1, <2>2, PollReadsRequests, ReadsInScope DEF Reload, NoticeInv, OtherTypes
    <3>3. QED BY <3>1, <3>2 DEF InOrder
  <2>3. watched' = watched
    BY <1>1, FocusStays DEF Reload
  <2>4. QED BY <2>1, <2>2, <2>3 DEF AnswersInOrder
<1>2. CASE \E q \in watched : Land(q)
  <2>1. PICK q \in watched : Land(q)
    BY <1>2
  <2>2. CASE q # P
    <3>1. UNCHANGED <<focus, db, seen, known, toasts, crowded>> /\ watched' = watched
      BY <2>1, <2>2, FocusStays DEF Land, notifier
    <3>2. P \in watched => cache'[P] = cache[P]
      BY <2>1, <2>2 DEF Land, Set, NoticeInv, CacheTypes
    <3>3. AnswersInOrder'
      BY <3>1, <3>2 DEF NoticeInv, AnswersInOrder, InOrder
    <3>4. Noticed'
      <4>1. CASE seen = Null
        BY <3>1, <4>1 DEF NoticeInv, Noticed
      <4>2. CASE seen # Null
        <5>1. P \in watched
          BY <4>2 DEF NoticeInv, Noticed
        <5>2. PICK data : data = cache[P].data /\ data = cache'[P].data
          BY <3>2, <5>1
        <5>3. Listed(data)' = Listed(data) /\ Pending(data)' = Pending(data)
          BY <3>1 DEF Listed, Pending
        <5>4. Noticed
          BY DEF NoticeInv
        <5>5. QED
          BY <3>1, <4>2, <5>1, <5>2, <5>3, <5>4 DEF Noticed, ArrivalsAnnouncedOnce
      <4>3. QED BY <4>1, <4>2
    <3>5. QED BY <3>3, <3>4
  <2>3. CASE q = P
    <3> DEFINE pending == Pending(cache[P].answer)
    <3> DEFINE current == Listed(cache[P].answer)
    <3>1. /\ cache'[P].data = cache[P].answer
          /\ cache'[P].phase = "idle"
      BY <1>0, <2>1, <2>3 DEF Land, Set, Resting, NoticeInv, CacheTypes, Entry
    <3>2. \A r \in Request : /\ cache[P].data[r] <= cache[P].answer[r]
                             /\ cache[P].answer[r] <= db[r]
      BY <2>1, <2>3 DEF Land, NoticeInv, AnswersInOrder, InOrder
    <3>3. cache[P].data \in [Request -> Nat] /\ cache[P].answer \in [Request -> Nat]
      BY <1>0, <2>3, PollReadsRequests DEF Entry
    <3>4. AnswersInOrder'
      BY <2>1, <3>1, <3>2, FocusStays DEF Land, AnswersInOrder, InOrder
    <3>5. /\ pending = {r \in Request : cache[P].answer[r] = 1}
          /\ current \subseteq pending
          /\ current # Null
      <4>1. current \subseteq pending BY NewestIsPart DEF Listed
      <4>2. QED BY <4>1, ConsoleAssumption DEF Pending
    <3>6. /\ Inform(cache[P].data, cache[P].answer)
          /\ crowded' = crowded \cup (pending \ current)
          /\ P \in watched' /\ focus' = focus
      BY <2>1, <2>3, FocusStays DEF Land, Inform
    <3>7. Listed(cache[P].data)' = current /\ Pending(cache[P].data)' = pending
      BY <3>1, <3>6 DEF Listed, Pending
    <3>8. CASE seen = Null
      <4>1. seen' = current /\ known' = current /\ toasts' = toasts
        BY <3>6, <3>8 DEF Inform, Notice
      <4>2. \A r \in Request : toasts'[r] = 0
        BY <3>8, <4>1 DEF NoticeInv, Noticed
      <4>3. ArrivalsAnnouncedOnce'
        BY <4>1, <4>2 DEF ArrivalsAnnouncedOnce
      <4>4. Noticed'
        BY <3>1, <3>5, <3>6, <3>7, <4>1, <4>2, <4>3 DEF Noticed
      <4>5. QED BY <3>4, <4>4
    <3>9. CASE seen # Null /\ Response(cache[P].answer) # Response(cache[P].data)
      <4>1. /\ seen' = current
            /\ known' = known
            /\ toasts' = [r \in Request |->
                            IF r \in current \ seen THEN toasts[r] + 1 ELSE toasts[r]]
        BY <3>6, <3>9 DEF Inform, Notice
      <4>2. \A r \in (current \ seen) \ crowded : toasts[r] = 0 /\ r \notin known
        <5> SUFFICES ASSUME NEW r \in (current \ seen) \ crowded
                     PROVE  toasts[r] = 0 /\ r \notin known
          OBVIOUS
        <5>1. r \in Request /\ cache[P].answer[r] = 1
          BY <3>5
        <5>2. cache[P].data[r] # 1
          BY <3>9, <5>1 DEF NoticeInv, Noticed, Pending
        <5>3. cache[P].data[r] = 0
          BY <3>2, <3>3, <5>1, <5>2
        <5>4. toasts[r] \in Nat
          BY <5>1 DEF NoticeInv, OtherTypes
        <5>5. QED BY <3>9, <5>1, <5>3, <5>4 DEF NoticeInv, Noticed
      <4>3. ArrivalsAnnouncedOnce'
        <5> SUFFICES ASSUME NEW r \in Request, r \notin crowded'
                     PROVE  /\ toasts'[r] <= 1
                            /\ r \in seen' => toasts'[r] = IF r \in known' THEN 0 ELSE 1
          BY DEF ArrivalsAnnouncedOnce
        <5>1. r \notin crowded
          BY <3>6
        <5>2. CASE r \in current \ seen
          BY <4>1, <4>2, <5>1, <5>2
        <5>3. CASE r \notin current \ seen
          BY <3>9, <4>1, <5>1, <5>3 DEF NoticeInv, Noticed, ArrivalsAnnouncedOnce
        <5>4. QED BY <5>2, <5>3
      <4>4. ASSUME NEW r \in Request, toasts'[r] > 0 \/ r \in known' PROVE cache'[P].data[r] >= 1
        <5>1. CASE r \in current \ seen
          BY <3>1, <3>5, <5>1
        <5>2. CASE r \notin current \ seen
          BY <3>1, <3>2, <3>3, <3>9, <4>1, <4>4, <5>2 DEF NoticeInv, Noticed
        <5>3. QED BY <5>1, <5>2
      <4>5. Noticed'
        BY <3>5, <3>6, <3>7, <4>1, <4>3, <4>4 DEF Noticed
      <4>6. QED BY <3>4, <4>5
    <3>10. CASE seen # Null /\ Response(cache[P].answer) = Response(cache[P].data)
      <4>1. UNCHANGED <<seen, known, toasts>>
        BY <3>6, <3>10 DEF Inform
      <4>2. seen = current
        BY <3>10 DEF Response, NoticeInv, Noticed
      <4>3. ArrivalsAnnouncedOnce'
        BY <3>6, <3>10, <4>1 DEF NoticeInv, Noticed, ArrivalsAnnouncedOnce
      <4>4. ASSUME NEW r \in Request, toasts'[r] > 0 \/ r \in known' PROVE cache'[P].data[r] >= 1
        BY <3>1, <3>2, <3>3, <3>10, <4>1, <4>4 DEF NoticeInv, Noticed
      <4>5. Noticed'
        BY <3>5, <3>6, <3>7, <3>10, <4>1, <4>2, <4>3, <4>4 DEF Noticed
      <4>6. QED BY <3>4, <4>5
    <3>11. QED BY <3>8, <3>9, <3>10
  <2>4. QED BY <2>2, <2>3
<1>3. CASE ~Reload /\ ~(\E q \in watched : Land(q))
  <2>1. UNCHANGED <<focus, seen, known, toasts, crowded>>
    BY <1>3 DEF Next, vars, notifier, Elsewhere, Hide, Show, Visit, Tick, OnRetry, Serve, Retry,
                TryAgain, GiveUp, Collect, Send, Commit, Fail, Confirm, HighlightEnds
  <2>2. \A d \in Scope : db'[d] >= db[d] /\ db'[d] \in Nat
    <3>1. ASSUME NEW ds, Write(ds) PROVE \A d \in Scope : db'[d] >= db[d] /\ db'[d] \in Nat
      BY <3>1 DEF Write, NoticeInv, OtherTypes
    <3>2. ASSUME db' = db PROVE \A d \in Scope : db'[d] >= db[d] /\ db'[d] \in Nat
      BY <3>2 DEF NoticeInv, OtherTypes
    <3>3. QED
      BY <1>3, <3>1, <3>2 DEF Next, vars, Elsewhere, Hide, Show, Visit, Tick, OnRetry, Serve,
           Retry, TryAgain, GiveUp, Collect, Send, Commit, Fail, Confirm, HighlightEnds
  <2>3. CASE P \notin watched
    BY <2>1, <2>3, FocusStays DEF NoticeInv, AnswersInOrder, Noticed
  <2>4. CASE P \in watched
    <3>0. cache[P] \in Entry(P)
      BY <1>0, <2>4
    <3>1. ASSUME cache' = cache PROVE Onward(cache[P], cache'[P])
      BY <3>1 DEF Onward
    <3>2. ASSUME NEW q \in watched, NEW e, Set(q, e), q = P => Onward(cache[P], e)
          PROVE  Onward(cache[P], cache'[P])
      BY <2>4, <3>2 DEF Onward, Set, NoticeInv, CacheTypes
    <3>3. /\ Onward(cache[P], cache[P])
          /\ Onward(cache[P], Asking(cache[P]))
      BY <3>0 DEF Onward, Asking, Entry
    <3>4. ASSUME NEW q \in watched, Tick(q) \/ OnRetry(q) PROVE Onward(cache[P], cache'[P])
      BY <3>2, <3>3, <3>4 DEF Tick, OnRetry
    <3>5. ASSUME NEW q \in watched, Serve(q) PROVE Onward(cache[P], cache'[P])
      <4> DEFINE e == [cache[q] EXCEPT !.phase = "answered", !.answer = [d \in q.reads |-> db[d]]]
      <4>1. q = P => Onward(cache[P], e)
        BY <3>0, PollReadsRequests DEF Onward, Entry
      <4>2. QED BY <3>2, <3>5, <4>1 DEF Serve
    <3>6. ASSUME NEW q \in watched, Retry(q) PROVE Onward(cache[P], cache'[P])
      <4> DEFINE e == [cache[q] EXCEPT !.phase = "waiting", !.answer = Zero(q), !.tries = @ + 1]
      <4>1. q = P => Onward(cache[P], e)
        BY <3>0 DEF Onward, Entry
      <4>2. QED BY <3>2, <3>6, <4>1 DEF Retry
    <3>7. ASSUME NEW q \in watched, TryAgain(q) PROVE Onward(cache[P], cache'[P])
      <4>1. q = P => Onward(cache[P], [cache[q] EXCEPT !.phase = "asked"])
        BY <3>0 DEF Onward, Entry
      <4>2. QED BY <3>2, <3>7, <4>1 DEF TryAgain
    <3>8. ASSUME NEW q \in watched, GiveUp(q) PROVE Onward(cache[P], cache'[P])
      <4>1. q = P => Onward(cache[P], [Resting(cache[q], q) EXCEPT !.error = TRUE])
        BY <3>0 DEF Onward, Entry, Resting
      <4>2. QED BY <3>2, <3>8, <4>1 DEF GiveUp
    <3>9. ASSUME NEW q \in watched, Collect(q) PROVE Onward(cache[P], cache'[P])
      <4>1. q # P
        BY <3>9 DEF Collect, Mounted, DashboardLayout
      <4>2. QED BY <3>2, <3>9, <4>1 DEF Collect
    <3>10. ASSUME NEW p, NEW maybe, Show(maybe) \/ Visit(p, maybe)
           PROVE  Onward(cache[P], cache'[P])
      BY <2>4, <3>3, <3>10 DEF Show, Visit, Refreshed
    <3>11. ASSUME NEW s \in Slot, Confirm(s) PROVE Onward(cache[P], cache'[P])
      <4>1. Onward(cache[P], Invalidated(P))
        BY <3>0 DEF Onward, Invalidated, Asking, Entry
      <4>2. QED BY <2>4, <3>3, <3>11, <4>1 DEF Confirm
    <3>12. Onward(cache[P], cache'[P])
      BY <1>3, <3>1, <3>4, <3>5, <3>6, <3>7, <3>8, <3>9, <3>10, <3>11
         DEF Next, vars, Elsewhere, Hide, Send, Commit, Fail, HighlightEnds
    <3>13. QED BY <2>1, <2>2, <2>4, <3>12, OnwardInOrder
  <2>5. QED BY <2>3, <2>4
<1>4. QED BY <1>1, <1>2, <1>3

LEMMA NoticeInvariant == Spec => []NoticeInv
<1>1. NoticeInv /\ [Next]_vars => NoticeInv'
  BY CacheTypesPreserved, OtherTypesPreserved, NoticePreserved DEF NoticeInv
<1>2. QED
  BY NoticeInit, <1>1, PTL DEF Spec

\* For any limit and any order of arrivals, answers, settlements and reloads: of
\* the requests that the poll's list always had a place for, a toast is raised
\* once for every arrival and never for what was there, although seenIdsRef is
\* reset to the ids of the moment. (What the list had no place for may be
\* announced again; the run shows neither part to be empty.)
THEOREM ArrivalsAreAnnouncedOnce == Spec => []ArrivalsAnnouncedOnce
<1>1. NoticeInv => ArrivalsAnnouncedOnce
  BY DEF NoticeInv, OtherTypes, Noticed, ArrivalsAnnouncedOnce
<1>2. QED
  BY NoticeInvariant, <1>1, PTL

=============================================================================
