------------------------------ MODULE MCConsole ------------------------------
(***************************************************************************)
(* Instances of Console for TLC: one query at a time with the pages that   *)
(* mount it or change what it reads and one more, or the notifier alone.   *)
(***************************************************************************)
EXTENDS Console

\* One of the two orders; requests may be filed in either.
SomeOrder ==
  CHOOSE f \in [Request -> 1 .. Cardinality(Request)] :
    \A r, s \in Request : f[r] = f[s] => r = s

PagesAbout(q) ==
  {p \in Pages : q \in p}
    \cup {op.page : op \in {o \in Mutations : q.reads \cap (o.changes \ {"audit"}) # {}}}
    \cup {AuditLogsPage}

\* Of the filters, one that polls and one that does not. The notifier needs a
\* third change to be told something twice.
Alone(q, bound) ==
  [queries |-> {q}, pages |-> PagesAbout(q), limit |-> Cardinality(Request), bound |-> bound]

\* A list that has place for fewer requests than there are.
Cramped ==
  [queries |-> {PendingPoll}, pages |-> {DashboardPage}, limit |-> 1, bound |-> 3]

EachQuery ==
  {Alone(q, 2) : q \in Queries \ {RequestsTable(filter) : filter \in {"all", "denied", "expired"}}}
    \cup {Alone(PendingPoll, 3), Cramped}

OnlyNotifier ==
  {[queries |-> {PendingPoll}, pages |-> {DashboardPage}, limit |-> Cardinality(Request), bound |-> 3]}

=============================================================================
