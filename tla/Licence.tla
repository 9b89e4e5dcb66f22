------------------------------- MODULE Licence -------------------------------
(***************************************************************************)
(* What an approval promises to the device: it is a licence to run one     *)
(* file, once. A process starts elevated only for a request that was       *)
(* granted, and never twice for the same request, whatever the network     *)
(* repeats and however often the agent restarts. Module Agent is shown to  *)
(* implement this.                                                         *)
(***************************************************************************)
EXTENDS Naturals

CONSTANT Request  \* identities of elevation requests

VARIABLES
  granted,  \* the requests that were approved
  runs      \* runs[r]: how many processes were started for r

vars == <<granted, runs>>

Init ==
  /\ granted = {}
  /\ runs = [r \in Request |-> 0]

Grant(r) ==
  /\ r \notin granted
  /\ granted' = granted \cup {r}
  /\ UNCHANGED runs

Run(r) ==
  /\ r \in granted
  /\ runs[r] = 0
  /\ runs' = [runs EXCEPT ![r] = 1]
  /\ UNCHANGED granted

Next == \E r \in Request : Grant(r) \/ Run(r)

Spec == Init /\ [][Next]_vars

=============================================================================
