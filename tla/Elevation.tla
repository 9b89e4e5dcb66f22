------------------------------ MODULE Elevation ------------------------------
(***************************************************************************)
(* What ElevateGate promises from end to end: a file runs elevated only if *)
(* it was submitted and that request was approved, with the content that   *)
(* was submitted, and once; and the user is told of a verdict only when it *)
(* was given, of an approval only when the file has run. There are no      *)
(* messages, polls, tokens in transit, crashes or machines here. Module    *)
(* ElevateGate is shown to implement this.                                 *)
(***************************************************************************)
EXTENDS Verdict, Naturals

CONSTANT Hash  \* contents of files

VARIABLES
  subject,  \* subject[r]: the content that request r is about, or None
  runs,     \* runs[r]: how often a file was run for r
  ran,      \* what was run: pairs of a request and a content
  shown     \* shown[r]: what the user is told about r, or None

told == <<subject, runs, ran, shown>>
elevationVars == <<vars, told>>

ElevationInit ==
  /\ Init
  /\ subject = [r \in Request |-> None]
  /\ runs = [r \in Request |-> 0]
  /\ ran = {}
  /\ shown = [r \in Request |-> None]

\* A user asks; nobody else has heard of it yet.
Ask(r, h) ==
  /\ subject[r] = None
  /\ verdict[r] = "absent"
  /\ subject' = [subject EXCEPT ![r] = h]
  /\ shown' = [shown EXCEPT ![r] = "Pending"]
  /\ UNCHANGED <<vars, runs, ran>>

\* The review goes its way, on what was asked.
Review ==
  /\ Next
  /\ \A r \in Request : verdict'[r] # "absent" => subject[r] # None
  /\ UNCHANGED told

Run(r) ==
  /\ verdict[r] = "approved"
  /\ runs[r] = 0
  /\ runs' = [runs EXCEPT ![r] = 1]
  /\ ran' = ran \cup {<<r, subject[r]>>}
  /\ UNCHANGED <<vars, subject, shown>>

\* What may be told. A failure may come at any time: the submission may be
\* reported as failed although it arrived.
Deserved(r, s) ==
  \/ s = "Approved" /\ verdict[r] = "approved" /\ runs[r] = 1
  \/ s = "Denied" /\ verdict[r] = "denied"
  \/ s = "Expired" /\ verdict[r] = "expired"
  \/ s = "Failed"

Show(r, s) ==
  /\ shown[r] # None
  /\ Deserved(r, s)
  /\ shown' = [shown EXCEPT ![r] = s]
  /\ UNCHANGED <<vars, subject, runs, ran>>

Forget ==
  /\ shown' = [r \in Request |-> None]
  /\ UNCHANGED <<vars, subject, runs, ran>>

ElevationNext ==
  \/ \E r \in Request, h \in Hash : Ask(r, h)
  \/ Review
  \/ \E r \in Request : Run(r)
  \/ \E r \in Request, s \in {"Approved", "Denied", "Expired", "Failed"} : Show(r, s)
  \/ Forget

ElevationSpec == ElevationInit /\ [][ElevationNext]_elevationVars

=============================================================================
