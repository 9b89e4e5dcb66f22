------------------------------- MODULE Upgrade -------------------------------
(***************************************************************************)
(* What the self-update promises: a new build takes the place of the one   *)
(* that runs in a single step, and only a newer one that was published     *)
(* does; the service that is started next runs it. There are no files,     *)
(* leftovers, failures half-way, triggers or heartbeats here. Module       *)
(* Updates is shown to implement this.                                     *)
(***************************************************************************)
EXTENDS Naturals

CONSTANT None  \* no process runs

VARIABLES
  latest,   \* the latest release
  build,    \* the version the device has
  process   \* the version the service's process runs, or None

upgradeVars == <<latest, build, process>>

UpgradeInit ==
  /\ latest = 0
  /\ build = 0
  /\ process = None

Publish ==
  /\ latest' = latest + 1
  /\ UNCHANGED <<build, process>>

Start ==
  /\ process = None
  /\ process' = build
  /\ UNCHANGED <<latest, build>>

\* A build that has not been started yet is not replaced.
Install(v) ==
  /\ process = build
  /\ build < v
  /\ build' = v
  /\ UNCHANGED <<latest, process>>

Stop ==
  /\ process' = None
  /\ UNCHANGED <<latest, build>>

UpgradeNext == Publish \/ Start \/ Stop \/ \E v \in 1 .. latest : Install(v)

UpgradeSpec == UpgradeInit /\ [][UpgradeNext]_upgradeVars

=============================================================================
