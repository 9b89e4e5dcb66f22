------------------------------- MODULE MCAgent -------------------------------
(* Small instances of Agent for TLC. *)
EXTENDS Agent, TLC

CONSTANTS r1, r2, f1, h1, h2, n1, here, there

\* Sound where Garbled is empty: nothing else tells one request, one hash from
\* another.
Interchangeable == Permutations(Request) \cup Permutations(Hash)

=============================================================================
