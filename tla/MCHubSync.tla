----------------------------- MODULE MCHubSync -----------------------------
(* Bounds and a hash order for the runs of HubSync.                          *)
EXTENDS HubSync

\* The contents of later events have neither always the greater nor always
\* the smaller hash.
MCHash == [i \in 1 .. MaxEvents |-> (i * 3) % 7]

\* Files of equal and of different sizes.
MCSize == [i \in 1 .. MaxEvents |-> i % 2]
=============================================================================
