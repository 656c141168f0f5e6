---------------------------- MODULE MCSyncerRun -----------------------------
(* One node that connects to us while we dial it, and may restart.          *)
EXTENDS SyncerRun

CONSTANTS c1, c2, a1, u1

\* c1 is accepted and c2 dialed, both at the same node.
MCAddr == [c \in Conns |-> a1]
MCUid == [c \in Conns |-> u1]
=============================================================================
