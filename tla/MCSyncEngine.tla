---------------------------- MODULE MCSyncEngine ----------------------------
(* Values for the constants of SyncEngine. *)
EXTENDS SyncEngine

\* Every edit of a conversation falls into a second of its own.
DistinctSeconds == [v \in Versions |-> v]

=============================================================================
