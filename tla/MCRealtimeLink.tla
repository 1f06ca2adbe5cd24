-------------------------- MODULE MCRealtimeLink --------------------------
(***************************************************************************)
(* The instance of RealtimeLink for TLC: the slave has a sender thread, and *)
(* the master sends spikes.                                                *)
(***************************************************************************)
EXTENDS RealtimeLink

Threaded == {"slave"}
FromMaster == [h \in Host |-> IF h = "master" THEN 1 ELSE 0]
=============================================================================
