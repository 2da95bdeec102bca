------------------------------ MODULE MCZkLeader -----------------------------
(* Instances of ZkLeader for TLC.                                          *)
EXTENDS ZkLeader

=============================================================================
