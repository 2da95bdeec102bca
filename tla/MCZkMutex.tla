------------------------------ MODULE MCZkMutex ------------------------------
(* Instances of ZkMutex for TLC.                                           *)
EXTENDS ZkMutex, TLC

\* The instances are interchangeable: sound where no liveness is checked.
Instances == Permutations(Procs)

=============================================================================
