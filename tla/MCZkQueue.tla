------------------------------ MODULE MCZkQueue ------------------------------
(* Instances of ZkQueue for TLC.                                           *)
EXTENDS ZkQueue, TLC

\* The instances are interchangeable: sound where no liveness is checked.
Instances == Permutations(Procs)

=============================================================================
