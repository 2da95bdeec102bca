---------------------------- MODULE MCSensorPool ----------------------------
(* Instances of SensorPool for TLC.                                        *)
EXTENDS SensorPool, TLC

\* Workers are interchangeable in the safety runs.
WorkerSymmetry == Permutations(Workers)

=============================================================================
