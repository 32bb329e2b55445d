------------------------------ MODULE MCDaemon ------------------------------
(***************************************************************************)
(* Daemon and its properties, instantiated for TLC.                        *)
(***************************************************************************)
EXTENDS DaemonProperties, TLC

(* Pids and configurations are interchangeable.                            *)
Interchangeable == Permutations(Pids) \cup Permutations(ValidConfigs)
=============================================================================
