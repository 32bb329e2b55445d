------------------------------ MODULE MCSystem ------------------------------
(***************************************************************************)
(* System for TLC: one service; the control service of the daemon is named *)
(* by a default, by the environment, or not at all.                        *)
(***************************************************************************)
EXTENDS System

SmallDefaults == [n \in Settings |-> IF n \in Texts THEN "ours" ELSE 2000]

With(n, value) == [NothingSet EXCEPT ![n] = value]

Source(cli, env, file) == [cli |-> cli, env |-> env, file |-> file]

SmallSources ==
    { Source(NothingSet, With("control_service", Garbled), NothingSet),
      Source(With("control_service", "other"), With("control_service", "ours"),
             NothingSet),
      Source(NothingSet, With("control_timeout_ms", Garbled), NothingSet) }
=============================================================================
