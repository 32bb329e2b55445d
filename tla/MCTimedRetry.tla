---------------------------- MODULE MCTimedRetry ----------------------------
(***************************************************************************)
(* TimedRetry on a small clock: a delay that doubles from 2 and is clamped *)
(* to 2 or 3, at most 20% of jitter, a window of 2; or a factor that is    *)
(* not a number.  Settings of each type are set on the command line, in    *)
(* the environment and in the file, max_ms once to less than initial_ms.   *)
(***************************************************************************)
EXTENDS TimedRetry

SmallDefaults == [n \in Numbers |-> CASE n = "initial_ms" -> 2
                                      [] n = "max_ms" -> 3
                                      [] n = "max_window_ms" -> 2
                                      [] n = "jitter_percent" -> 20
                                      [] n = "factor" -> "double"]

With(n, value) == [NothingSet EXCEPT ![n] = value]

Source(cli, env, file) == [cli |-> cli, env |-> env, file |-> file]

SmallSources ==
    { Source(NothingSet, NothingSet, NothingSet),
      Source(With("max_ms", 2), [With("max_ms", 1) EXCEPT !["factor"] = "nan"],
             [With("max_ms", 4) EXCEPT !["factor"] = "double"]),
      Source(NothingSet, [With("max_ms", 1) EXCEPT !["jitter_percent"] = 0],
             [With("max_ms", 4) EXCEPT !["jitter_percent"] = 20]),
      Source(With("jitter_percent", 0), With("jitter_percent", Garbled), NothingSet),
      Source(NothingSet, NothingSet, Garbled) }

SmallFactors == {"double", "nan"}

(* The zeroth power is 1, that of what is not a number too.                *)
SmallDelays ==
    [i \in {2} |-> [f \in SmallFactors |-> [n \in 1 .. AttemptsMax |->
       IF f = "nan" /\ n > 1 THEN NaN ELSE i * 2 ^ (n - 1)]]]
=============================================================================
