-------------------------- MODULE MCLineProfile --------------------------
(* The daisychains of an instance of LineProfile: mainline a feeds both    *)
(* channels of a mixer, b feeds it too, and the mixer the dispatch, which  *)
(* is thus reached three times in a pass.                                  *)
EXTENDS LineProfile

CONSTANTS a, b, mix, dispatch

MCOut == [u \in {a, b, mix, dispatch} |->
  CASE u = a -> <<mix, mix>>
    [] u = b -> <<mix>>
    [] u = mix -> <<dispatch>>
    [] u = dispatch -> <<>>]

MCMainlines == <<a, b>>

Metric(u, name, v) == [unit |-> u, metric |-> name, value |-> v]

(* Each metric where a line could measure it wrongly. *)
MCMetrics ==
  {Metric(dispatch, "period", 1), Metric(mix, "period", 2), Metric(mix, "period", 1),
   Metric(a, "period", 3), Metric(dispatch, "channels", 1),
   Metric(mix, "fill", 1), Metric(dispatch, "bpm", 2),
   Metric(mix, "state", "flushing")}

=============================================================================
