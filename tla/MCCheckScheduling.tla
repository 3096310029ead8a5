------------------------- MODULE MCCheckScheduling -------------------------
(* Instances of CheckScheduling for TLC *)
EXTENDS CheckScheduling, TLC

EngineSymmetry == Permutations(Engines) \cup Permutations(Monitors)

(* No action reads the time of a claim that has ended, nor whom a claim left  *)
(* behind that is aborted, so that TLC need not tell states apart by them.    *)
Claiming(e) == pc[e] \in {"select", "stamp", "commit"} /\ ~stampFailed[e]

CurrentClaims ==
    <<now, active, interval, lastChecked, pc, batch, stampFailed, passedOver,
      [e \in Engines |-> IF Claiming(e) THEN <<began[e], left[e]>> ELSE <<0, {}>>]>>
=============================================================================
