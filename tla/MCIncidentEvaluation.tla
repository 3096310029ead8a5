------------------------ MODULE MCIncidentEvaluation ------------------------
(* Instances of IncidentEvaluation for TLC *)
EXTENDS IncidentEvaluation

TwoDownsOneUp == {[failure |-> 2, recovery |-> 1]}

(* One result opens and the next closes, so that three writes are enough for *)
(* two of them to close one incident at once                                 *)
OneOrTwoDowns == {[failure |-> 1, recovery |-> 1], [failure |-> 2, recovery |-> 1]}

(* No action reads what was reported, so a run whose properties do not either *)
(* need not tell states apart by it.                                          *)
Unreported == <<monitors, channels, tables, clock, pc, todo, job, tx>>
=============================================================================
