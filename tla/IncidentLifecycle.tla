------------------------- MODULE IncidentLifecycle -------------------------
(***************************************************************************)
(* What incident evaluation promises: the check results of a monitor       *)
(* arrive one after the other, and each one, judged against the whole      *)
(* history that ends with it, opens the monitor's incident, closes it or   *)
(* leaves it.  A result is not judged only if its monitor was paused or    *)
(* archived while it arrived; it is kept and changes no incident.          *)
(***************************************************************************)
EXTENDS CheckHistory

CONSTANTS
    Monitors,
    Thresholds,   \* the [failure, recovery] pairs a monitor may have
    Times         \* the places of the rows in the order of check_results

VARIABLES
    history,      \* all check results
    open,         \* the monitors with an open incident
    active,       \* the monitors that are neither paused nor archived
    waived        \* the monitors whose next result is not to be judged

lifecycleVars == <<history, open, active, waived>>

Row == [monitor : Monitors, status : {"up", "degraded", "down"}, at : Times, judged : BOOLEAN]

Of(m) == {r \in history : r.monitor = m}

Init == history = {} /\ open = {} /\ active = Monitors /\ waived = {}

(* Monitors are paused, resumed and archived. *)
Administered ==
    /\ active' \in SUBSET Monitors
    /\ UNCHANGED <<history, open, waived>>

(* A new latest result of its monitor *)
Recorded(r) ==
    /\ \A q \in Of(r.monitor) : q.at < r.at
    /\ history' = history \cup {r}

(* The result opens the incident exactly when it completes a streak of     *)
(* downs with none open, and closes it exactly when it completes a streak  *)
(* of ups with one open.                                                   *)
Evaluated(r, th) ==
    /\ r.judged /\ r.monitor \notin waived
    /\ Recorded(r)
    /\ open' = IF r.monitor \in open
                 THEN IF Streak(Of(r.monitor) \cup {r}, th.recovery, "up")
                        THEN open \ {r.monitor} ELSE open
                 ELSE IF Streak(Of(r.monitor) \cup {r}, th.failure, "down")
                        THEN open \cup {r.monitor} ELSE open
    /\ UNCHANGED <<active, waived>>

(* The next result of a monitor that is not active will not be judged... *)
Waive(m) ==
    /\ m \notin active
    /\ waived' = waived \cup {m}
    /\ UNCHANGED <<history, open, active>>

(* ...and is kept as it is, or lost. *)
Kept(r) ==
    /\ ~r.judged /\ r.monitor \in waived
    /\ Recorded(r)
    /\ waived' = waived \ {r.monitor}
    /\ UNCHANGED <<open, active>>

Lost(m) ==
    /\ waived' = waived \ {m}
    /\ UNCHANGED <<history, open, active>>

Next ==
    \/ Administered
    \/ \E m \in Monitors : Waive(m) \/ Lost(m)
    \/ \E r \in Row : Kept(r) \/ \E th \in Thresholds : Evaluated(r, th)

Spec == Init /\ [][Next]_lifecycleVars

=============================================================================
