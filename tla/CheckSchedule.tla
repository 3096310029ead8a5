--------------------------- MODULE CheckSchedule ---------------------------
(***************************************************************************)
(* What check scheduling promises: a claim is one step.  It takes monitors *)
(* that are active and due at that very moment, moves their stamps to its  *)
(* own NOW(), and its process alone probes them for that interval.         *)
(*                                                                         *)
(* Two things the code does not rule out are steps here: a claim that was  *)
(* committed and never heard of, whose monitors nobody probes, and a claim *)
(* that was rolled back unnoticed, whose monitors are probed unstamped.    *)
(***************************************************************************)
EXTENDS Naturals

CONSTANTS Monitors, Engines, Intervals

Never == 0

VARIABLES
    now, active, interval, lastChecked,
    probing    \* the monitors each process has probed and has still to write

scheduleVars == <<now, active, interval, lastChecked, probing>>

Init ==
    /\ now = 1
    /\ active = Monitors
    /\ interval \in [Monitors -> Intervals]
    /\ lastChecked = [m \in Monitors |-> Never]
    /\ probing = [e \in Engines |-> {}]

Due(m, t) == lastChecked[m] = Never \/ lastChecked[m] + interval[m] <= t

Probe(e, claimed) ==
    /\ probing[e] = {}
    /\ probing' = [probing EXCEPT ![e] = claimed]

Claim(e, t) ==
    LET claimed == {m \in Monitors : lastChecked'[m] # lastChecked[m]}
    IN  /\ claimed # {} /\ claimed \subseteq active
        /\ \A m \in claimed : Due(m, t)
        /\ lastChecked' = [m \in Monitors |-> IF m \in claimed THEN t ELSE lastChecked[m]]
        /\ Probe(e, claimed) \/ UNCHANGED probing
        /\ UNCHANGED <<now, active, interval>>

ProbeUnstamped(e) ==
    /\ UNCHANGED <<now, active, interval, lastChecked>>
    /\ \E claimed \in SUBSET Monitors : Probe(e, claimed)

(* A result is written, or the process dies *)
Finish(e) ==
    /\ UNCHANGED <<now, active, interval, lastChecked>>
    /\ \E rest \in SUBSET probing[e] : probing' = [probing EXCEPT ![e] = rest]

Patch(m) ==
    /\ active' \ {m} = active \ {m}
    /\ \E i \in Intervals : interval' = [interval EXCEPT ![m] = i]
    /\ UNCHANGED <<now, lastChecked, probing>>

Tick == now' = now + 1 /\ UNCHANGED <<active, interval, lastChecked, probing>>

Next ==
    \/ \E e \in Engines : (\E t \in 1 .. now : Claim(e, t)) \/ ProbeUnstamped(e) \/ Finish(e)
    \/ \E m \in Monitors : Patch(m)
    \/ Tick

Spec == Init /\ [][Next]_scheduleVars

=============================================================================
