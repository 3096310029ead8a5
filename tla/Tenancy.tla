------------------------------ MODULE Tenancy ------------------------------
(***************************************************************************)
(* What the protected routes promise, whichever requests race and fail:    *)
(* a request writes in one step, what it asked for and no more, and its    *)
(* user has the right to it at that very moment.  A workspace comes with   *)
(* its owner, ids and slugs tell rows apart, no incident opens beside an   *)
(* open one, and nothing but a channel is ever deleted.                    *)
(*                                                                         *)
(* One thing the code does not rule out is a step here: an edit of an      *)
(* archived monitor, which may make it active again.                       *)
(***************************************************************************)
EXTENDS Naturals

VARIABLES
    workspaces, members, monitors, channels, results, incidents, pending,
    asked    \* the requests under way: a user, a route and the ids of its path

rows == <<workspaces, members, monitors, channels, results, incidents, pending>>
tenancyVars == <<rows, asked>>

OwnerOf(w) == [workspace |-> w.id, user |-> w.owner, role |-> "owner"]

Belongs(q) == \E m \in members : m.user = q.user /\ m.workspace = q.workspace
Owns(q) == [workspace |-> q.workspace, user |-> q.user, role |-> "owner"] \in members

Named(q, row) == row.id = q.id /\ row.workspace = q.workspace

New(row, others) == \A r \in others : r.id # row.id
Apart(others) == \A r, s \in others : r.id = s.id => r = s
OpenOf(m) == {i \in incidents : i.monitor = m.id /\ i.open}

Init ==
    /\ Apart(workspaces) /\ Apart(monitors) /\ Apart(channels) /\ Apart(incidents)
    /\ \A v, w \in workspaces : v.slug = w.slug => v = w
    /\ \A w \in workspaces : OwnerOf(w) \in members
    /\ pending = {} /\ asked = {}

-----------------------------------------------------------------------------
CreateWorkspace(q) ==
    /\ q.op = "create_workspace"
    /\ \E w \in workspaces' \ workspaces :
         /\ w.owner = q.user
         /\ New(w, workspaces) /\ \A v \in workspaces : v.slug # w.slug
         /\ \A m \in members : m.workspace # w.id
         /\ workspaces' = workspaces \cup {w}
         /\ members' = members \cup {OwnerOf(w)}
    /\ UNCHANGED <<monitors, channels, results, incidents, pending>>

CreateMonitor(q) ==
    /\ q.op = "create_monitor" /\ Belongs(q)
    /\ \E m \in monitors' \ monitors :
         /\ New(m, monitors) /\ m.workspace = q.workspace /\ m.status = "active"
         /\ monitors' = monitors \cup {m}
    /\ UNCHANGED <<workspaces, members, channels, results, incidents, pending>>

(* Any member edits, the owner alone archives. *)
ChangeMonitor(q) ==
    /\ \/ q.op = "patch_monitor" /\ Belongs(q)
       \/ q.op = "delete_monitor" /\ Owns(q)
    /\ \E m \in monitors, n \in monitors' :
         /\ Named(q, m) /\ Named(q, n) /\ n.kind = m.kind
         /\ IF q.op = "delete_monitor" THEN n.status = "archived"
            ELSE n.status = "archived" => m.status = "archived"
         /\ monitors' = (monitors \ {m}) \cup {n}
    /\ UNCHANGED <<workspaces, members, channels, results, incidents, pending>>

CreateChannel(q) ==
    /\ q.op = "create_channel" /\ Owns(q)
    /\ \E h \in channels' \ channels :
         /\ New(h, channels) /\ h.workspace = q.workspace
         /\ channels' = channels \cup {h}
    /\ UNCHANGED <<workspaces, members, monitors, results, incidents, pending>>

DeleteChannel(q) ==
    /\ q.op = "delete_channel" /\ Owns(q)
    /\ \E h \in channels : Named(q, h) /\ channels' = channels \ {h}
    /\ UNCHANGED <<workspaces, members, monitors, results, incidents, pending>>

(* An active monitor's incident begins with a down and ends with an up.    *)
(* Those to be told are the channels that its workspace has at that moment.*)
Opens(m, r) ==
    /\ m.status = "active" /\ r.status = "down" /\ OpenOf(m) = {}
    /\ \E i \in incidents' \ incidents :
         /\ i.monitor = m.id /\ i.open /\ New(i, incidents)
         /\ incidents' = incidents \cup {i}
         /\ pending' = pending \cup
              {[incident |-> i.id, channel |-> h] :
                 h \in {x \in channels : x.workspace = m.workspace}}

Closes(m, r) ==
    /\ m.status = "active" /\ r.status = "up" /\ OpenOf(m) # {}
    /\ incidents' = (incidents \ OpenOf(m)) \cup {[i EXCEPT !.open = FALSE] : i \in OpenOf(m)}
    /\ UNCHANGED pending

RecordResult(q) ==
    /\ q.op = "create_check_result" /\ Belongs(q)
    /\ \E m \in monitors, r \in results' \ results :
         /\ Named(q, m)
         /\ r.monitor = m.id /\ \A s \in results : s.at < r.at
         /\ results' = results \cup {r}
         /\ Opens(m, r) \/ Closes(m, r) \/ UNCHANGED <<incidents, pending>>
    /\ UNCHANGED <<workspaces, members, monitors, channels>>

-----------------------------------------------------------------------------
Writes(q) ==
    \/ CreateWorkspace(q)
    \/ CreateMonitor(q) \/ ChangeMonitor(q)
    \/ CreateChannel(q) \/ DeleteChannel(q)
    \/ RecordResult(q)

Ask ==
    /\ \E q \in asked' \ asked : asked' = asked \cup {q}
    /\ UNCHANGED rows

(* Its one write, or none, ends a request; another like it may be under way. *)
End(q) ==
    /\ Writes(q) \/ UNCHANGED rows
    /\ asked' = asked \ {q} \/ UNCHANGED asked

Next == Ask \/ \E q \in asked : End(q)

Spec == Init /\ [][Next]_tenancyVars

=============================================================================
