---------------------------- MODULE MonitorInput ----------------------------
(***************************************************************************)
(* The bodies of the monitor endpoints and the rows they make.  A body is  *)
(* a record with the fields the client gave.  Text is empty or not; the    *)
(* NULL of a text column is Null, that of tcp_port is 0.                   *)
(***************************************************************************)
EXTENDS Integers

Null == "null"

Given(body, field) == field \in DOMAIN body
Or(body, field, default) == IF Given(body, field) THEN body[field] ELSE default

MaxPort == 65535

(* The target of an uptime monitor is its url, that of a tcp monitor its   *)
(* host and port; the other kind's fields are not stored.                  *)
Target(body) ==
    IF Or(body, "kind", "uptime") = "uptime"
    THEN [url |-> Or(body, "url", ""), tcp_host |-> Null, tcp_port |-> 0]
    ELSE [url |-> Null, tcp_host |-> Or(body, "tcp_host", ""),
          tcp_port |-> Or(body, "tcp_port", 0)]

(* Mutant: every port passes. *)
TargetOfAnyPort(body) ==
    \/ Or(body, "kind", "uptime") = "uptime" /\ Target(body).url # ""
    \/ Or(body, "kind", "uptime") = "tcp" /\ Target(body).tcp_host # ""

ValidTarget(body) ==
    \/ Or(body, "kind", "uptime") = "uptime" /\ Target(body).url # ""
    \/ /\ Or(body, "kind", "uptime") = "tcp"
       /\ Target(body).tcp_host # ""
       /\ Target(body).tcp_port \in 1 .. MaxPort

Positive(body, fields) == \A f \in fields : Given(body, f) => body[f] >= 1
NotEmpty(body, fields) == \A f \in fields : Given(body, f) => body[f] # ""

Counts == {"interval_secs", "failure_threshold", "recovery_threshold"}
PatchFields == Counts \cup {"name", "url", "status"}

(* create_monitor's checks, up to its INSERT *)
ValidCreate(body) ==
    /\ NotEmpty(body, {"name"}) /\ Positive(body, Counts)
    /\ ValidTarget(body)

(* The row of the INSERT, with the columns' defaults *)
NewMonitor(id, workspace, body) ==
    [id |-> id, workspace |-> workspace, name |-> body.name, status |-> "active",
     kind |-> Or(body, "kind", "uptime"),
     url |-> Target(body).url, tcp_host |-> Target(body).tcp_host,
     tcp_port |-> Target(body).tcp_port,
     interval_secs |-> body.interval_secs,
     failure_threshold |-> Or(body, "failure_threshold", 1),
     recovery_threshold |-> Or(body, "recovery_threshold", 1)]

(* patch_monitor's checks, up to its SELECT *)
ValidPatch(body) ==
    /\ DOMAIN body \cap PatchFields # {}
    /\ NotEmpty(body, {"name", "url"}) /\ Positive(body, Counts)
    /\ Given(body, "status") => body.status \in {"active", "paused"}

(* SET f = COALESCE($n, f): the fields not given keep their values *)
Patched(row, body) ==
    [f \in DOMAIN row |-> IF f \in PatchFields THEN Or(body, f, row[f]) ELSE row[f]]

Columns ==
    {"id", "workspace", "name", "status", "kind", "url", "tcp_host", "tcp_port"} \cup Counts

(* The CHECK constraints of the table *)
Stored(row) ==
    /\ row.status \in {"active", "paused", "archived"}
    /\ \A f \in Counts : row[f] \in Nat \ {0}
    /\ \/ row.kind = "uptime" /\ row.url # Null
       \/ row.kind = "tcp" /\ row.tcp_host # Null /\ row.tcp_port \in 1 .. MaxPort
=============================================================================
