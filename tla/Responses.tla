----------------------------- MODULE Responses -----------------------------
(***************************************************************************)
(* What a request is answered: a status, the code of the error if it is    *)
(* one, and the rows of the body.  Messages are left out.  The error enums *)
(* of signalnode-api are functions from variant to answer.                 *)
(***************************************************************************)
EXTENDS Naturals, FiniteSets

Success(status, rows) == [status |-> status, code |-> "", rows |-> rows]
Failure(status, code) == [status |-> status, code |-> code, rows |-> {}]

(* The client went away, or the process died: nothing is answered. *)
NoAnswer == Failure(0, "")

AuthError ==
    [InvalidCredentials |-> Failure(401, "invalid_credentials"),
     InvalidToken       |-> Failure(401, "invalid_token"),
     EmailTaken         |-> Failure(409, "email_taken"),
     InvalidInput       |-> Failure(422, "invalid_input"),
     Internal           |-> Failure(500, "internal_error")]

AuthzError ==
    [Forbidden |-> Failure(403, "forbidden"),
     NotFound  |-> Failure(404, "not_found"),
     Internal  |-> Failure(500, "internal_error")]

WorkspaceError ==
    [SlugTaken    |-> Failure(409, "slug_taken"),
     InvalidInput |-> Failure(422, "invalid_input"),
     Internal     |-> Failure(500, "internal_error")]

MonitorError ==
    [Forbidden    |-> Failure(403, "forbidden"),
     NotFound     |-> Failure(404, "not_found"),
     InvalidInput |-> Failure(422, "invalid_input"),
     Internal     |-> Failure(500, "internal_error")]

CheckResultError ==
    [Forbidden    |-> Failure(403, "forbidden"),
     NotFound     |-> Failure(404, "not_found"),
     InvalidInput |-> Failure(422, "invalid_input"),
     Internal     |-> Failure(500, "internal_error")]

NotificationChannelError ==
    [Forbidden    |-> Failure(403, "forbidden"),
     NotFound     |-> Failure(404, "not_found"),
     InvalidInput |-> Failure(422, "invalid_input"),
     Internal     |-> Failure(500, "internal_error")]

IncidentError ==
    [Forbidden |-> Failure(403, "forbidden"),
     NotFound  |-> Failure(404, "not_found"),
     Internal  |-> Failure(500, "internal_error")]

-----------------------------------------------------------------------------
(* What a test asserts of an answer: a status, and maybe the error's code,  *)
(* the number of rows, the fields of a row.                                 *)
Is(status) == [status |-> status]
IsError(status, code) == [status |-> status, code |-> code]
IsRows(status, n) == [status |-> status, rows |-> n]
IsRow(status, row) == [status |-> status, rows |-> 1, like |-> row]

Matches(answer, expected) ==
    /\ answer.status = expected.status
    /\ "code" \in DOMAIN expected => answer.code = expected.code
    /\ "rows" \in DOMAIN expected => Cardinality(answer.rows) = expected.rows
    /\ "like" \in DOMAIN expected => \E row \in answer.rows :
           \A f \in DOMAIN expected.like : row[f] = expected.like[f]
=============================================================================
