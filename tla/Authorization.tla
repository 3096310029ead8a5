--------------------------- MODULE Authorization ---------------------------
(***************************************************************************)
(* Who asks, and what they may do: bearer tokens, the middleware of the    *)
(* protected routes, the role of a user in a workspace.  A token is what   *)
(* its decoding tells apart: whether the signature and the expiry pass,    *)
(* which kind it claims, and whose it is.                                  *)
(***************************************************************************)
EXTENDS Responses

encode_access_token(user) == [kind |-> "access", sub |-> user, genuine |-> TRUE]
encode_refresh_token(user) == [kind |-> "refresh", sub |-> user, genuine |-> TRUE]

(* No Authorization header, or not a Bearer one *)
NoToken == [kind |-> "none", sub |-> "nobody", genuine |-> FALSE]

(* Mutant: any genuine token is an access token. *)
decode_any_token(token) == token.genuine

decode_access_token(token) == token.genuine /\ token.kind = "access"

(* auth_middleware: the request goes on with this user, or gets a 401 *)
Authenticated(token) == token # NoToken /\ decode_access_token(token)

(* A user's role is a row of workspace_members *)
RowsOf(members, workspace, user) ==
    {m \in members : m.workspace = workspace /\ m.user = user}

check_membership(members, workspace, user) ==
    RowsOf(members, workspace, user) # {}

check_owner(members, workspace, user) ==
    \E m \in RowsOf(members, workspace, user) : m.role = "owner"
=============================================================================
