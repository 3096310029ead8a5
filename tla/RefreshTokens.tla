---------------------------- MODULE RefreshTokens ----------------------------
(***************************************************************************)
(* The refresh_tokens table: login issues a token, refresh exchanges one   *)
(* for its successor in a transaction, purge_once deletes the expired ones.*)
(* A session is what one login began: a chain of tokens, each exchanged    *)
(* for the next.                                                           *)
(*                                                                         *)
(* Signatures are not modelled: a request presents a token that some       *)
(* client was answered.  The API's clock and the database's are one.       *)
(***************************************************************************)
EXTENDS Naturals, FiniteSets

CONSTANTS
    Requests,    \* concurrent POST /auth/refresh requests
    Lifetime,    \* REFRESH_TOKEN_DAYS
    Leeway,      \* how long past exp the decoder accepts a token (60 seconds)
    MaxTokens,   \* bound: tokens encoded in a behaviour
    MaxTime      \* bound: the clock stops here

ASSUME LifetimeAssumption == Lifetime \in Nat \ {0} /\ Leeway \in Nat
ASSUME MaxTokensAssumption == MaxTokens \in Nat
ASSUME MaxTimeAssumption == MaxTime \in Nat \ {0}

VARIABLES
    now,
    encoded,   \* tokens encoded so far: the last one's jti
    tokens,    \* the tokens whose INSERT was ever committed
    stored,    \* the rows of refresh_tokens
    used,      \* tokens that a committed refresh exchanged
    answered,  \* tokens that reached a client
    pc, began, \* a refresh's place, and NOW() of its transaction
    old, new   \* the token it was given (none: {}), and the one it inserted

request == <<pc, began, old, new>>
vars == <<now, encoded, tokens, stored, used, answered, request>>

Jtis == 1 .. MaxTokens
Token == [jti : Jtis, session : Jtis, exp : 1 .. (MaxTime + Lifetime)]

Init ==
    /\ now = 1 /\ encoded = 0
    /\ tokens = {} /\ stored = {} /\ used = {} /\ answered = {}
    /\ pc = [r \in Requests |-> "idle"]
    /\ began = [r \in Requests |-> 1]
    /\ old = [r \in Requests |-> {}] /\ new = [r \in Requests |-> {}]

Goto(r, from, to) == pc[r] = from /\ pc' = [pc EXCEPT ![r] = to]

(* encode_refresh_token: a fresh jti; the first of a session names it *)
Encode(session) ==
    [jti |-> encoded + 1, session |-> session, exp |-> now + Lifetime]

Fresh == encoded < MaxTokens /\ encoded' = encoded + 1

(* Rows deleted by a refresh that has not ended: their locks are held *)
Locked(r) == IF pc[r] \in {"insert", "commit"} THEN old[r] ELSE {}

-----------------------------------------------------------------------------
(* login, once the password is right: one INSERT.  It may be committed and  *)
(* its answer lost; when it fails nothing has changed.                      *)
Login ==
    /\ Fresh
    /\ LET t == Encode(encoded + 1)
       IN  /\ tokens' = tokens \cup {t}
           /\ stored' = stored \cup {t}
           /\ answered' = answered \cup {t} \/ UNCHANGED answered
    /\ UNCHANGED <<now, used, request>>

(* refresh, up to its begin: the token decodes *)
Refresh(r, t) ==
    /\ t \in answered
    /\ now <= t.exp + Leeway
    /\ Goto(r, "idle", "delete")
    /\ began' = [began EXCEPT ![r] = now]
    /\ old' = [old EXCEPT ![r] = {t}]
    /\ UNCHANGED <<now, encoded, tokens, stored, used, answered, new>>

(* Mutant: the number of rows deleted is not looked at. *)
DeleteUnchecked(r) ==
    /\ \A s \in Requests \ {r} : Locked(s) \cap old[r] = {}
    /\ Goto(r, "delete", "insert")
    /\ UNCHANGED <<now, encoded, tokens, stored, used, answered, began, old, new>>

(* Mutant: the DELETE does not look at expires_at. *)
DeleteExpired(r) ==
    /\ \A s \in Requests \ {r} : Locked(s) \cap old[r] = {}
    /\ old[r] \subseteq stored
    /\ Goto(r, "delete", "insert")
    /\ UNCHANGED <<now, encoded, tokens, stored, used, answered, began, old, new>>

Leave(r) ==
    /\ old' = [old EXCEPT ![r] = {}]
    /\ new' = [new EXCEPT ![r] = {}]

(* DELETE ... WHERE jti = $1 AND expires_at > NOW().  It waits while another *)
(* refresh has the row locked, and finds it gone if that one commits.        *)
Delete(r) ==
    /\ \A s \in Requests \ {r} : Locked(s) \cap old[r] = {}
    /\ \A t \in old[r] : t \in stored /\ t.exp > began[r]
    /\ Goto(r, "delete", "insert")
    /\ UNCHANGED <<now, encoded, tokens, stored, used, answered, began, old, new>>

(* No row: 401 *)
DeleteNothing(r) ==
    /\ \A s \in Requests \ {r} : Locked(s) \cap old[r] = {}
    /\ \E t \in old[r] : t \notin stored \/ t.exp <= began[r]
    /\ Goto(r, "delete", "idle")
    /\ Leave(r)
    /\ UNCHANGED <<now, encoded, tokens, stored, used, answered, began>>

Insert(r) ==
    /\ Fresh
    /\ Goto(r, "insert", "commit")
    /\ new' = [new EXCEPT ![r] = {Encode(t.session) : t \in old[r]}]
    /\ UNCHANGED <<now, tokens, stored, used, answered, began, old>>

(* The transaction commits, and the new token reaches the client or not: a  *)
(* lost answer to COMMIT, a failed encoding of the access token, a client   *)
(* that went away.                                                          *)
Commit(r) ==
    /\ Goto(r, "commit", "idle")
    /\ tokens' = tokens \cup new[r]
    /\ stored' = (stored \ old[r]) \cup new[r]
    /\ used' = used \cup old[r]
    /\ answered' = answered \cup new[r] \/ UNCHANGED answered
    /\ Leave(r)
    /\ UNCHANGED <<now, encoded, began>>

(* Mutant: the token is answered though its transaction failed. *)
RollBackAnswered(r) ==
    /\ Goto(r, "commit", "idle")
    /\ answered' = answered \cup new[r]
    /\ Leave(r)
    /\ UNCHANGED <<now, encoded, tokens, stored, used, began>>

(* A statement or the commit fails, the client goes away, the process dies: *)
(* the transaction is dropped and rolls back.                               *)
RollBack(r) ==
    /\ pc[r] # "idle"
    /\ pc' = [pc EXCEPT ![r] = "idle"]
    /\ Leave(r)
    /\ UNCHANGED <<now, encoded, tokens, stored, used, answered, began>>

(* Mutant: rows are kept for a lifetime after they expired. *)
PurgeLate ==
    LET expired == {t \in stored : t.exp + Lifetime < now}
    IN  /\ \A r \in Requests : Locked(r) \cap expired = {}
        /\ stored' = stored \ expired
        /\ UNCHANGED <<now, encoded, tokens, used, answered, request>>

(* purge_once of signalnode-core; its DELETE waits for rows that are locked *)
Purge ==
    LET expired == {t \in stored : t.exp < now}
    IN  /\ \A r \in Requests : Locked(r) \cap expired = {}
        /\ stored' = stored \ expired
        /\ UNCHANGED <<now, encoded, tokens, used, answered, request>>

Tick ==
    /\ now < MaxTime
    /\ now' = now + 1
    /\ UNCHANGED <<encoded, tokens, stored, used, answered, request>>

Handle(r) == Delete(r) \/ DeleteNothing(r) \/ Insert(r) \/ Commit(r) \/ RollBack(r)

Next ==
    \/ Login \/ Purge \/ Tick
    \/ \E r \in Requests : Handle(r) \/ \E t \in answered : Refresh(r, t)

Spec == Init /\ [][Next]_vars

(* run_purger loops for ever; a handler's awaits end, or it is dropped *)
FairSpec == Spec /\ WF_vars(Purge) /\ \A r \in Requests : WF_vars(Handle(r))

-----------------------------------------------------------------------------
TypeOK ==
    /\ now \in 1 .. MaxTime
    /\ encoded \in 0 .. MaxTokens
    /\ tokens \subseteq Token
    /\ stored \subseteq tokens /\ used \subseteq tokens /\ answered \subseteq tokens
    /\ pc \in [Requests -> {"idle", "delete", "insert", "commit"}]
    /\ began \in [Requests -> 1 .. MaxTime]
    /\ old \in [Requests -> SUBSET tokens]
    /\ new \in [Requests -> SUBSET Token]

Session(s) == {t \in tokens : t.session = s}

(* Single use, and no session lost: however refreshes of one token race,   *)
(* fail and are retried, a session has exactly one token that is still to  *)
(* be exchanged.                                                           *)
OneTokenPerSession ==
    \A t \in tokens : Cardinality(Session(t.session) \ used) = 1

(* A token a client was answered is in the table until it is exchanged or  *)
(* expires: no failure hands out one that the next refresh will refuse.    *)
AnsweredIsUsable ==
    \A t \in answered : t \in stored \/ t \in used \/ t.exp < now

(* An expired row does not stay. *)
ExpiredIsPurged ==
    \A j \in Jtis :
        (\E t \in stored : t.jti = j /\ t.exp < now) ~> (\A t \in stored : t.jti # j)

(* What refresh r presented, and NOW() of its transaction *)
Presented(r) == {[token |-> t, at |-> began[r]] : t \in old[r]}

(* Races, failures and lost answers included, the table is that of          *)
(* RefreshSessions: an exchange is one step that spends a session's head,   *)
(* presented before it expired whatever leeway the decoder gave, and no     *)
(* token that was spent or purged is ever accepted again.                   *)
Sessions == INSTANCE RefreshSessions
    WITH heads <- tokens \ used, live <- stored, spent <- used, told <- answered,
         begun <- UNION {Presented(r) : r \in Requests}

ImplementsSessions == Sessions!Spec
=============================================================================
