-------------------------- MODULE RefreshSessions --------------------------
(***************************************************************************)
(* What refresh tokens promise: a session, begun by a login, has one head, *)
(* the only token of it that was never exchanged.  An exchange puts a new  *)
(* head in the old one's place in one step, for a client that presented it *)
(* before it expired; a token that was exchanged never comes back, whoever *)
(* presents it.                                                            *)
(***************************************************************************)
EXTENDS Naturals

CONSTANT Lifetime

VARIABLES
    now,
    heads,   \* the newest token of each session
    live,    \* the heads that are not yet purged
    spent,   \* the tokens that were exchanged
    told,    \* the tokens that a client was told
    begun    \* [token, at] of the refreshes under way: what each presented, and when

tables == <<heads, live, spent, told>>
sessionVars == <<now, tables, begun>>

Init == now = 1 /\ heads = {} /\ live = {} /\ spent = {} /\ told = {} /\ begun = {}

Known == heads \cup spent
New(t) == \A k \in Known : k.jti # t.jti

(* The client is told of its token, or the answer is lost. *)
MayTell(t) == told' = told \cup {t} \/ UNCHANGED told

Open ==
    \E t \in heads' \ heads :
        /\ New(t) /\ \A k \in Known : k.session # t.session
        /\ t.exp = now + Lifetime
        /\ heads' = heads \cup {t} /\ live' = live \cup {t}
        /\ MayTell(t)
        /\ UNCHANGED <<now, spent, begun>>

(* A refresh presents a token, in or past its time, spent or not... *)
Begin ==
    /\ \E t \in told : begun' = begun \cup {[token |-> t, at |-> now]}
    /\ UNCHANGED <<now, tables>>

(* ...and is refused or fails... *)
End ==
    /\ begun' \subseteq begun
    /\ UNCHANGED <<now, tables>>

(* ...or exchanges a head that had not expired when it began. *)
Exchange ==
    \E b \in begun, t \in heads' \ heads :
        /\ b.token \in live /\ b.at < b.token.exp
        /\ New(t) /\ t.session = b.token.session
        /\ t.exp \in b.token.exp .. now + Lifetime
        /\ heads' = (heads \ {b.token}) \cup {t}
        /\ live' = (live \ {b.token}) \cup {t}
        /\ spent' = spent \cup {b.token}
        /\ MayTell(t)
        /\ begun' \in {begun, begun \ {b}}
        /\ UNCHANGED now

Expire ==
    /\ live' \subseteq live
    /\ \A t \in live \ live' : t.exp < now
    /\ UNCHANGED <<now, heads, spent, told, begun>>

Tick == now' = now + 1 /\ UNCHANGED <<tables, begun>>

Next == Open \/ Begin \/ End \/ Exchange \/ Expire \/ Tick

Spec == Init /\ [][Next]_sessionVars

=============================================================================
