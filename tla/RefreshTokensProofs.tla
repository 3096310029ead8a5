------------------------ MODULE RefreshTokensProofs ------------------------
(***************************************************************************)
(* Theorems about RefreshTokens for any number of requests, tokens and     *)
(* sessions, any lifetime and any bound on the clock.                      *)
(***************************************************************************)
EXTENDS RefreshTokens, FiniteSetTheorems, TLAPS

(* A jti, and so a session, is at most the number of tokens encoded *)
Numbered(t) == t.jti <= encoded /\ t.session <= encoded

(* What a request has in hand at its place in the handler *)
InHand(r) ==
    /\ pc[r] = "idle" => old[r] = {} /\ new[r] = {}
    /\ pc[r] \in {"delete", "insert"} => new[r] = {} /\ \E t : old[r] = {t}
    /\ pc[r] = "commit" =>
         \E t, n : old[r] = {t} /\ new[r] = {n} /\ n.session = t.session
    /\ new[r] \cap tokens = {}
    /\ \A t \in new[r] : Numbered(t)
    /\ Locked(r) \subseteq stored

LocksExclusive ==
    \A r, s \in Requests : r # s => Locked(r) \cap Locked(s) = {} /\ new[r] \cap new[s] = {}

(* The head of a token's session is all of it that was not exchanged *)
HasHead(t) == \E h : Session(t.session) \ used = {h}

(* A token that was not exchanged is in the table until it expires *)
Kept(t) == t \in stored \/ t \in used \/ t.exp < now

IInv ==
    /\ TypeOK
    /\ stored \cap used = {}
    /\ \A t \in tokens : Numbered(t) /\ HasHead(t) /\ Kept(t)
    /\ \A r \in Requests : InHand(r)
    /\ LocksExclusive

-----------------------------------------------------------------------------
LEMMA InitIInv == Init => IInv
BY MaxTokensAssumption, MaxTimeAssumption
DEF Init, IInv, TypeOK, InHand, Locked, LocksExclusive

(* A step that only moves requests on, drops what they had or lets time pass *)
LEMMA HandledKeeps ==
    ASSUME IInv, TypeOK', UNCHANGED <<encoded, tokens, stored, used>>, now <= now',
           \A r \in Requests : InHand(r)',
           \A r \in Requests : Locked(r)' \subseteq Locked(r) /\ new'[r] \subseteq new[r]
    PROVE  IInv'
<1>1. \A t \in tokens : HasHead(t)'
    BY DEF IInv, HasHead, Session
<1>2. \A t \in tokens : Kept(t)'
    BY DEF IInv, Kept, TypeOK, Token
<1>3. LocksExclusive'
    BY DEF IInv, LocksExclusive
<1> QED BY <1>1, <1>2, <1>3 DEF IInv, Numbered

LEMMA RefreshKeeps ==
    ASSUME IInv, NEW r \in Requests, NEW t \in answered, Refresh(r, t)
    PROVE  IInv'
<1>1. /\ pc[r] = "idle" /\ pc' = [pc EXCEPT ![r] = "delete"]
      /\ began' = [began EXCEPT ![r] = now] /\ old' = [old EXCEPT ![r] = {t}]
      /\ UNCHANGED <<now, encoded, tokens, stored, used, answered, new>>
    BY DEF Refresh, Goto
<1>2. TypeOK'
    BY <1>1 DEF IInv, TypeOK
<1>3. \A s \in Requests : Locked(s)' \subseteq Locked(s) /\ new'[s] \subseteq new[s]
    BY <1>1 DEF IInv, TypeOK, Locked
<1>4. \A s \in Requests : InHand(s)'
    BY <1>1, <1>3 DEF IInv, InHand, Numbered, TypeOK
<1> QED BY <1>1, <1>2, <1>3, <1>4, HandledKeeps DEF IInv, TypeOK

LEMMA DropKeeps ==
    ASSUME IInv, NEW r \in Requests, DeleteNothing(r) \/ RollBack(r)
    PROVE  IInv'
<1>1. /\ pc' = [pc EXCEPT ![r] = "idle"]
      /\ old' = [old EXCEPT ![r] = {}] /\ new' = [new EXCEPT ![r] = {}]
      /\ UNCHANGED <<now, encoded, tokens, stored, used, answered, began>>
    BY DEF DeleteNothing, RollBack, Goto, Leave
<1>2. TypeOK'
    BY <1>1 DEF IInv, TypeOK
<1>3. \A s \in Requests : Locked(s)' \subseteq Locked(s) /\ new'[s] \subseteq new[s]
    BY <1>1 DEF IInv, TypeOK, Locked
<1>4. \A s \in Requests : InHand(s)'
    BY <1>1, <1>3 DEF IInv, InHand, Numbered, TypeOK
<1> QED BY <1>1, <1>2, <1>3, <1>4, HandledKeeps DEF IInv, TypeOK

(* The DELETE finds its row: the request now holds it *)
LEMMA DeleteKeeps ==
    ASSUME IInv, NEW r \in Requests, Delete(r)
    PROVE  IInv'
<1>1. /\ \A s \in Requests \ {r} : Locked(s) \cap old[r] = {}
      /\ old[r] \subseteq stored
      /\ pc[r] = "delete" /\ pc' = [pc EXCEPT ![r] = "insert"]
      /\ UNCHANGED <<now, encoded, tokens, stored, used, answered, began, old, new>>
    BY DEF Delete, Goto
<1>2. TypeOK'
    BY <1>1 DEF IInv, TypeOK
<1>3. Locked(r)' = old[r] /\ \A s \in Requests \ {r} : Locked(s)' = Locked(s)
    BY <1>1 DEF IInv, TypeOK, Locked
<1>4. \A s \in Requests : InHand(s)'
    BY <1>1, <1>3 DEF IInv, InHand, Numbered, TypeOK
<1>5. LocksExclusive'
    BY <1>1, <1>3 DEF IInv, LocksExclusive
<1>6. \A t \in tokens : HasHead(t)' /\ Kept(t)' /\ Numbered(t)'
    BY <1>1 DEF IInv, HasHead, Session, Kept, Numbered
<1> QED BY <1>1, <1>2, <1>4, <1>5, <1>6 DEF IInv

LEMMA InsertKeeps ==
    ASSUME IInv, NEW r \in Requests, Insert(r)
    PROVE  IInv'
<1>1. /\ encoded < MaxTokens /\ encoded' = encoded + 1
      /\ pc[r] = "insert" /\ pc' = [pc EXCEPT ![r] = "commit"]
      /\ new' = [new EXCEPT ![r] = {Encode(t.session) : t \in old[r]}]
      /\ UNCHANGED <<now, tokens, stored, used, answered, began, old>>
    BY DEF Insert, Fresh, Goto
<1>2. PICK t : old[r] = {t}
    BY <1>1 DEF IInv, InHand
<1>3. t \in tokens /\ t \in Token /\ Numbered(t)
    BY <1>2 DEF IInv, TypeOK
<1>4. PICK n : n = Encode(t.session) /\ new' = [new EXCEPT ![r] = {n}]
    BY <1>1, <1>2
<1>5. n \in Token /\ n.session = t.session /\ n.jti = encoded + 1
    BY <1>1, <1>3, <1>4, LifetimeAssumption, MaxTokensAssumption, MaxTimeAssumption
    DEF Encode, Token, Jtis, IInv, TypeOK
<1>6. n \notin tokens /\ \A s \in Requests : n \notin new[s]
    BY <1>5 DEF IInv, TypeOK, Numbered, InHand
<1>7. TypeOK'
    BY <1>1, <1>4, <1>5, MaxTokensAssumption DEF IInv, TypeOK
<1>8. \A s \in Requests : Locked(s)' = Locked(s)
    BY <1>1 DEF IInv, TypeOK, Locked
<1>9. \A s \in Requests : \A x \in new[s] : Numbered(x)'
    BY <1>1, MaxTokensAssumption DEF IInv, InHand, Numbered, TypeOK, Token, Jtis
<1>10. Numbered(n)'
    BY <1>1, <1>3, <1>5, MaxTokensAssumption DEF Numbered, IInv, TypeOK, Token, Jtis
<1>11. InHand(r)'
  <2>1. pc'[r] = "commit" /\ old'[r] = {t} /\ new'[r] = {n}
      BY <1>1, <1>2, <1>4 DEF IInv, TypeOK
  <2>2. Locked(r)' \subseteq stored'
      BY <1>1, <1>8 DEF IInv, InHand
  <2>3. new'[r] \cap tokens' = {} /\ \A x \in new'[r] : Numbered(x)'
      BY <1>1, <1>6, <1>10, <2>1
  <2> QED BY <1>5, <2>1, <2>2, <2>3 DEF InHand
<1>12. ASSUME NEW s \in Requests \ {r} PROVE InHand(s)'
  <2>1. pc'[s] = pc[s] /\ old'[s] = old[s] /\ new'[s] = new[s]
      BY <1>1, <1>4 DEF IInv, TypeOK
  <2>2. Locked(s)' \subseteq stored'
      BY <1>1, <1>8 DEF IInv, InHand
  <2> QED BY <1>1, <1>9, <2>1, <2>2 DEF IInv, InHand
<1>13. LocksExclusive'
    BY <1>4, <1>6, <1>8 DEF IInv, LocksExclusive, TypeOK
<1>14. \A x \in tokens : HasHead(x)' /\ Kept(x)'
    BY <1>1 DEF IInv, HasHead, Session, Kept
<1>15. \A x \in tokens : Numbered(x)'
    BY <1>1, MaxTokensAssumption DEF IInv, Numbered, TypeOK, Token, Jtis
<1> QED BY <1>1, <1>7, <1>11, <1>12, <1>13, <1>14, <1>15 DEF IInv

(* The exchange: the session's head gives way to its successor *)
LEMMA CommitKeeps ==
    ASSUME IInv, NEW r \in Requests, Commit(r)
    PROVE  IInv'
<1>1. /\ pc[r] = "commit" /\ pc' = [pc EXCEPT ![r] = "idle"]
      /\ tokens' = tokens \cup new[r]
      /\ stored' = (stored \ old[r]) \cup new[r]
      /\ used' = used \cup old[r]
      /\ answered' = answered \cup new[r] \/ answered' = answered
      /\ old' = [old EXCEPT ![r] = {}] /\ new' = [new EXCEPT ![r] = {}]
      /\ UNCHANGED <<now, encoded, began>>
    BY DEF Commit, Goto, Leave
<1>2. PICK t, n : old[r] = {t} /\ new[r] = {n} /\ n.session = t.session
    BY <1>1 DEF IInv, InHand
<1>3. t \in stored /\ t \in tokens /\ t \notin used /\ n \notin tokens /\ n \in Token /\ Numbered(n)
    BY <1>1, <1>2 DEF IInv, InHand, Locked, TypeOK
<1>4. TypeOK'
    BY <1>1 DEF IInv, TypeOK
<1>5. n \notin used /\ n # t
    BY <1>3 DEF IInv, TypeOK
<1>6. (stored \cap used)' = {}
    BY <1>1, <1>2, <1>3, <1>5 DEF IInv
<1>7. Session(t.session) \ used = {t}
    BY <1>3 DEF IInv, HasHead, Session
<1>8. ASSUME NEW x \in tokens' PROVE HasHead(x)'
  <2>1. CASE x.session = t.session
    <3>1. Session(x.session)' \ used' = {n}
        BY <1>1, <1>2, <1>3, <1>5, <1>7, <2>1 DEF Session
    <3> QED BY <3>1 DEF HasHead, Session
  <2>2. CASE x.session # t.session
    <3>1. x \in tokens
        BY <1>1, <1>2, <2>2
    <3>2. Session(x.session)' = Session(x.session) /\ t \notin Session(x.session)
        BY <1>1, <1>2, <2>2 DEF Session
    <3>3. Session(x.session)' \ used' = Session(x.session) \ used
        BY <1>1, <1>2, <3>2
    <3> QED BY <3>1, <3>3 DEF IInv, HasHead, Session
  <2> QED BY <2>1, <2>2
<1>9. \A x \in tokens' : Kept(x)' /\ Numbered(x)'
    BY <1>1, <1>2, <1>3 DEF IInv, Kept, Numbered
<1>10. Locked(r)' = {} /\ \A s \in Requests \ {r} : Locked(s)' = Locked(s)
    BY <1>1 DEF IInv, TypeOK, Locked
<1>11. ASSUME NEW s \in Requests \ {r} PROVE InHand(s)'
  <2>1. t \notin Locked(s) /\ n \notin new[s]
      BY <1>1, <1>2 DEF IInv, LocksExclusive, Locked
  <2>2. Locked(s)' \subseteq stored'
      BY <1>1, <1>2, <1>10, <2>1 DEF IInv, InHand
  <2>3. new'[s] \cap tokens' = {}
      BY <1>1, <1>2, <2>1 DEF IInv, InHand, TypeOK
  <2> QED BY <1>1, <2>2, <2>3 DEF IInv, InHand, Numbered, TypeOK
<1>12. InHand(r)'
    BY <1>1, <1>10 DEF IInv, InHand, TypeOK
<1>13. LocksExclusive'
    BY <1>1, <1>10 DEF IInv, LocksExclusive, TypeOK
<1> QED BY <1>4, <1>6, <1>8, <1>9, <1>11, <1>12, <1>13 DEF IInv

LEMMA LoginKeeps == ASSUME IInv, Login PROVE IInv'
<1>1. PICK t :
      /\ t = Encode(encoded + 1)
      /\ encoded < MaxTokens /\ encoded' = encoded + 1
      /\ tokens' = tokens \cup {t} /\ stored' = stored \cup {t}
      /\ answered' = answered \cup {t} \/ answered' = answered
      /\ UNCHANGED <<now, used, pc, began, old, new>>
    BY DEF Login, Fresh, request
<1>2. t \in Token /\ t.session = encoded + 1 /\ t.jti = encoded + 1
    BY <1>1, LifetimeAssumption, MaxTokensAssumption, MaxTimeAssumption
    DEF Encode, Token, Jtis, IInv, TypeOK
<1>3. t \notin tokens /\ t \notin used /\ \A r \in Requests : t \notin new[r]
    BY <1>2 DEF IInv, TypeOK, Numbered, InHand
<1>4. TypeOK'
    BY <1>1, <1>2, MaxTokensAssumption DEF IInv, TypeOK
<1>5. ASSUME NEW x \in tokens PROVE HasHead(x)' /\ Kept(x)' /\ Numbered(x)'
  <2>1. x.session # t.session
      BY <1>2 DEF IInv, Numbered, TypeOK
  <2>2. Session(x.session)' = Session(x.session)
      BY <1>1, <2>1 DEF Session
  <2>3. x \in Token
      BY DEF IInv, TypeOK
  <2>4. Numbered(x)'
      BY <1>1, <2>3, MaxTokensAssumption DEF IInv, Numbered, TypeOK, Token, Jtis
  <2> QED BY <1>1, <2>2, <2>4 DEF IInv, HasHead, Kept
<1>6. Session(t.session)' \ used' = {t}
  <2>1. \A x \in tokens : x.session # t.session
      BY <1>2 DEF IInv, Numbered, TypeOK, Token, Jtis
  <2> QED BY <1>1, <1>3, <2>1 DEF Session
<1>7. HasHead(t)' /\ Kept(t)' /\ Numbered(t)'
  <2>1. HasHead(t)'
      BY <1>6 DEF HasHead, Session
  <2>2. Numbered(t)'
      BY <1>1, <1>2 DEF Numbered, IInv, TypeOK
  <2> QED BY <1>1, <2>1, <2>2 DEF Kept
<1>8. \A r \in Requests : \A x \in new[r] : Numbered(x)'
    BY <1>1, MaxTokensAssumption DEF IInv, InHand, Numbered, TypeOK, Token, Jtis
<1>9. \A r \in Requests : InHand(r)'
    BY <1>1, <1>3, <1>8 DEF IInv, InHand, Locked
<1>10. LocksExclusive'
    BY <1>1 DEF IInv, LocksExclusive, Locked
<1> QED BY <1>1, <1>3, <1>4, <1>5, <1>7, <1>9, <1>10 DEF IInv

LEMMA PurgeKeeps == ASSUME IInv, Purge PROVE IInv'
<1>1. PICK expired \in SUBSET stored :
        /\ \A t \in expired : t.exp < now
        /\ \A r \in Requests : Locked(r) \cap expired = {}
        /\ stored' = stored \ expired
        /\ UNCHANGED <<now, encoded, tokens, used, answered, pc, began, old, new>>
    BY DEF Purge, request
<1>2. TypeOK'
    BY <1>1 DEF IInv, TypeOK
<1>3. \A t \in tokens : HasHead(t)' /\ Kept(t)' /\ Numbered(t)'
    BY <1>1 DEF IInv, HasHead, Session, Kept, Numbered
<1>4. \A r \in Requests : InHand(r)'
    BY <1>1 DEF IInv, InHand, Locked, Numbered
<1>5. LocksExclusive'
    BY <1>1 DEF IInv, LocksExclusive, Locked
<1> QED BY <1>1, <1>2, <1>3, <1>4, <1>5 DEF IInv

LEMMA TickKeeps == ASSUME IInv, Tick PROVE IInv'
<1>1. now < MaxTime /\ now' = now + 1
      /\ UNCHANGED <<encoded, tokens, stored, used, answered, pc, began, old, new>>
    BY DEF Tick, request
<1>2. TypeOK'
    BY <1>1, MaxTimeAssumption DEF IInv, TypeOK
<1>3. \A r \in Requests : InHand(r)' /\ Locked(r)' = Locked(r)
    BY <1>1 DEF IInv, InHand, Locked, Numbered
<1> QED BY <1>1, <1>2, <1>3, HandledKeeps DEF IInv, TypeOK

-----------------------------------------------------------------------------
LEMMA NextIInv == IInv /\ [Next]_vars => IInv'
<1> SUFFICES ASSUME IInv, [Next]_vars PROVE IInv'
    OBVIOUS
<1>1. CASE Login \/ Purge \/ Tick
    BY <1>1, LoginKeeps, PurgeKeeps, TickKeeps
<1>2. ASSUME NEW r \in Requests, Handle(r) PROVE IInv'
    BY <1>2, DeleteKeeps, DropKeeps, InsertKeeps, CommitKeeps DEF Handle
<1>3. ASSUME NEW r \in Requests, NEW t \in answered, Refresh(r, t) PROVE IInv'
    BY <1>3, RefreshKeeps
<1>4. CASE UNCHANGED vars
    BY <1>4 DEF vars, request, IInv, TypeOK, InHand, Locked, LocksExclusive, HasHead,
        Session, Kept, Numbered
<1> QED BY <1>1, <1>2, <1>3, <1>4 DEF Next

LEMMA AlwaysIInv == Spec => []IInv
BY InitIInv, NextIInv, PTL DEF Spec

(* Every variable keeps its type. *)
THEOREM TypeCorrect == Spec => []TypeOK
BY AlwaysIInv, PTL DEF IInv

(* However many requests race for its tokens, fail or are dropped, a       *)
(* session has exactly one token that was not exchanged.                   *)
THEOREM SessionsHaveOneToken == Spec => []OneTokenPerSession
<1>1. IInv => OneTokenPerSession
    BY FS_Singleton DEF IInv, HasHead, OneTokenPerSession
<1> QED BY <1>1, AlwaysIInv, PTL

(* A token that reached a client is in the table until it is exchanged or  *)
(* has expired.                                                            *)
THEOREM AnsweredTokensAreUsable == Spec => []AnsweredIsUsable
<1>1. IInv => AnsweredIsUsable
    BY DEF IInv, TypeOK, Kept, AnsweredIsUsable
<1> QED BY <1>1, AlwaysIInv, PTL

-----------------------------------------------------------------------------
(* The refinement.  To the above it adds that no two tokens, stored or about *)
(* to be, have one jti, and what an exchange has in hand: a token some       *)
(* client was told, which had not expired when the exchange began, and a     *)
(* successor that expires no sooner.                                         *)
Apart ==
    /\ \A t, u \in tokens : t.jti = u.jti => t = u
    /\ \A r \in Requests : \A n \in new[r] :
         /\ \A t \in tokens : t.jti # n.jti
         /\ \A s \in Requests \ {r} : \A m \in new[s] : m.jti # n.jti

Exchanging(r) ==
    /\ old[r] \subseteq answered
    /\ \A t \in old[r], n \in new[r] : t.exp <= n.exp

Dated ==
    /\ \A t \in tokens : t.exp <= now + Lifetime
    /\ \A r \in Requests : \A n \in new[r] : n.exp <= now + Lifetime

Succession == Apart /\ Dated /\ \A r \in Requests : Exchanging(r)

LEMMA InitSuccession == Init => Succession
BY DEF Init, Succession, Apart, Dated, Exchanging

(* A step that encodes nothing and commits nothing *)
LEMMA SuccessionHeld ==
    ASSUME IInv, Succession, now' \in Nat, now <= now', tokens' = tokens,
           answered \subseteq answered',
           \A r \in Requests : new'[r] \subseteq new[r]
               /\ (old'[r] \subseteq old[r] \/ (new'[r] = {} /\ old'[r] \subseteq answered'))
    PROVE  Succession'
<1>1. Apart'
    BY DEF Succession, Apart
<1>2. now \in Nat /\ \A t \in tokens : t.exp \in Nat
    BY DEF IInv, TypeOK, Token
<1>3. \A r \in Requests : \A n \in new[r] : n.exp \in Nat
    BY DEF IInv, TypeOK, Token
<1>4. Dated'
    BY <1>2, <1>3, LifetimeAssumption DEF Succession, Dated
<1>5. \A r \in Requests : Exchanging(r)'
    BY DEF Succession, Exchanging
<1> QED BY <1>1, <1>4, <1>5 DEF Succession

(* What a refresh has deleted had not expired when it began. *)
InTime == \A r \in Requests : \A t \in Locked(r) : began[r] < t.exp

LEMMA NextInTime == IInv /\ InTime /\ [Next]_vars => InTime'
<1> SUFFICES ASSUME IInv, InTime, [Next]_vars PROVE InTime'
    OBVIOUS
<1>1. CASE Login \/ Purge \/ Tick \/ UNCHANGED vars
    BY <1>1 DEF Login, Purge, Tick, vars, request, InTime, Locked
<1>2. ASSUME NEW r \in Requests, NEW t \in answered, Refresh(r, t) PROVE InTime'
  <2>1. pc'[r] = "delete" /\ \A s \in Requests \ {r} :
          pc'[s] = pc[s] /\ old'[s] = old[s] /\ began'[s] = began[s]
      BY <1>2 DEF Refresh, Goto, IInv, TypeOK
  <2> QED BY <2>1 DEF InTime, Locked
<1>3. ASSUME NEW r \in Requests, Delete(r) PROVE InTime'
  <2>1. /\ \A t \in old[r] : t \in tokens /\ began[r] < t.exp
        /\ \A s \in Requests \ {r} : pc'[s] = pc[s]
        /\ UNCHANGED <<old, began>>
      BY <1>3 DEF Delete, Goto, IInv, TypeOK, Token
  <2> QED BY <2>1 DEF InTime, Locked
<1>4. ASSUME NEW r \in Requests, Insert(r) PROVE InTime'
  <2>1. /\ pc[r] = "insert" /\ \A s \in Requests \ {r} : pc'[s] = pc[s]
        /\ UNCHANGED <<old, began>>
      BY <1>4 DEF Insert, Goto, IInv, TypeOK
  <2> QED BY <2>1 DEF InTime, Locked
<1>5. ASSUME NEW r \in Requests, DeleteNothing(r) \/ Commit(r) \/ RollBack(r) PROVE InTime'
  <2>1. /\ pc'[r] = "idle" /\ began' = began
        /\ \A s \in Requests \ {r} : pc'[s] = pc[s] /\ old'[s] = old[s]
      BY <1>5 DEF DeleteNothing, Commit, RollBack, Goto, Leave, IInv, TypeOK
  <2> QED BY <2>1 DEF InTime, Locked
<1> QED BY <1>1, <1>2, <1>3, <1>4, <1>5 DEF Next, Handle

LEMMA InsertSucceeds ==
    ASSUME IInv, Succession, NEW r \in Requests, Insert(r)
    PROVE  Succession'
<1>1. /\ encoded < MaxTokens /\ pc[r] = "insert"
      /\ new' = [new EXCEPT ![r] = {Encode(t.session) : t \in old[r]}]
      /\ UNCHANGED <<now, tokens, answered, old>>
    BY DEF Insert, Fresh, Goto
<1>2. PICK t : old[r] = {t}
    BY <1>1 DEF IInv, InHand
<1>3. PICK n : n = Encode(t.session) /\ new' = [new EXCEPT ![r] = {n}]
    BY <1>1, <1>2
<1>4. n.jti = encoded + 1 /\ n.exp = now + Lifetime /\ t \in tokens
    BY <1>2, <1>3 DEF Encode, IInv, TypeOK
<1>5. new'[r] = {n} /\ \A s \in Requests \ {r} : new'[s] = new[s]
    BY <1>3 DEF IInv, TypeOK
<1>6. \A x \in tokens : x.jti # n.jti
    BY <1>4 DEF IInv, TypeOK, Numbered, Token, Jtis
<1>7. \A s \in Requests : \A x \in new[s] : x.jti # n.jti
    BY <1>4 DEF IInv, TypeOK, InHand, Numbered, Token, Jtis
<1>8. Apart'
    BY <1>1, <1>5, <1>6, <1>7 DEF Succession, Apart
<1>9. Dated'
    BY <1>1, <1>4, <1>5, LifetimeAssumption DEF Succession, Dated, IInv, TypeOK
<1>10. \A s \in Requests : Exchanging(s)'
    BY <1>1, <1>2, <1>4, <1>5 DEF Succession, Dated, Exchanging
<1> QED BY <1>8, <1>9, <1>10 DEF Succession

LEMMA CommitSucceeds ==
    ASSUME IInv, Succession, NEW r \in Requests, Commit(r)
    PROVE  Succession'
<1>1. /\ tokens' = tokens \cup new[r] /\ answered \subseteq answered'
      /\ old' = [old EXCEPT ![r] = {}] /\ new' = [new EXCEPT ![r] = {}]
      /\ pc[r] = "commit" /\ now' = now
    BY DEF Commit, Goto, Leave
<1>2. PICK n : new[r] = {n}
    BY <1>1 DEF IInv, InHand
<1>3. /\ new'[r] = {} /\ old'[r] = {}
      /\ \A s \in Requests \ {r} : new'[s] = new[s] /\ old'[s] = old[s]
    BY <1>1 DEF IInv, TypeOK
<1>4. Apart'
    BY <1>1, <1>2, <1>3 DEF Succession, Apart
<1>5. Dated'
    BY <1>1, <1>2, <1>3 DEF Succession, Dated
<1>6. \A s \in Requests : Exchanging(s)'
    BY <1>1, <1>3 DEF Succession, Exchanging
<1> QED BY <1>4, <1>5, <1>6 DEF Succession

LEMMA LoginSucceeds == ASSUME IInv, Succession, Login PROVE Succession'
<1>1. PICK t :
      /\ t = Encode(encoded + 1)
      /\ tokens' = tokens \cup {t} /\ answered \subseteq answered'
      /\ UNCHANGED <<now, old, new>>
    BY DEF Login, request
<1>2. t.jti = encoded + 1 /\ t.exp = now + Lifetime
    BY <1>1 DEF Encode
<1>3. \A x \in tokens : x.jti # t.jti
    BY <1>2 DEF IInv, TypeOK, Numbered, Token, Jtis
<1>4. \A r \in Requests : \A x \in new[r] : x.jti # t.jti
    BY <1>2 DEF IInv, TypeOK, InHand, Numbered, Token, Jtis
<1>5. Apart'
    BY <1>1, <1>3, <1>4 DEF Succession, Apart
<1>6. Dated'
    BY <1>1, <1>2, LifetimeAssumption DEF Succession, Dated, IInv, TypeOK
<1>7. \A s \in Requests : Exchanging(s)'
    BY <1>1 DEF Succession, Exchanging
<1> QED BY <1>5, <1>6, <1>7 DEF Succession

LEMMA NextSuccession == IInv /\ IInv' /\ Succession /\ [Next]_vars => Succession'
<1> SUFFICES ASSUME IInv, IInv', Succession, [Next]_vars PROVE Succession'
    OBVIOUS
<1>1. now \in Nat /\ now' \in Nat
    BY DEF IInv, TypeOK
<1>2. CASE Login
    BY <1>2, LoginSucceeds
<1>3. CASE Purge \/ Tick \/ UNCHANGED vars
    BY <1>1, <1>3, SuccessionHeld DEF Purge, Tick, vars, request
<1>4. ASSUME NEW r \in Requests, NEW t \in answered, Refresh(r, t) PROVE Succession'
  <2>1. /\ old' = [old EXCEPT ![r] = {t}] /\ UNCHANGED <<now, tokens, answered, new>>
        /\ new[r] = {}
      BY <1>4 DEF Refresh, Goto, IInv, InHand
  <2> QED BY <1>1, <2>1, SuccessionHeld DEF IInv, TypeOK
<1>5. ASSUME NEW r \in Requests, Delete(r) PROVE Succession'
    BY <1>1, <1>5, SuccessionHeld DEF Delete
<1>6. ASSUME NEW r \in Requests, DeleteNothing(r) \/ RollBack(r) PROVE Succession'
  <2>1. /\ old' = [old EXCEPT ![r] = {}] /\ new' = [new EXCEPT ![r] = {}]
        /\ UNCHANGED <<now, tokens, answered>>
      BY <1>6 DEF DeleteNothing, RollBack, Leave
  <2> QED BY <1>1, <2>1, SuccessionHeld DEF IInv, TypeOK
<1>7. ASSUME NEW r \in Requests, Insert(r) \/ Commit(r) PROVE Succession'
    BY <1>7, InsertSucceeds, CommitSucceeds
<1> QED BY <1>2, <1>3, <1>4, <1>5, <1>6, <1>7 DEF Next, Handle

(* The refreshes under way, as RefreshSessions sees them *)
Begun == UNION {Presented(r) : r \in Requests}

(* One that leaves takes what it presented with it, unless another presented *)
(* the same at the same time.                                                *)
LEMMA LeaveEnds ==
    ASSUME IInv, NEW r \in Requests, Leave(r), began' = began
    PROVE  Begun' \in {Begun, Begun \ Presented(r)}
<1>1. Presented(r)' = {} /\ \A s \in Requests \ {r} : Presented(s)' = Presented(s)
    BY DEF Leave, Presented, IInv, TypeOK
<1>2. Begun' = UNION {Presented(s) : s \in Requests \ {r}}
    BY <1>1 DEF Begun
<1>3. Presented(r) = {} \/ \E b : Presented(r) = {b}
  <2>1. old[r] = {} \/ \E t : old[r] = {t}
    <3>1. pc[r] \in {"idle", "delete", "insert", "commit"}
        BY DEF IInv, TypeOK
    <3> QED BY <3>1 DEF IInv, InHand
  <2>2. ASSUME NEW t, old[r] = {t} PROVE Presented(r) = {[token |-> t, at |-> began[r]]}
      BY <2>2 DEF Presented
  <2>3. CASE old[r] = {}
      BY <2>3 DEF Presented
  <2> QED BY <2>1, <2>2, <2>3
<1>4. Begun = Begun' \cup Presented(r)
    BY <1>2 DEF Begun
<1> QED BY <1>3, <1>4

(* A COMMIT is the exchange. *)
LEMMA CommitIsExchange ==
    ASSUME IInv, Succession, InTime, NEW r \in Requests, Commit(r)
    PROVE  Sessions!Exchange
<1>1. /\ pc[r] = "commit" /\ now' = now
      /\ tokens' = tokens \cup new[r]
      /\ stored' = (stored \ old[r]) \cup new[r]
      /\ used' = used \cup old[r]
      /\ answered' = answered \cup new[r] \/ answered' = answered
    BY DEF Commit, Goto
<1>2. PICK t, n : old[r] = {t} /\ new[r] = {n} /\ n.session = t.session
    BY <1>1 DEF IInv, InHand
<1>3. t \in stored /\ t \in tokens /\ n \notin tokens /\ t \notin used /\ n \notin used
    BY <1>1, <1>2 DEF IInv, InHand, Locked, TypeOK
<1> DEFINE b == [token |-> t, at |-> began[r]]
<1>4. /\ Presented(r) = {b} /\ b \in Begun
      /\ b.token = t /\ b.at < t.exp
    BY <1>1, <1>2 DEF Presented, Begun, InTime, Locked
<1>11. Begun' \in {Begun, Begun \ {b}}
    BY <1>4, LeaveEnds DEF Commit
<1>5. tokens' \ used' = ((tokens \ used) \ {t}) \cup {n} /\ n \notin tokens \ used
    BY <1>1, <1>2, <1>3
<1>6. n \in (tokens' \ used') \ (tokens \ used)
    BY <1>5
<1>7. Sessions!New(n)
    BY <1>2 DEF Sessions!New, Sessions!Known, Succession, Apart, IInv, TypeOK
<1>8. n.exp \in t.exp .. now + Lifetime
  <2>1. t \in Token /\ n \in Token /\ now \in Nat
      BY <1>2, <1>3 DEF IInv, TypeOK
  <2>2. t.exp \in Nat /\ n.exp \in Nat
      BY <2>1 DEF Token
  <2>3. t.exp <= n.exp /\ n.exp <= now + Lifetime
      BY <1>2 DEF Succession, Exchanging, Dated
  <2> QED BY <2>1, <2>2, <2>3, LifetimeAssumption
<1>9. stored' = (stored \ {t}) \cup {n} /\ used' = used \cup {t}
    BY <1>1, <1>2
<1>10. answered' = answered \cup {n} \/ answered' = answered
    BY <1>1, <1>2
<1> HIDE DEF b
<1> QED BY <1>1, <1>2, <1>3, <1>4, <1>5, <1>6, <1>7, <1>8, <1>9, <1>10, <1>11
        DEF Sessions!Exchange, Sessions!MayTell, Begun

LEMMA LoginIsOpen == ASSUME IInv, Login PROVE Sessions!Open
<1>1. PICK t :
      /\ t = Encode(encoded + 1)
      /\ tokens' = tokens \cup {t} /\ stored' = stored \cup {t}
      /\ answered' = answered \cup {t} \/ answered' = answered
      /\ UNCHANGED <<now, used, began, old>>
    BY DEF Login, request
<1>2. t.jti = encoded + 1 /\ t.session = encoded + 1 /\ t.exp = now + Lifetime
    BY <1>1 DEF Encode
<1>3. \A x \in tokens : x.jti # t.jti /\ x.session # t.session
    BY <1>2 DEF IInv, TypeOK, Numbered, Token, Jtis
<1>4. Sessions!New(t) /\ \A k \in Sessions!Known : k.session # t.session
    BY <1>3 DEF Sessions!New, Sessions!Known, IInv, TypeOK
<1>5. t \notin tokens /\ t \notin used
    BY <1>3 DEF IInv, TypeOK
<1>6. tokens' \ used' = (tokens \ used) \cup {t} /\ t \in (tokens' \ used') \ (tokens \ used)
    BY <1>1, <1>5
<1> QED BY <1>1, <1>2, <1>4, <1>6 DEF Sessions!Open, Sessions!MayTell, Presented

LEMMA RefreshIsBegin ==
    ASSUME IInv, NEW r \in Requests, NEW t \in answered, Refresh(r, t)
    PROVE  Sessions!Begin
<1>1. /\ old[r] = {} /\ old' = [old EXCEPT ![r] = {t}] /\ began' = [began EXCEPT ![r] = now]
      /\ UNCHANGED <<now, tokens, stored, used, answered>>
    BY DEF Refresh, Goto, IInv, InHand
<1>2. /\ Presented(r) = {} /\ Presented(r)' = {[token |-> t, at |-> now]}
      /\ \A s \in Requests \ {r} : Presented(s)' = Presented(s)
    BY <1>1 DEF Presented, IInv, TypeOK
<1>3. Begun' = Begun \cup {[token |-> t, at |-> now]}
    BY <1>2 DEF Begun
<1> QED BY <1>1, <1>3 DEF Sessions!Begin, Sessions!tables, Begun

LEMMA DropIsEnd ==
    ASSUME IInv, NEW r \in Requests, DeleteNothing(r) \/ RollBack(r)
    PROVE  Sessions!End
<1>1. Leave(r) /\ UNCHANGED <<now, tokens, stored, used, answered, began>>
    BY DEF DeleteNothing, RollBack
<1>2. Begun' \subseteq Begun
    BY <1>1, LeaveEnds
<1> QED BY <1>1, <1>2 DEF Sessions!End, Sessions!tables, Begun

LEMMA StepsAreSteps ==
    IInv /\ Succession /\ InTime /\ [Next]_vars => [Sessions!Next]_(Sessions!sessionVars)
<1> SUFFICES ASSUME IInv, Succession, InTime, [Next]_vars
             PROVE  Sessions!Next \/ UNCHANGED Sessions!sessionVars
    OBVIOUS
<1>1. CASE Login
    BY <1>1, LoginIsOpen DEF Sessions!Next
<1>2. CASE Purge
    BY <1>2 DEF Purge, request, Presented, Sessions!Next, Sessions!Expire
<1>3. CASE Tick
    BY <1>3 DEF Tick, request, Presented, Sessions!Next, Sessions!Tick, Sessions!tables
<1>4. ASSUME NEW r \in Requests, Commit(r) PROVE Sessions!Next
    BY <1>4, CommitIsExchange DEF Sessions!Next
<1>5. ASSUME NEW r \in Requests, Delete(r) \/ Insert(r)
      PROVE  UNCHANGED Sessions!sessionVars
    BY <1>5 DEF Delete, Insert, Presented, Sessions!sessionVars, Sessions!tables
<1>6. CASE UNCHANGED vars
    BY <1>6 DEF vars, request, Presented, Sessions!sessionVars, Sessions!tables
<1>7. ASSUME NEW r \in Requests,
             (\E t \in answered : Refresh(r, t)) \/ DeleteNothing(r) \/ RollBack(r)
      PROVE  Sessions!Next
    BY <1>7, RefreshIsBegin, DropIsEnd DEF Sessions!Next
<1> QED BY <1>1, <1>2, <1>3, <1>4, <1>5, <1>6, <1>7 DEF Next, Handle

(* Whatever races, fails or is lost, the table goes through the steps of    *)
(* RefreshSessions: each exchange spends a session's head at once, one that *)
(* was presented in its time, and what was spent or purged is never live    *)
(* again.                                                                   *)
THEOREM TokensAreSessions == Spec => ImplementsSessions
<1>1. Init => Sessions!Init
    BY DEF Init, Presented, Sessions!Init
<1>2. Spec => []Succession
    BY AlwaysIInv, InitSuccession, NextSuccession, PTL DEF Spec
<1>3. Init => InTime
    BY DEF Init, InTime, Locked
<1>4. Spec => []InTime
    BY <1>3, AlwaysIInv, NextInTime, PTL DEF Spec
<1> QED BY <1>1, <1>2, <1>4, AlwaysIInv, StepsAreSteps, PTL DEF Spec, ImplementsSessions, Sessions!Spec

=============================================================================
