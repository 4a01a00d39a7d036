--------------------------- MODULE RedisAuthProofs ---------------------------
(***************************************************************************)
(* Theorems about RedisAuth, for any number of workers, users and tokens,  *)
(* any limits, and every combination of operations and faults that a       *)
(* theorem does not exclude.                                               *)
(***************************************************************************)
EXTENDS RedisAuth, TLAPS

-----------------------------------------------------------------------------
(* Typing.  Besides the kinds of the values, a request that needs its user  *)
(* or its digest has one.                                                   *)

Addressed ==
    \A w \in Workers :
        /\ req[w].pc # "idle" => req[w].digest \in Digests
        /\ req[w].pc \in LoginSteps \cup {"renew", "unlink"} => req[w].user \in Users
        /\ req[w].pc = "check" => req[w].prev \in Digests

TypeInv == TypeOK /\ Addressed

(* An answered or abandoned request leaves well-typed variables behind.     *)
LEMMA RefuseTyped ==
  ASSUME TypeInv, NEW w \in Workers, Refuse(w)
  PROVE  TypeInv'
BY ConstantsAssumption, Zenon
   DEF TypeInv, TypeOK, Addressed, Refuse, Leave, NoRequest, Request, Steps,
       LoginSteps

(* What Goto and its like leave of a request. *)
LEMMA MovesOn ==
  ASSUME TypeOK, NEW w \in Workers, NEW pc, Goto(w, pc)
  PROVE  /\ \A v \in Workers \ {w} : req'[v] = req[v]
         /\ req'[w].pc = pc /\ req'[w].op = req[w].op
         /\ req'[w].user = req[w].user /\ req'[w].digest = req[w].digest
         /\ req'[w].at = req[w].at /\ req'[w].prev = req[w].prev
BY DEF Goto, TypeOK, Request

LEMMA GotoTyped ==
  ASSUME TypeInv, NEW w \in Workers, req[w].pc # "idle",
         NEW pc \in {"previous", "commit"}, Goto(w, pc),
         pc = "previous" => req[w].pc \in LoginSteps
  PROVE  req' \in [Workers -> Request] /\ Addressed'
<1>1. req' \in [Workers -> Request]
  BY DEF Goto, TypeInv, TypeOK, Request, Steps, LoginSteps
<1>2. Addressed'
  BY MovesOn DEF TypeInv, Addressed, LoginSteps
<1> QED
  BY <1>1, <1>2

(* A request learns the owner of its session. *)
LEMMA OwnerTyped ==
  ASSUME TypeInv, NEW w \in Workers, req[w].pc # "idle",
         Complete(session[req[w].digest]), NEW pc \in {"renew", "unlink"},
         req' = [req EXCEPT ![w].user = session[req[w].digest].user, ![w].pc = pc]
  PROVE  /\ \A v \in Workers \ {w} : req'[v] = req[v]
         /\ req'[w].pc = pc /\ req'[w].op = req[w].op
         /\ req'[w].digest = req[w].digest
         /\ req'[w].user = session[req[w].digest].user
         /\ req' \in [Workers -> Request] /\ Addressed'
<1>1. PICK u \in Users : u = session[req[w].digest].user
  BY DEF TypeInv, TypeOK, Addressed, Complete, Hash
<1>2. req' = [req EXCEPT ![w].user = u, ![w].pc = pc]
  BY <1>1
<1>3. req \in [Workers -> Request] /\ req[w] \in Request
  BY DEF TypeInv, TypeOK
<1>4. [req[w] EXCEPT !.user = u, !.pc = pc] \in Request
  BY <1>3 DEF Request, Steps
<1>5. /\ \A v \in Workers \ {w} : req'[v] = req[v]
      /\ req'[w].pc = pc /\ req'[w].op = req[w].op /\ req'[w].user = u
      /\ req'[w].digest = req[w].digest
  BY <1>2, <1>3 DEF Request
<1>6. req' \in [Workers -> Request]
  BY <1>2, <1>3, <1>4
<1>7. Addressed'
  BY <1>5 DEF TypeInv, Addressed, LoginSteps
<1> QED
  BY <1>1, <1>5, <1>6, <1>7

LEMMA TypeStep == TypeInv /\ [Next]_vars => TypeInv'
<1> SUFFICES ASSUME TypeInv, [Next]_vars PROVE TypeInv'
  OBVIOUS
<1> USE ConstantsAssumption
         DEF TypeInv, TypeOK, Addressed, Request, Steps, LoginSteps
<1>1. ASSUME NEW w \in Workers, NEW u \in Users, NEW d \in Digests,
             StartLogin(w, u, d)
      PROVE  TypeInv'
  BY <1>1 DEF StartLogin
<1>2. ASSUME NEW w \in Workers, LockUser(w) PROVE TypeInv'
  BY <1>2 DEF LockUser
<1>3. ASSUME NEW w \in Workers, ReadIndex(w) PROVE TypeInv'
  <2> DEFINE p == IF index[req[w].user] = None THEN None
                  ELSE index[req[w].user].digest
             pc == IF index[req[w].user] = None THEN "previous" ELSE "check"
  <2>1. /\ p \in Digests \cup {None} /\ pc \in Steps
        /\ (pc = "check" /\ p \in Digests) \/ pc = "previous"
        /\ req[w].user \in Users
    BY <1>3 DEF ReadIndex, IndexEntry
  <2>2. req' = [req EXCEPT ![w].prev = p, ![w].pc = pc]
    BY <1>3 DEF ReadIndex
  <2> HIDE DEF p, pc
  <2>3. [req[w] EXCEPT !.prev = p, !.pc = pc] \in Request
    BY ONLY w \in Workers, req \in [Workers -> Request], <2>1 DEF Request
  <2>4. req' \in [Workers -> Request]
    BY ONLY w \in Workers, req \in [Workers -> Request], <2>2, <2>3
  <2>5. Addressed'
    <3>1. /\ \A v \in Workers \ {w} : req'[v] = req[v]
          /\ req'[w].pc = pc /\ req'[w].prev = p /\ req'[w].user = req[w].user
          /\ req'[w].digest = req[w].digest /\ req[w].pc = "by_user"
      BY ONLY w \in Workers, req \in [Workers -> Request], <1>3, <2>2
         DEF Request, ReadIndex
    <3> QED
      BY ONLY TypeInv, <2>1, <3>1 DEF TypeInv, Addressed, LoginSteps
  <2> QED
    BY <1>3, <2>4, <2>5 DEF ReadIndex
<1>4. ASSUME NEW w \in Workers, CheckOld(w) PROVE TypeInv'
  <2>1. CASE Refuse(w)
    BY <2>1, RefuseTyped
  <2>2. CASE /\ Goto(w, "previous")
             /\ UNCHANGED <<now, session, index, rowLock, tokens, revoked>>
    BY <1>4, <2>2, GotoTyped DEF CheckOld
  <2> QED
    BY <1>4, <2>1, <2>2 DEF CheckOld
<1>5. ASSUME NEW w \in Workers, ReadPrevious(w) PROVE TypeInv'
  <2>1. req[w].user \in Users
    BY <1>5 DEF ReadPrevious
  <2>2. index[req[w].user] # None => index[req[w].user].digest \in Digests
    BY <2>1 DEF IndexEntry
  <2> DEFINE p == IF index[req[w].user] = None THEN None
                  ELSE index[req[w].user].digest
  <2>3. p \in Digests \cup {None}
    BY <2>2
  <2>4. req' = [req EXCEPT ![w].pc = "store", ![w].prev = p]
    BY <1>5 DEF ReadPrevious
  <2> HIDE DEF p
  <2>5. req' \in [Workers -> Request]
    <3>1. [req[w] EXCEPT !.pc = "store", !.prev = p] \in Request
      <4>1. req[w] \in Request /\ "store" \in Steps
        OBVIOUS
      <4> QED
        BY <4>1, <2>3
    <3>2. req' = [req EXCEPT ![w] = [req[w] EXCEPT !.pc = "store", !.prev = p]]
      BY <2>4
    <3> QED
      BY <3>1, <3>2
  <2>6. Addressed'
    BY <1>5, <2>1, <2>4 DEF ReadPrevious
  <2> QED
    BY <1>5, <2>5, <2>6 DEF ReadPrevious
<1>6. ASSUME NEW w \in Workers, Store(w) PROVE TypeInv'
  BY <1>6 DEF Store, Goto, Hash, IndexEntry
<1>7. ASSUME NEW w \in Workers, NEW d \in Digests, Introspect(w, d)
      PROVE  TypeInv'
  BY <1>7 DEF Introspect, Present, Begin
<1>8. ASSUME NEW w \in Workers, NEW d \in Digests, Logout(w, d)
      PROVE  TypeInv'
  BY <1>8 DEF Logout, Present, Begin
<1>9. ASSUME NEW w \in Workers, Touch(w) PROVE TypeInv'
  <2>1. CASE Refuse(w)
    BY <2>1, RefuseTyped
  <2>2. CASE /\ Goto(w, "commit")
             /\ UNCHANGED <<now, session, index, rowLock, tokens, revoked>>
    BY <1>9, <2>2, GotoTyped DEF Touch, Reread
  <2>3. CASE /\ Complete(session[req[w].digest])
             /\ req' = [req EXCEPT ![w].user = session[req[w].digest].user,
                                  ![w].pc = "renew"]
             /\ UNCHANGED <<now, session, index, rowLock, tokens, revoked>>
    BY <1>9, <2>3, OwnerTyped DEF Touch, Reread
  <2> QED
    BY <1>9, <2>1, <2>2, <2>3 DEF Touch, Reread
<1>10. ASSUME NEW w \in Workers, Renew(w) PROVE TypeInv'
  <2> DEFINE d == req[w].digest
             u == req[w].user
  <2>1. d \in Digests /\ u \in Users /\ req[w].at \in Nat
    BY <1>10 DEF Renew
  <2>2. Renewed(session[d], req[w].at) \in Hash \cup {None}
    <3>1. CASE session[d] = None
      BY <2>1, <3>1 DEF Renewed, Hash
    <3>2. CASE session[d] # None
      <4>1. session[d] \in Hash
        BY <2>1, <3>2
      <4>2. now + Idle \in Nat
        OBVIOUS
      <4> QED
        BY <2>1, <3>2, <4>1, <4>2 DEF Renewed, Hash
    <3> QED
      BY <3>1, <3>2
  <2>3. index[u] # None => [index[u] EXCEPT !.deadline = now + Idle] \in IndexEntry
    BY <2>1 DEF IndexEntry
  <2>4. session' \in [Digests -> Hash \cup {None}]
    BY <1>10, <2>2 DEF Renew
  <2>5. index' \in [Users -> IndexEntry \cup {None}]
    BY <1>10, <2>3 DEF Renew
  <2>6. req' \in [Workers -> Request] /\ Addressed'
    BY <1>10 DEF Renew, Goto
  <2> QED
    BY <1>10, <2>4, <2>5, <2>6 DEF Renew
<1>11. ASSUME NEW w \in Workers, Remove(w) PROVE TypeInv'
  <2>1. CASE Refuse(w)
    BY <2>1, RefuseTyped
  <2>2. CASE /\ Goto(w, "commit")
             /\ UNCHANGED <<now, session, index, rowLock, tokens, revoked>>
    BY <1>11, <2>2, GotoTyped DEF Remove, Reread
  <2>3. CASE /\ Complete(session[req[w].digest])
             /\ req' = [req EXCEPT ![w].user = session[req[w].digest].user,
                                  ![w].pc = "unlink"]
             /\ UNCHANGED <<now, session, index, rowLock, tokens, revoked>>
    BY <1>11, <2>3, OwnerTyped DEF Remove, Reread
  <2> QED
    BY <1>11, <2>1, <2>2, <2>3 DEF Remove, Reread
<1>12. ASSUME NEW w \in Workers, Unlink(w) PROVE TypeInv'
  BY <1>12 DEF Unlink, Goto
<1>13. ASSUME NEW w \in Workers, Commit(w) PROVE TypeInv'
  BY <1>13 DEF Commit, Leave, NoRequest
<1>14. ASSUME NEW w \in Workers, Abort(w) PROVE TypeInv'
  BY <1>14, RefuseTyped DEF Abort
<1>15. CASE Tick
  BY <1>15 DEF Tick
<1>16. CASE Restart
  BY <1>16 DEF Restart
<1>17. CASE UNCHANGED vars
  BY <1>17 DEF vars
<1> QED
  BY <1>1, <1>2, <1>3, <1>4, <1>5, <1>6, <1>7, <1>8, <1>9, <1>10, <1>11,
     <1>12, <1>13, <1>14, <1>15, <1>16, <1>17 DEF Next, Continue

(* Every variable holds values of its kind, in every reachable state.       *)
THEOREM TypeCorrect == Spec => []TypeOK
<1>1. Init => TypeInv
  BY ConstantsAssumption
     DEF Init, TypeInv, TypeOK, Addressed, NoRequest, Request, Steps, LoginSteps
<1>2. TypeInv => TypeOK
  BY DEF TypeInv
<1> QED
  BY <1>1, <1>2, TypeStep, PTL DEF Spec

-----------------------------------------------------------------------------
(* Tokens.  A login in progress owns a pending digest that no other request *)
(* serves; introspect and logout are given issued ones.  A logout that has  *)
(* come to its commit leaves nothing that decodes.                          *)

Serving(w) ==
    /\ req[w].op \in Ops
    /\ req[w].pc \in LoginSteps => req[w].op = "login"
    /\ req[w].pc \in {"touch", "renew"} => req[w].op = "introspect"
    /\ req[w].pc \in {"remove", "unlink"} => req[w].op = "logout"
    /\ req[w].op = "login" => tokens[req[w].digest] = "pending"
    /\ req[w].op # "login" => tokens[req[w].digest] = "issued"
    /\ req[w].op = "logout" /\ req[w].pc = "commit" =>
          ~Complete(session[req[w].digest])

OwnDigests ==
    \A v, w \in Workers :
        (/\ v # w /\ req[v].pc # "idle" /\ req[w].pc # "idle"
         /\ req[v].op = "login")
        => req[v].digest # req[w].digest

TokensInv ==
    /\ \A w \in Workers : req[w].pc # "idle" => Serving(w)
    /\ OwnDigests
    /\ \A d \in revoked : tokens[d] = "issued" /\ ~Complete(session[d])

LEMMA RefuseTokens ==
  ASSUME TypeInv, TokensInv, NEW w \in Workers, req[w].pc # "idle", Refuse(w)
  PROVE  TokensInv'
BY ConstantsAssumption
   DEF TypeInv, TypeOK, Addressed, TokensInv, Serving, OwnDigests, Refuse,
       Leave, NoRequest, Complete, Request, LoginSteps

(* A step that only moves one request on needs a look at that request.      *)
LEMMA MoveOnTokens ==
  ASSUME TypeInv, TokensInv, NEW w \in Workers, req[w].pc # "idle",
         UNCHANGED <<tokens, revoked>>,
         \A d \in Digests : Complete(session'[d]) => Complete(session[d]),
         \A v \in Workers \ {w} : req'[v] = req[v],
         req'[w].op = req[w].op, req'[w].digest = req[w].digest,
         Serving(w)'
  PROVE  TokensInv'
<1>1. \A v \in Workers \ {w} : req'[v].pc # "idle" => Serving(v)'
  BY DEF TypeInv, Addressed, TokensInv, Serving
<1>2. OwnDigests'
  BY DEF TokensInv, OwnDigests
<1>3. \A d \in revoked' : tokens'[d] = "issued" /\ ~Complete(session'[d])
  BY DEF TypeInv, TypeOK, TokensInv
<1> QED
  BY <1>1, <1>2, <1>3 DEF TokensInv

LEMMA GotoTokens ==
  ASSUME TypeInv, TokensInv, NEW w \in Workers, NEW pc, Goto(w, pc),
         UNCHANGED <<tokens, revoked>>,
         \A d \in Digests : Complete(session'[d]) => Complete(session[d]),
         \/ pc = "previous" /\ req[w].pc = "check"
         \/ /\ pc = "commit" /\ req[w].pc # "idle"
            /\ req[w].op = "logout" => ~Complete(session'[req[w].digest])
  PROVE  TokensInv'
<1>1. Serving(w)
  BY DEF TokensInv
<1>2. Serving(w)'
  BY <1>1, MovesOn DEF TypeInv, Serving, LoginSteps
<1> QED
  BY <1>2, MovesOn, MoveOnTokens DEF TypeInv

(* The pipeline of replace: only the session of the pending token is new.   *)
LEMMA StoreTokens ==
  ASSUME TypeInv, TokensInv, NEW w \in Workers, Store(w)
  PROVE  TokensInv'
<1>1. /\ Goto(w, "commit") /\ UNCHANGED <<tokens, revoked>> /\ req[w].pc = "store"
      /\ \A d \in Digests \ {req[w].digest} :
            Complete(session'[d]) => Complete(session[d])
  BY DEF Store, Complete
<1>2. /\ \A v \in Workers \ {w} : req'[v] = req[v]
      /\ req'[w].pc = "commit" /\ req'[w].op = req[w].op
      /\ req'[w].digest = req[w].digest
  BY <1>1, MovesOn DEF TypeInv
<1>3. Serving(w) /\ req[w].op = "login" /\ tokens[req[w].digest] = "pending"
  BY <1>1 DEF TokensInv, Serving, LoginSteps
<1>4. Serving(w)'
  BY <1>1, <1>2, <1>3 DEF Serving, LoginSteps
<1>5. ASSUME NEW v \in Workers, v # w, req'[v].pc # "idle" PROVE Serving(v)'
  <2>1. Serving(v) /\ req'[v] = req[v] /\ req[v].digest \in Digests
    BY <1>2, <1>5 DEF TokensInv, TypeInv, Addressed
  <2>2. req[v].digest # req[w].digest
    BY <1>1, <1>3, <1>5, <2>1 DEF TokensInv, OwnDigests
  <2> QED
    BY <1>1, <2>1, <2>2 DEF Serving
<1>6. OwnDigests'
  BY <1>1, <1>2 DEF TokensInv, OwnDigests
<1>7. \A d \in revoked' : tokens'[d] = "issued" /\ ~Complete(session'[d])
  BY <1>1, <1>3 DEF TypeInv, TypeOK, TokensInv
<1> QED
  BY <1>4, <1>5, <1>6, <1>7 DEF TokensInv

LEMMA TokensStep == TypeInv /\ TypeInv' /\ TokensInv /\ [Next]_vars => TokensInv'
<1> SUFFICES ASSUME TypeInv, TypeInv', TokensInv, [Next]_vars PROVE TokensInv'
  OBVIOUS
<1> USE ConstantsAssumption
    DEF TypeInv, TypeOK, Addressed, TokensInv, Serving, OwnDigests, LoginSteps, Request
<1>1. ASSUME NEW w \in Workers, NEW u \in Users, NEW d \in Digests,
             StartLogin(w, u, d)
      PROVE  TokensInv'
  BY <1>1 DEF StartLogin, Complete
<1>2. ASSUME NEW w \in Workers, LockUser(w) PROVE TokensInv'
  <2>1. /\ req'[w].op = req[w].op /\ req'[w].digest = req[w].digest
        /\ req[w].pc = "lock" /\ req'[w].pc = "by_user"
        /\ \A v \in Workers \ {w} : req'[v] = req[v]
    BY ONLY TypeOK, w \in Workers, <1>2 DEF LockUser, TypeOK, Request
  <2>2. Serving(w) /\ UNCHANGED <<session, tokens, revoked>>
    BY <1>2, <2>1 DEF LockUser
  <2>3. Serving(w)'
    BY ONLY <2>1, <2>2 DEF Serving, Complete, LoginSteps
  <2> QED
    BY ONLY TypeInv, TokensInv, w \in Workers, <2>1, <2>2, <2>3, MoveOnTokens
<1>3. ASSUME NEW w \in Workers, ReadIndex(w) PROVE TokensInv'
  <2>1. /\ req'[w].op = req[w].op /\ req'[w].digest = req[w].digest
        /\ req[w].pc = "by_user" /\ req'[w].pc \in {"previous", "check"}
        /\ \A v \in Workers \ {w} : req'[v] = req[v]
    BY ONLY TypeOK, w \in Workers, <1>3 DEF ReadIndex, TypeOK, Request
  <2>2. Serving(w) /\ UNCHANGED <<session, tokens, revoked>>
    BY <1>3, <2>1 DEF ReadIndex
  <2>3. Serving(w)'
    BY ONLY <2>1, <2>2 DEF Serving, Complete, LoginSteps
  <2> QED
    BY ONLY TypeInv, TokensInv, w \in Workers, <2>1, <2>2, <2>3, MoveOnTokens
<1>4. ASSUME NEW w \in Workers, CheckOld(w) PROVE TokensInv'
  <2>1. CASE Refuse(w)
    BY <1>4, <2>1, RefuseTokens DEF CheckOld
  <2>2. CASE Goto(w, "previous") /\ UNCHANGED <<session, tokens, revoked>>
    BY ONLY TypeInv, TokensInv, w \in Workers, <1>4, <2>2, GotoTokens DEF CheckOld
  <2> QED
    BY <1>4, <2>1, <2>2 DEF CheckOld
<1>5. ASSUME NEW w \in Workers, ReadPrevious(w) PROVE TokensInv'
  <2>1. /\ req'[w].op = req[w].op /\ req'[w].digest = req[w].digest
        /\ req[w].pc = "previous" /\ req'[w].pc = "store"
        /\ \A v \in Workers \ {w} : req'[v] = req[v]
    BY ONLY TypeOK, w \in Workers, <1>5 DEF ReadPrevious, TypeOK, Request
  <2>2. Serving(w) /\ UNCHANGED <<session, tokens, revoked>>
    BY <1>5, <2>1 DEF ReadPrevious
  <2>3. Serving(w)'
    BY ONLY <2>1, <2>2 DEF Serving, Complete, LoginSteps
  <2> QED
    BY ONLY TypeInv, TokensInv, w \in Workers, <2>1, <2>2, <2>3, MoveOnTokens
<1>6. ASSUME NEW w \in Workers, Store(w) PROVE TokensInv'
  BY ONLY TypeInv, TokensInv, w \in Workers, <1>6, StoreTokens
<1>7. ASSUME NEW w \in Workers, NEW d \in Digests, Introspect(w, d)
      PROVE  TokensInv'
  BY <1>7 DEF Introspect, Present, Begin, Complete
<1>8. ASSUME NEW w \in Workers, NEW d \in Digests, Logout(w, d)
      PROVE  TokensInv'
  BY <1>8 DEF Logout, Present, Begin, Complete
<1>9. ASSUME NEW w \in Workers, Touch(w) PROVE TokensInv'
  <2>1. CASE Refuse(w)
    BY <1>9, <2>1, RefuseTokens DEF Touch, Reread
  <2>2. CASE /\ Goto(w, "commit") /\ session[req[w].digest] = None
             /\ UNCHANGED <<session, tokens, revoked>>
    BY ONLY TypeInv, TokensInv, w \in Workers, <1>9, <2>2, GotoTokens
       DEF Touch, Reread, Complete
  <2>3. CASE /\ req' = [req EXCEPT ![w].user = session[req[w].digest].user,
                                  ![w].pc = "renew"]
             /\ UNCHANGED <<session, tokens, revoked>>
    <3>1. /\ req'[w].op = req[w].op /\ req'[w].digest = req[w].digest
          /\ req[w].pc = "touch" /\ req'[w].pc = "renew"
          /\ \A v \in Workers \ {w} : req'[v] = req[v]
      BY ONLY TypeOK, w \in Workers, <1>9, <2>3
         DEF Touch, Reread, TypeOK, Request
    <3>2. Serving(w)
      BY <3>1
    <3>3. Serving(w)'
      BY ONLY <2>3, <3>1, <3>2 DEF Serving, Complete, LoginSteps
    <3> QED
      BY ONLY TypeInv, TokensInv, w \in Workers, <2>3, <3>1, <3>3, MoveOnTokens
  <2> QED
    BY <1>9, <2>1, <2>2, <2>3 DEF Touch, Reread
<1>10. ASSUME NEW w \in Workers, Renew(w) PROVE TokensInv'
  <2>1. \A d \in Digests : Complete(session'[d]) => Complete(session[d])
    <3>1. \A h \in Hash \cup {None}, t \in Nat :
             Complete(Renewed(h, t)) => Complete(h)
      BY ONLY None \notin Hash DEF Renewed, Complete, Hash
    <3>2. /\ session \in [Digests -> Hash \cup {None}] /\ req[w].at \in Nat
          /\ session' = [session EXCEPT ![req[w].digest] = Renewed(@, req[w].at)]
      BY <1>10 DEF Renew
    <3> QED
      BY ONLY <3>1, <3>2 DEF Complete
  <2>2. req[w].op # "logout" /\ Goto(w, "commit") /\ UNCHANGED <<tokens, revoked>>
    BY <1>10 DEF Renew
  <2> QED
    BY ONLY TypeInv, TokensInv, w \in Workers, <1>10, <2>1, <2>2, GotoTokens DEF Renew
<1>11. ASSUME NEW w \in Workers, Remove(w) PROVE TokensInv'
  <2>1. CASE Refuse(w)
    BY <1>11, <2>1, RefuseTokens DEF Remove, Reread
  <2>2. CASE /\ Goto(w, "commit") /\ session[req[w].digest] = None
             /\ UNCHANGED <<session, tokens, revoked>>
    BY ONLY TypeInv, TokensInv, w \in Workers, <1>11, <2>2, GotoTokens
       DEF Remove, Reread, Complete
  <2>3. CASE /\ req' = [req EXCEPT ![w].user = session[req[w].digest].user,
                                  ![w].pc = "unlink"]
             /\ UNCHANGED <<session, tokens, revoked>>
    <3>1. /\ req'[w].op = req[w].op /\ req'[w].digest = req[w].digest
          /\ req[w].pc = "remove" /\ req'[w].pc = "unlink"
          /\ \A v \in Workers \ {w} : req'[v] = req[v]
      BY ONLY TypeOK, w \in Workers, <1>11, <2>3
         DEF Remove, Reread, TypeOK, Request
    <3>2. Serving(w)
      BY <3>1
    <3>3. Serving(w)'
      BY ONLY <2>3, <3>1, <3>2 DEF Serving, Complete, LoginSteps
    <3> QED
      BY ONLY TypeInv, TokensInv, w \in Workers, <2>3, <3>1, <3>3, MoveOnTokens
  <2> QED
    BY <1>11, <2>1, <2>2, <2>3 DEF Remove, Reread
<1>12. ASSUME NEW w \in Workers, Unlink(w) PROVE TokensInv'
  BY <1>12 DEF Unlink, Goto, Complete
<1>13. ASSUME NEW w \in Workers, Commit(w) PROVE TokensInv'
  BY <1>13 DEF Commit, Leave, NoRequest, Complete
<1>14. ASSUME NEW w \in Workers, Abort(w) PROVE TokensInv'
  BY <1>14, RefuseTokens DEF Abort
<1>15. CASE Tick
  BY <1>15 DEF Tick, Complete
<1>16. CASE Restart
  BY <1>16 DEF Restart, Complete
<1>17. CASE UNCHANGED vars
  BY <1>17 DEF vars, Complete
<1> QED
  BY <1>1, <1>2, <1>3, <1>4, <1>5, <1>6, <1>7, <1>8, <1>9, <1>10, <1>11,
     <1>12, <1>13, <1>14, <1>15, <1>16, <1>17 DEF Next, Continue

LEMMA TokensReachable == Spec => [](TypeInv /\ TokensInv)
<1>1. Init => TypeInv /\ TokensInv
  BY ConstantsAssumption
     DEF Init, TypeInv, TypeOK, Addressed, NoRequest, Request, Steps,
         LoginSteps, TokensInv, OwnDigests
<1>2. TypeInv /\ TokensInv /\ [Next]_vars => (TypeInv /\ TokensInv)'
  BY TypeStep, TokensStep
<1> QED
  BY <1>1, <1>2, PTL DEF Spec

(* A session whose logout was answered 200 is never found again.            *)
THEOREM RevocationIsFinal == Spec => []RevokedStaysRevoked
<1>1. TypeInv /\ TokensInv => RevokedStaysRevoked
  BY DEF TokensInv, RevokedStaysRevoked
<1> QED
  BY <1>1, TokensReachable, PTL

(* Only Store makes a digest decode to a session, and the digest it stores  *)
(* is that of the token its own login generated.                            *)
LEMMA RevivalStep ==
  TypeInv /\ TokensInv /\ [Next]_vars =>
    [\A d \in Digests : NotRevived(d)]_vars
<1> SUFFICES ASSUME TypeInv, TokensInv, Next, NEW d \in Digests,
                    ~Complete(session[d]), Complete(session'[d])
             PROVE  tokens[d] = "pending"
  BY DEF NotRevived
<1>1. session' # session
  BY DEF Complete
<1>2. ASSUME NEW w \in Workers, Store(w) PROVE tokens[d] = "pending"
  BY <1>2 DEF Store, Complete, TypeInv, Addressed, TokensInv, Serving, LoginSteps
<1>3. ASSUME NEW w \in Workers, Renew(w) PROVE FALSE
  BY <1>3, ConstantsAssumption
     DEF Renew, Renewed, Complete, TypeInv, TypeOK, Addressed, Hash
<1>4. ASSUME NEW w \in Workers, Unlink(w) PROVE FALSE
  BY <1>4 DEF Unlink, Complete, TypeInv, TypeOK
<1>5. CASE Tick
  BY <1>5 DEF Tick, Complete
<1>6. CASE Restart
  BY <1>6 DEF Restart, Complete
<1> QED
  BY <1>1, <1>2, <1>3, <1>4, <1>5, <1>6
     DEF Next, Continue, StartLogin, LockUser, ReadIndex, CheckOld,
         ReadPrevious, Introspect, Logout, Begin, Touch, Remove, Reread,
         Commit, Abort, Refuse

(* Nothing but the login that generated a token creates its session.        *)
THEOREM SessionsBeginWithLogin == Spec => NoSessionIsRevived
BY TokensReachable, RevivalStep, PTL DEF Spec, NoSessionIsRevived

-----------------------------------------------------------------------------
(* The row lock.  A login past its first step holds the lock of its user,   *)
(* so no other login of that user moves the index under it.                 *)

LockHeld ==
    \A w \in Workers :
        req[w].pc \in LoginSteps \ {"lock"} => rowLock[req[w].user] = w

LockInv == LockHeld /\ PreviousStillCurrent

LEMMA RefuseLock ==
  ASSUME TypeInv, LockInv, NEW w \in Workers, Refuse(w)
  PROVE  LockInv'
BY ConstantsAssumption
   DEF TypeInv, TypeOK, Addressed, LockInv, LockHeld, PreviousStillCurrent,
       Refuse, Leave, NoRequest, LoginSteps

(* A step that changes neither lock nor index.                              *)
LEMMA MoveOnLock ==
  ASSUME LockInv, NEW w \in Workers, UNCHANGED <<index, rowLock>>,
         \A v \in Workers \ {w} : req'[v] = req[v],
         req'[w].pc \in LoginSteps \ {"lock"} => rowLock[req'[w].user] = w,
         req'[w].pc = "store" /\ index[req'[w].user] # None =>
            index[req'[w].user].digest = req'[w].prev
  PROVE  LockInv'
BY DEF LockInv, LockHeld, PreviousStillCurrent

LEMMA LockStep == TypeInv /\ LockInv /\ [Next]_vars => LockInv'
<1> SUFFICES ASSUME TypeInv, LockInv, [Next]_vars PROVE LockInv'
  OBVIOUS
<1> USE ConstantsAssumption
    DEF TypeInv, TypeOK, Addressed, LockInv, LockHeld, PreviousStillCurrent, LoginSteps
<1>1. ASSUME NEW w \in Workers, NEW u \in Users, NEW d \in Digests,
             StartLogin(w, u, d)
      PROVE  LockInv'
  BY <1>1 DEF StartLogin
<1>2. ASSUME NEW w \in Workers, LockUser(w) PROVE LockInv'
  BY <1>2 DEF LockUser
<1>3. ASSUME NEW w \in Workers, ReadIndex(w) PROVE LockInv'
  <2>1. /\ \A v \in Workers \ {w} : req'[v] = req[v]
        /\ req'[w].pc \in {"previous", "check"} /\ req[w].pc = "by_user"
        /\ req'[w].user = req[w].user /\ UNCHANGED <<index, rowLock>>
    BY ONLY TypeOK, w \in Workers, <1>3 DEF ReadIndex, TypeOK, Request
  <2>2. rowLock[req[w].user] = w
    BY <2>1
  <2> QED
    BY ONLY LockInv, w \in Workers, <2>1, <2>2, MoveOnLock
<1>4. ASSUME NEW w \in Workers, CheckOld(w) PROVE LockInv'
  <2>1. CASE Refuse(w)
    BY <2>1, RefuseLock
  <2>2. CASE Goto(w, "previous") /\ UNCHANGED <<index, rowLock>>
    BY <1>4, <2>2 DEF CheckOld, Goto
  <2> QED
    BY <1>4, <2>1, <2>2 DEF CheckOld
<1>5. ASSUME NEW w \in Workers, ReadPrevious(w) PROVE LockInv'
  BY <1>5 DEF ReadPrevious
<1>6. ASSUME NEW w \in Workers, Store(w) PROVE LockInv'
  BY <1>6 DEF Store, Goto
<1>7. ASSUME NEW w \in Workers, NEW d \in Digests, Introspect(w, d)
      PROVE  LockInv'
  BY <1>7 DEF Introspect, Present, Begin
<1>8. ASSUME NEW w \in Workers, NEW d \in Digests, Logout(w, d)
      PROVE  LockInv'
  BY <1>8 DEF Logout, Present, Begin
<1>9. ASSUME NEW w \in Workers, Touch(w) PROVE LockInv'
  <2>1. CASE Refuse(w)
    BY <2>1, RefuseLock
  <2>2. CASE Goto(w, "commit") /\ UNCHANGED <<index, rowLock>>
    BY <1>9, <2>2 DEF Touch, Reread, Goto
  <2>3. CASE /\ Complete(session[req[w].digest])
             /\ req' = [req EXCEPT ![w].user = session[req[w].digest].user,
                                  ![w].pc = "renew"]
             /\ UNCHANGED <<index, rowLock>>
    BY ONLY TypeInv, LockInv, w \in Workers, <1>9, <2>3, OwnerTyped, MoveOnLock
       DEF Touch, Reread, LoginSteps
  <2> QED
    BY <1>9, <2>1, <2>2, <2>3 DEF Touch, Reread
<1>10. ASSUME NEW w \in Workers, Renew(w) PROVE LockInv'
  BY <1>10 DEF Renew, Goto, IndexEntry
<1>11. ASSUME NEW w \in Workers, Remove(w) PROVE LockInv'
  <2>1. CASE Refuse(w)
    BY <2>1, RefuseLock
  <2>2. CASE Goto(w, "commit") /\ UNCHANGED <<index, rowLock>>
    BY <1>11, <2>2 DEF Remove, Reread, Goto
  <2>3. CASE /\ Complete(session[req[w].digest])
             /\ req' = [req EXCEPT ![w].user = session[req[w].digest].user,
                                  ![w].pc = "unlink"]
             /\ UNCHANGED <<index, rowLock>>
    BY ONLY TypeInv, LockInv, w \in Workers, <1>11, <2>3, OwnerTyped, MoveOnLock
       DEF Remove, Reread, LoginSteps
  <2> QED
    BY <1>11, <2>1, <2>2, <2>3 DEF Remove, Reread
<1>12. ASSUME NEW w \in Workers, Unlink(w) PROVE LockInv'
  BY <1>12 DEF Unlink, Goto
<1>13. ASSUME NEW w \in Workers, Commit(w) PROVE LockInv'
  BY <1>13 DEF Commit, Leave, NoRequest
<1>14. ASSUME NEW w \in Workers, Abort(w) PROVE LockInv'
  BY <1>14, RefuseLock DEF Abort
<1>15. CASE Tick
  BY <1>15 DEF Tick
<1>16. CASE Restart
  BY <1>16 DEF Restart
<1>17. CASE UNCHANGED vars
  BY <1>17 DEF vars
<1> QED
  BY <1>1, <1>2, <1>3, <1>4, <1>5, <1>6, <1>7, <1>8, <1>9, <1>10, <1>11,
     <1>12, <1>13, <1>14, <1>15, <1>16, <1>17 DEF Next, Continue

LEMMA LockReachable == Spec => [](TypeInv /\ LockInv)
<1>1. Init => TypeInv /\ LockInv
  BY ConstantsAssumption
     DEF Init, TypeInv, TypeOK, Addressed, NoRequest, Request, Steps,
         LoginSteps, LockInv, LockHeld, PreviousStillCurrent
<1>2. TypeInv /\ LockInv /\ [Next]_vars => (TypeInv /\ LockInv)'
  BY TypeStep, LockStep
<1> QED
  BY <1>1, <1>2, PTL DEF Spec

(* What replace() read is still what the index names when it writes.        *)
THEOREM PreviousIsCurrent == Spec => []PreviousStillCurrent
BY LockReachable, PTL DEF LockInv

-----------------------------------------------------------------------------
(* Expiry.                                                                  *)

LEMMA ExpireStep == TypeInv /\ KeysExpire /\ [Next]_vars => KeysExpire'
<1> SUFFICES ASSUME TypeInv, KeysExpire, [Next]_vars PROVE KeysExpire'
  OBVIOUS
<1> USE ConstantsAssumption
    DEF TypeInv, TypeOK, Addressed, KeysExpire, LoginSteps, Hash, IndexEntry
<1>1. CASE UNCHANGED <<now, session, index>>
  BY <1>1
<1>2. ASSUME NEW w \in Workers, Store(w) PROVE KeysExpire'
  BY <1>2 DEF Store
<1>3. ASSUME NEW w \in Workers, Renew(w) PROVE KeysExpire'
  BY <1>3 DEF Renew, Renewed
<1>4. ASSUME NEW w \in Workers, Unlink(w) PROVE KeysExpire'
  BY <1>4 DEF Unlink
<1>5. CASE Tick
  BY <1>5 DEF Tick
<1>6. CASE Restart
  BY <1>6 DEF Restart
<1> QED
  BY <1>1, <1>2, <1>3, <1>4, <1>5, <1>6
     DEF Next, Continue, StartLogin, LockUser, ReadIndex, CheckOld,
         ReadPrevious, Introspect, Logout, Begin, Touch, Remove, Reread,
         Commit, Abort, Refuse, vars

LEMMA ExpireReachable == Spec => [](TypeInv /\ KeysExpire)
<1>1. Init => TypeInv /\ KeysExpire
  BY ConstantsAssumption
     DEF Init, TypeInv, TypeOK, Addressed, NoRequest, Request, Steps,
         LoginSteps, KeysExpire
<1>2. TypeInv /\ KeysExpire /\ [Next]_vars => (TypeInv /\ KeysExpire)'
  BY TypeStep, ExpireStep
<1> QED
  BY <1>1, <1>2, PTL DEF Spec

(* Whatever is stored is gone after at most one idle window without         *)
(* requests, whichever requests and faults put it there.                    *)
THEOREM NothingAccumulates == Spec => []KeysExpire
BY ExpireReachable, PTL

-----------------------------------------------------------------------------
(* One active session.  A session that decodes is the one the index of its  *)
(* user names, and the index does not expire before it.  The one step that  *)
(* can break this is the pipeline of remove(), which deletes the index of   *)
(* the owner it has read before, whatever that index names by now.          *)

RemovesItsOwnIndex ==
    \A w \in Workers : Unlink(w) =>
        \/ index[req[w].user] = None
        \/ index[req[w].user].digest = req[w].digest

Indexed ==
    \A d \in Digests :
        Complete(session[d]) =>
            /\ index[session[d].user] # None
            /\ index[session[d].user].digest = d
            /\ session[d].deadline <= index[session[d].user].deadline

RenewsOwner ==
    \A w \in Workers :
        (req[w].pc = "renew" /\ Complete(session[req[w].digest])) =>
            session[req[w].digest].user = req[w].user

OneInv == Indexed /\ RenewsOwner

LEMMA OneStep ==
  ASSUME TypeInv, TokensInv, LockInv, KeysExpire, OneInv, [Next]_vars,
         [RemovesItsOwnIndex]_vars
  PROVE  OneInv'
<1> USE ConstantsAssumption DEF OneInv, Indexed, RenewsOwner, Complete
<1>1. ASSUME UNCHANGED <<session, index>>,
             \A v \in Workers :
                req'[v].pc = "renew" =>
                    \/ req[v].pc = "renew" /\ req'[v].digest = req[v].digest
                                          /\ req'[v].user = req[v].user
                    \/ session[req'[v].digest].user = req'[v].user
      PROVE  OneInv'
  BY <1>1
<1>2. ASSUME NEW w \in Workers, Store(w) PROVE OneInv'
  <2> DEFINE r == req[w]
  <2>1. r.digest \in Digests /\ r.user \in Users /\ now + Idle \in Nat
    BY <1>2 DEF Store, TypeInv, TypeOK, Addressed, LoginSteps
  <2>2. index[r.user] # None => index[r.user].digest = r.prev
    BY <1>2 DEF Store, LockInv, PreviousStillCurrent
  <2>3. index'[r.user] # None /\ index'[r.user].digest = r.digest
           /\ index'[r.user].deadline = now + Idle
    <3>1. [digest |-> r.digest, deadline |-> now + Idle] \in IndexEntry
      BY <2>1 DEF IndexEntry
    <3> QED
      BY <1>2, <2>1, <3>1 DEF Store, TypeInv, TypeOK
  <2>4. Indexed'
    <3> SUFFICES ASSUME NEW d \in Digests, Complete(session'[d])
                 PROVE  /\ index'[session'[d].user] # None
                        /\ index'[session'[d].user].digest = d
                        /\ session'[d].deadline <= index'[session'[d].user].deadline
      OBVIOUS
    <3>1. CASE d = r.digest
      <4>1. session'[d].user = r.user /\ session'[d].deadline = now + Idle
        BY <1>2, <2>1, <3>1 DEF Store
      <4> QED
        BY <2>1, <2>3, <3>1, <4>1
    <3>2. CASE d # r.digest
      <4>1. session'[d] = session[d] /\ d # r.prev
        BY <1>2, <3>2 DEF Store
      <4>2. session[d].user # r.user
        BY <2>2, <4>1
      <4>3. session[d].user \in Users
        BY <4>1 DEF TypeInv, TypeOK, Hash
      <4>4. index'[session[d].user] = index[session[d].user]
        BY <1>2, <4>2, <4>3 DEF Store, TypeInv, TypeOK
      <4> QED
        BY <4>1, <4>4
    <3> QED
      BY <3>1, <3>2
  <2>5. RenewsOwner'
    <3> SUFFICES ASSUME NEW v \in Workers, req'[v].pc = "renew",
                        Complete(session'[req'[v].digest])
                 PROVE  session'[req'[v].digest].user = req'[v].user
      OBVIOUS
    <3>0. req'[v].pc = "renew" /\ v \in Workers
      OBVIOUS
    <3>1. v # w /\ req'[v] = req[v]
      BY ONLY TypeInv, w \in Workers, <1>2, MovesOn, <3>0 DEF Store, TypeInv
    <3>2. req[v].digest # r.digest /\ req[v].digest \in Digests
      <4>1. req[v].pc = "renew" /\ req[w].pc = "store"
        BY <1>2, <3>0, <3>1 DEF Store
      <4> QED
        BY ONLY TypeInv, TokensInv, w \in Workers, <3>0, <3>1, <4>1
           DEF TokensInv, OwnDigests, Serving, LoginSteps, TypeInv, Addressed
    <3>3. session'[req[v].digest] = session[req[v].digest]
      BY <1>2, <3>1, <3>2 DEF Store
    <3> QED
      BY <3>1, <3>3
  <2> QED
    BY <2>4, <2>5
<1>3. ASSUME NEW w \in Workers, Renew(w) PROVE OneInv'
  <2> DEFINE g == req[w].digest
             u == req[w].user
  <2>1. /\ g \in Digests /\ u \in Users /\ now \in Nat /\ now + Idle \in Nat
        /\ req[w].pc = "renew"
    BY <1>3 DEF Renew, TypeInv, TypeOK, Addressed
  <2>2. \A d \in Digests : Complete(session'[d]) =>
           /\ Complete(session[d]) /\ session'[d].user = session[d].user
           /\ session[d].user \in Users
           /\ d # g => session'[d] = session[d]
           /\ d = g => session'[d].deadline = now + Idle
    BY <1>3, <2>1 DEF Renew, Renewed, TypeInv, TypeOK, Hash
  <2>3. \A x \in Users : index[x] # None =>
           /\ index'[x] # None /\ index'[x].digest = index[x].digest
           /\ x = u => index'[x].deadline = now + Idle
           /\ x # u => index'[x] = index[x]
    <3>1. \A e \in IndexEntry :
             /\ [e EXCEPT !.deadline = now + Idle] \in IndexEntry
             /\ [e EXCEPT !.deadline = now + Idle].digest = e.digest
             /\ [e EXCEPT !.deadline = now + Idle].deadline = now + Idle
      BY <2>1 DEF IndexEntry
    <3>2. index \in [Users -> IndexEntry \cup {None}]
      BY DEF TypeInv, TypeOK
    <3>3. index' = [index EXCEPT ![u] = IF @ = None THEN None
                                       ELSE [@ EXCEPT !.deadline = now + Idle]]
      BY <1>3 DEF Renew
    <3> QED
      BY <2>1, <3>1, <3>2, <3>3
  <2>4. \A d \in Digests : session[d] # None =>
            session[d].deadline \in Nat /\ session[d].deadline <= now + Idle
    BY DEF KeysExpire, TypeInv, TypeOK, Hash
  <2>5. Indexed'
    <3> SUFFICES ASSUME NEW d \in Digests, Complete(session'[d])
                 PROVE  /\ index'[session'[d].user] # None
                        /\ index'[session'[d].user].digest = d
                        /\ session'[d].deadline <= index'[session'[d].user].deadline
      OBVIOUS
    <3>1. CASE d = g
      <4>1. session[d].user = u
        BY <2>1, <2>2, <3>1
      <4> QED
        BY <2>1, <2>2, <2>3, <3>1, <4>1
    <3>2. CASE d # g
      <4> DEFINE x == session[d].user
      <4>1. /\ Complete(session[d]) /\ session'[d] = session[d] /\ x \in Users
            /\ index[x] # None /\ index[x].digest = d
            /\ session[d].deadline <= index[x].deadline
        BY <2>2, <3>2
      <4>2. session[d].deadline <= now + Idle
        BY <2>4, <4>1
      <4>3. CASE x = u
        BY <2>3, <4>1, <4>2, <4>3
      <4>4. CASE x # u
        BY <2>3, <4>1, <4>4
      <4> QED
        BY <4>3, <4>4
    <3> QED
      BY <3>1, <3>2
  <2>6. RenewsOwner'
    <3>1. \A v \in Workers : req'[v].pc = "renew" => req'[v] = req[v]
      BY <1>3, <2>1 DEF Renew, Goto, TypeInv, TypeOK, Request
    <3>2. \A v \in Workers : req[v].pc = "renew" => req[v].digest \in Digests
      BY DEF TypeInv, Addressed
    <3> QED
      BY <2>2, <3>1, <3>2
  <2> QED
    BY <2>5, <2>6
<1>4. ASSUME NEW w \in Workers, Unlink(w) PROVE OneInv'
  <2> DEFINE g == req[w].digest
             u == req[w].user
  <2>1. /\ g \in Digests /\ u \in Users
        /\ session' = [session EXCEPT ![g] = None]
        /\ index' = [index EXCEPT ![u] = None]
        /\ session \in [Digests -> Hash \cup {None}]
        /\ index \in [Users -> IndexEntry \cup {None}]
    BY <1>4 DEF Unlink, TypeInv, TypeOK, Addressed
  <2>2. \A v \in Workers : req'[v].pc = "renew" =>
           req'[v] = req[v] /\ req[v].digest \in Digests
    BY <1>4, MovesOn DEF Unlink, TypeInv, Addressed
  <2>3. index[u] # None => index[u].digest = g
    <3>1. req' # req
      BY <1>4, MovesOn DEF Unlink, TypeInv
    <3> QED
      BY <1>4, <3>1 DEF RemovesItsOwnIndex, vars
  <2>4. ASSUME NEW d \in Digests, Complete(session'[d])
        PROVE  /\ d # g /\ session'[d] = session[d]
               /\ session[d].user \in Users \ {u}
    BY <2>1, <2>3, <2>4 DEF Hash
  <2>5. Indexed'
    BY <2>1, <2>4
  <2>6. RenewsOwner'
    BY <2>2, <2>4
  <2> QED
    BY <2>5, <2>6
<1>5. CASE Tick
  <2>1. UNCHANGED req
    BY <1>5 DEF Tick
  <2>2. \A d \in Digests : Complete(session'[d]) =>
           session'[d] = session[d] /\ session[d].deadline > now + 1
    BY <1>5 DEF Tick
  <2>3. \A x \in Users : index[x] # None /\ index[x].deadline > now + 1 =>
           index'[x] = index[x]
    BY <1>5 DEF Tick
  <2>4. \A d \in Digests : Complete(session[d]) =>
           /\ session[d].user \in Users /\ session[d].deadline \in Nat
    BY DEF TypeInv, TypeOK, Hash
  <2>5. \A x \in Users : index[x] # None => index[x].deadline \in Nat
    BY DEF TypeInv, TypeOK, IndexEntry
  <2>6. now \in Nat /\ \A v \in Workers : req[v].pc = "renew" => req[v].digest \in Digests
    BY DEF TypeInv, TypeOK, Addressed
  <2> QED
    BY <2>1, <2>2, <2>3, <2>4, <2>5, <2>6
<1>6. CASE Restart
  BY <1>6 DEF Restart, TypeInv, TypeOK, Addressed
<1>7. ASSUME NEW w \in Workers, Touch(w) PROVE OneInv'
  <2>1. /\ UNCHANGED <<session, index>>
        /\ \A v \in Workers \ {w} : req'[v] = req[v]
        /\ req'[w].pc = "renew" => session[req'[w].digest].user = req'[w].user
    BY <1>7 DEF Touch, Reread, Goto, Refuse, Leave, NoRequest, TypeInv, TypeOK,
                Request
  <2> QED
    BY <1>1, <2>1
<1>8. ASSUME NEW w \in Workers, Refuse(w) PROVE OneInv'
  BY <1>1, <1>8 DEF Refuse, Leave, NoRequest, TypeInv, TypeOK
<1>9. CASE UNCHANGED vars
  BY <1>1, <1>9 DEF vars
<1>10. ASSUME NEW w \in Workers, NEW d \in Digests,
              Introspect(w, d) \/ Logout(w, d)
       PROVE  OneInv'
  BY <1>1, <1>10 DEF Introspect, Logout, Begin, TypeInv, TypeOK
<1>11. ASSUME NEW w \in Workers, NEW u \in Users, NEW d \in Digests,
              StartLogin(w, u, d)
       PROVE  OneInv'
  BY <1>1, <1>11 DEF StartLogin, TypeInv, TypeOK
<1>12. ASSUME NEW w \in Workers,
              LockUser(w) \/ ReadIndex(w) \/ ReadPrevious(w)
       PROVE  OneInv'
  <2>1. /\ UNCHANGED <<session, index>>
        /\ \A v \in Workers \ {w} : req'[v] = req[v]
        /\ req'[w].pc # "renew"
    BY <1>12 DEF LockUser, ReadIndex, ReadPrevious, TypeInv, TypeOK, Request
  <2> QED
    BY <1>1, <2>1
<1>13. ASSUME NEW w \in Workers, CheckOld(w) PROVE OneInv'
  <2>1. CASE Goto(w, "previous") /\ UNCHANGED <<session, index>>
    BY <1>1, <2>1 DEF Goto, TypeInv, TypeOK
  <2> QED
    BY <1>8, <1>13, <2>1 DEF CheckOld
<1>14. ASSUME NEW w \in Workers, Remove(w) PROVE OneInv'
  <2>1. /\ UNCHANGED <<session, index>>
        /\ \A v \in Workers \ {w} : req'[v] = req[v]
        /\ req'[w].pc # "renew"
    BY <1>14 DEF Remove, Reread, Goto, Refuse, Leave, NoRequest, TypeInv, TypeOK,
                Request
  <2> QED
    BY <1>1, <2>1
<1>15. ASSUME NEW w \in Workers, Commit(w) PROVE OneInv'
  BY <1>1, <1>15 DEF Commit, Leave, NoRequest, TypeInv, TypeOK
<1> QED
  BY <1>2, <1>3, <1>4, <1>5, <1>6, <1>7, <1>8, <1>9, <1>10, <1>11, <1>12,
     <1>13, <1>14, <1>15 DEF Next, Continue, Abort

LEMMA OneInit == Init => OneInv
BY DEF Init, OneInv, Indexed, RenewsOwner, NoRequest, Complete

LEMMA OneEnough == OneInv => OneActiveSession
BY DEF OneInv, Indexed, OneActiveSession

(* One active session per user, in every behaviour in which no logout       *)
(* deletes an index entry that names another session than its own: the      *)
(* second delete of remove() is all that stands in the way, and deleting    *)
(* the entry only while it still names the digest would be enough.          *)
THEOREM OneSessionUnlessMisplaced ==
  Spec /\ [][RemovesItsOwnIndex]_vars => []OneActiveSession
<1>1. TypeInv /\ TokensInv /\ LockInv /\ KeysExpire /\ OneInv /\ [Next]_vars
         /\ [RemovesItsOwnIndex]_vars
      => OneInv'
  BY OneStep
<1> QED
  BY <1>1, OneInit, OneEnough, TokensReachable, LockReachable, ExpireReachable, PTL
     DEF Spec

(* One active session per user, as long as nobody logs out: every fault and *)
(* every interleaving of logins and introspections preserves it.            *)
THEOREM OneSessionWithoutLogout ==
  ASSUME "logout" \notin Ops
  PROVE  Spec => []OneActiveSession
<1>1. TypeInv /\ TokensInv => RemovesItsOwnIndex
  BY DEF RemovesItsOwnIndex, Unlink, TokensInv, Serving
<1>2. TypeInv /\ TokensInv /\ LockInv /\ KeysExpire /\ OneInv /\ [Next]_vars => OneInv'
  BY <1>1, OneStep
<1> QED
  BY <1>2, OneInit, OneEnough, TokensReachable, LockReachable, ExpireReachable, PTL
     DEF Spec

-----------------------------------------------------------------------------
(* The other two findings, each down to the one step it depends on. *)

(* A touch writes while the key it has read is still there. *)
TouchesWhatIsThere ==
    \A w \in Workers : Renew(w) => session[req[w].digest] # None

LEMMA CompleteStep ==
  ASSUME TypeInv, TypeInv', SessionHashComplete, [Next]_vars, [TouchesWhatIsThere]_vars
  PROVE  SessionHashComplete'
<1> USE DEF SessionHashComplete, Partial
<1>0. session \in [Digests -> Hash \cup {None}]
  BY DEF TypeInv, TypeOK
<1>1. ASSUME \A d \in Digests : session'[d] \in {session[d], None}
      PROVE  SessionHashComplete'
  BY <1>1
<1>2. ASSUME NEW w \in Workers, Store(w) PROVE SessionHashComplete'
  <2>1. req[w].user # None
    BY <1>2, ConstantsAssumption DEF Store, TypeInv, Addressed, LoginSteps
  <2> QED
    BY <1>2, <2>1 DEF Store
<1>3. ASSUME NEW w \in Workers, Renew(w) PROVE SessionHashComplete'
  <2> DEFINE g == req[w].digest
  <2>1. g \in Digests /\ session' = [session EXCEPT ![g] = Renewed(@, req[w].at)]
    BY <1>3 DEF Renew, TypeInv, Addressed
  <2>2. session[g] # None
    <3>1. req' # req
      BY <1>3, MovesOn DEF Renew, TypeInv
    <3> QED
      BY <1>3, <3>1 DEF TouchesWhatIsThere, vars
  <2>3. session'[g].user = session[g].user
    BY <1>0, <2>1, <2>2 DEF Renewed, Hash
  <2>4. \A d \in Digests : d # g => session'[d] = session[d]
    BY <1>0, <2>1
  <2> QED
    BY <2>1, <2>2, <2>3, <2>4
<1>4. ASSUME NEW w \in Workers, Unlink(w) PROVE SessionHashComplete'
  BY <1>0, <1>1, <1>4 DEF Unlink
<1>5. CASE Tick \/ Restart
  BY <1>1, <1>5 DEF Tick, Restart
<1>6. ASSUME session' = session PROVE SessionHashComplete'
  BY <1>6
<1>7. ASSUME NEW w \in Workers,
             \/ LockUser(w) \/ ReadIndex(w) \/ CheckOld(w) \/ ReadPrevious(w)
             \/ Touch(w) \/ Remove(w) \/ Commit(w) \/ Abort(w)
      PROVE  session' = session
  BY <1>7 DEF LockUser, ReadIndex, CheckOld, ReadPrevious, Touch, Remove, Reread,
              Commit, Abort, Refuse
<1>8. ASSUME NEW w \in Workers, NEW d \in Digests,
             \/ Introspect(w, d) \/ Logout(w, d)
             \/ \E u \in Users : StartLogin(w, u, d)
      PROVE  session' = session
  BY <1>8 DEF Introspect, Logout, Begin, StartLogin
<1>9. CASE UNCHANGED vars
  BY <1>6, <1>9 DEF vars
<1> HIDE DEF SessionHashComplete
<1> QED
  BY <1>2, <1>3, <1>4, <1>5, <1>6, <1>7, <1>8, <1>9 DEF Next, Continue

(* Every hash has its owner, in every behaviour in which a touch writes to  *)
(* keys that exist only: HSET on a key that a logout, an eviction or the    *)
(* TTL has removed meanwhile is the only way to a hash without one.         *)
THEOREM HashesKeepTheirOwner ==
  Spec /\ [][TouchesWhatIsThere]_vars => []SessionHashComplete
<1>1. Init => SessionHashComplete
  BY DEF Init, SessionHashComplete, Partial
<1>2. TypeInv /\ TypeInv' /\ SessionHashComplete /\ [Next]_vars
         /\ [TouchesWhatIsThere]_vars
      => SessionHashComplete'
  BY CompleteStep
<1> QED
  BY <1>1, <1>2, TokensReachable, PTL DEF Spec

(* No login fails between the pipeline of replace() and its answer. *)
FailsBeforeStoring ==
    \A w \in Workers : Abort(w) => ~(req[w].op = "login" /\ req[w].pc = "commit")

(* A hash belongs to a token that was handed out, or is about to be. *)
Handed(d) ==
    \/ tokens[d] = "issued"
    \/ \E w \in Workers : /\ req[w].op = "login" /\ req[w].pc = "commit"
                          /\ req[w].digest = d
HandedInv == \A d \in Digests : session[d] # None => Handed(d)

(* Nothing is taken back from a token: what w had stored is answered, or w  *)
(* had not stored anything.                                                 *)
LEMMA HandedKept ==
  ASSUME NEW w \in Workers, NEW d \in Digests, Handed(d),
         \A v \in Workers \ {w} : req'[v] = req[v],
         tokens[d] = "issued" => tokens'[d] = "issued",
         (req[w].op = "login" /\ req[w].pc = "commit" /\ req[w].digest = d) =>
            tokens'[d] = "issued"
  PROVE  Handed(d)'
BY DEF Handed

LEMMA HandedStep ==
  ASSUME TypeInv, TokensInv, HandedInv, [Next]_vars, [FailsBeforeStoring]_vars
  PROVE  HandedInv'
<1>0. /\ TypeOK /\ tokens \in [Digests -> {"unused", "pending", "issued", "lost"}]
      /\ \A v \in Workers : req[v].pc # "idle" => Serving(v) /\ req[v].digest \in Digests
  BY DEF TypeInv, TypeOK, TokensInv, Addressed
<1>1. ASSUME UNCHANGED tokens, NEW w \in Workers, \A v \in Workers \ {w} : req'[v] = req[v],
             ~(req[w].op = "login" /\ req[w].pc = "commit"),
             \A d \in Digests : session'[d] # None => session[d] # None \/ Handed(d)'
      PROVE  HandedInv'
  BY <1>1, HandedKept DEF HandedInv
<1>2. ASSUME NEW w \in Workers, Store(w) PROVE HandedInv'
  <2>1. /\ \A v \in Workers \ {w} : req'[v] = req[v]
        /\ req'[w].pc = "commit" /\ req'[w].op = req[w].op
        /\ req'[w].digest = req[w].digest /\ req[w].pc = "store" /\ tokens' = tokens
    BY <1>0, <1>2, MovesOn DEF Store
  <2>2. \A d \in Digests : d = req[w].digest => Handed(d)'
    BY <1>0, <2>1 DEF Handed, Serving, LoginSteps
  <2>3. \A d \in Digests : session'[d] # None => session[d] # None \/ d = req[w].digest
    BY <1>2 DEF Store
  <2> QED
    BY <1>1, <2>1, <2>2, <2>3
<1>3. ASSUME NEW w \in Workers, Renew(w) PROVE HandedInv'
  <2>1. /\ \A v \in Workers \ {w} : req'[v] = req[v]
        /\ req[w].pc = "renew" /\ tokens' = tokens
    BY <1>0, <1>3, MovesOn DEF Renew
  <2>2. \A d \in Digests : d = req[w].digest => Handed(d)'
    BY <1>0, <2>1 DEF Handed, Serving
  <2>3. \A d \in Digests : session'[d] # None => session[d] # None \/ d = req[w].digest
    BY <1>0, <1>3 DEF Renew, TypeOK
  <2> QED
    BY <1>1, <2>1, <2>2, <2>3
<1>4. ASSUME NEW w \in Workers, Unlink(w) PROVE HandedInv'
  <2>1. /\ \A v \in Workers \ {w} : req'[v] = req[v]
        /\ req[w].pc = "unlink" /\ tokens' = tokens
    BY <1>0, <1>4, MovesOn DEF Unlink
  <2>2. \A d \in Digests : session'[d] # None => session[d] # None
    BY <1>0, <1>4 DEF Unlink, TypeOK
  <2> QED
    BY <1>1, <2>1, <2>2
<1>5. CASE Tick \/ Restart
  <2>1. /\ req' = req /\ tokens' = tokens
        /\ \A d \in Digests : session'[d] # None => session[d] # None
    BY <1>5 DEF Tick, Restart
  <2> QED
    BY <2>1 DEF HandedInv, Handed
<1>6. ASSUME NEW w \in Workers, req[w].pc # "idle",
             ~(req[w].op = "login" /\ req[w].pc = "commit"), Refuse(w)
      PROVE  HandedInv'
  <2>1. /\ \A v \in Workers \ {w} : req'[v] = req[v] /\ session' = session
        /\ \A d \in Digests : tokens[d] = "issued" => tokens'[d] = "issued"
    BY <1>0, <1>6 DEF Refuse, Leave, TypeOK
  <2>2. session' = session
    BY <1>6 DEF Refuse
  <2> QED
    BY <1>6, <2>1, <2>2, HandedKept DEF HandedInv
<1>7. ASSUME NEW w \in Workers, Commit(w) PROVE HandedInv'
  <2>1. /\ \A v \in Workers \ {w} : req'[v] = req[v]
        /\ session' = session
        /\ \A d \in Digests : tokens[d] = "issued" => tokens'[d] = "issued"
        /\ req[w].op = "login" => tokens'[req[w].digest] = "issued"
    BY <1>0, <1>7 DEF Commit, Leave, TypeOK
  <2> QED
    BY <2>1, HandedKept DEF HandedInv
<1>8. ASSUME NEW w \in Workers, NEW u \in Users, NEW d \in Digests, StartLogin(w, u, d)
      PROVE  HandedInv'
  <2>1. /\ \A v \in Workers \ {w} : req'[v] = req[v]
        /\ session' = session /\ req[w].pc = "idle"
        /\ \A e \in Digests : tokens[e] = "issued" => tokens'[e] = "issued"
    BY <1>0, <1>8 DEF StartLogin, TypeOK
  <2> QED
    BY <2>1, HandedKept DEF HandedInv
<1>9. ASSUME NEW w \in Workers, NEW d \in Digests, Introspect(w, d) \/ Logout(w, d)
      PROVE  HandedInv'
  <2>1. /\ \A v \in Workers \ {w} : req'[v] = req[v]
        /\ session' = session /\ req[w].pc = "idle" /\ tokens' = tokens
    BY <1>0, <1>9 DEF Introspect, Logout, Present, Begin, TypeOK
  <2> QED
    BY <1>1, <2>1
<1>10. ASSUME NEW w \in Workers, LockUser(w) \/ ReadIndex(w) \/ ReadPrevious(w)
       PROVE  HandedInv'
  <2>1. /\ \A v \in Workers \ {w} : req'[v] = req[v]
        /\ session' = session /\ req[w].pc # "commit" /\ tokens' = tokens
    BY <1>0, <1>10 DEF LockUser, ReadIndex, ReadPrevious, TypeOK
  <2> QED
    BY <1>1, <2>1
<1>11. ASSUME NEW w \in Workers, CheckOld(w) \/ Touch(w) \/ Remove(w), ~Refuse(w)
       PROVE  HandedInv'
  <2>1. /\ \A v \in Workers \ {w} : req'[v] = req[v]
        /\ session' = session /\ req[w].pc # "commit" /\ tokens' = tokens
    BY <1>0, <1>11 DEF CheckOld, Touch, Remove, Reread, Goto, TypeOK
  <2> QED
    BY <1>1, <2>1
<1>12. ASSUME NEW w \in Workers, CheckOld(w) \/ Touch(w) \/ Remove(w), Refuse(w)
       PROVE  HandedInv'
  BY <1>6, <1>12 DEF CheckOld, Touch, Remove, Reread
<1>13. ASSUME NEW w \in Workers, Abort(w) PROVE HandedInv'
  <2>1. req[w].pc # "idle" /\ Refuse(w)
    BY <1>13 DEF Abort
  <2>2. req' # req
    BY <1>0, <2>1 DEF Refuse, Leave, NoRequest, TypeOK
  <2> QED
    BY <1>6, <1>13, <2>1, <2>2 DEF FailsBeforeStoring, vars
<1>14. CASE UNCHANGED vars
  BY <1>14 DEF vars, HandedInv, Handed
<1> QED
  BY <1>2, <1>3, <1>4, <1>5, <1>7, <1>8, <1>9, <1>10, <1>11, <1>12, <1>13, <1>14
     DEF Next, Continue

(* A failed login leaves nothing in the session store, in every behaviour   *)
(* in which none fails after the pipeline of replace(): neither refusals,   *)
(* earlier failures, evictions nor restarts do any harm.                    *)
THEOREM OnlyLateFailuresLeaveSessions ==
  Spec /\ [][FailsBeforeStoring]_vars => []FailedLoginLeavesNoSession
<1>1. Init => HandedInv
  BY DEF Init, HandedInv
<1>2. TypeInv /\ TokensInv /\ HandedInv /\ [Next]_vars /\ [FailsBeforeStoring]_vars
      => HandedInv'
  BY HandedStep
<1>3. TypeInv /\ TokensInv /\ HandedInv => FailedLoginLeavesNoSession
  <2> SUFFICES ASSUME TypeInv, TokensInv, HandedInv, NEW d \in Digests,
                      tokens[d] = "lost", session[d] # None
               PROVE  FALSE
    BY DEF FailedLoginLeavesNoSession
  <2> QED
    BY DEF HandedInv, Handed, TokensInv, Serving
<1> QED
  BY <1>1, <1>2, <1>3, TokensReachable, PTL DEF Spec

-----------------------------------------------------------------------------
(* The life of a token.  A digest is fresh until its login has stored a     *)
(* session or has failed; what the index names, and what replace() is about *)
(* to end, belongs to the same user; and the clock an introspection has     *)
(* read lies within the absolute limit of the session it is about to touch. *)

Theirs(u, d) == d \notin fresh /\ (Complete(session[d]) => session[d].user = u)

LimitsSet ==
    \A d \in Digests : Complete(session[d]) => session[d].expires <= now + Absolute

ClocksRead ==
    \A w \in Workers :
        /\ req[w].pc \in LoginSteps \ {"lock"} => req[w].at <= now
        /\ req[w].pc \in {"touch", "renew"} =>
              LET h == session[req[w].digest] IN
              /\ req[w].at <= now
              /\ Complete(h) => req[w].at < h.expires /\ h.expires <= req[w].at + Absolute

NamesOwn ==
    /\ \A u \in Users : index[u] # None => Theirs(u, index[u].digest)
    /\ \A w \in Workers :
          (req[w].pc = "store" /\ req[w].prev # None) => Theirs(req[w].user, req[w].prev)

Unopened == \A d \in fresh : ~Complete(session[d])

LifeInv == LimitsSet /\ ClocksRead /\ NamesOwn /\ Unopened

AllInv == TypeInv /\ TokensInv /\ LifeInv

(* A step that leaves every login where it was, or starts one. *)
LEMMA FreshKept ==
  ASSUME UNCHANGED tokens, NEW w \in Workers,
         \A v \in Workers \ {w} : req'[v] = req[v],
         \/ req[w].pc \notin LoginSteps /\ req'[w].pc \notin LoginSteps
         \/ /\ req[w].pc \in LoginSteps /\ req'[w].pc \in LoginSteps
            /\ req'[w].op = req[w].op /\ req'[w].digest = req[w].digest
  PROVE  fresh' = fresh
BY DEF fresh

LEMMA FreshStarted ==
  ASSUME TypeInv, NEW w \in Workers, NEW u \in Users, NEW d \in Digests,
         StartLogin(w, u, d)
  PROVE  fresh' = fresh
<1>1. /\ tokens[d] = "unused" /\ req[w].pc = "idle"
      /\ tokens' = [tokens EXCEPT ![d] = "pending"] /\ tokens \in [Digests -> {"unused", "pending", "issued", "lost"}]
      /\ req'[w].op = "login" /\ req'[w].pc = "lock" /\ req'[w].digest = d
      /\ \A v \in Workers \ {w} : req'[v] = req[v]
  BY DEF StartLogin, TypeInv, TypeOK
<1>2. \A e \in Digests : e # d => tokens'[e] = tokens[e]
  BY <1>1
<1>3. d \in fresh /\ d \in fresh'
  BY <1>1 DEF fresh, LoginSteps
<1>4. ASSUME NEW e \in Digests, e # d PROVE e \in fresh <=> e \in fresh'
  BY <1>1, <1>2, <1>4 DEF fresh, LoginSteps
<1> QED
  BY <1>3, <1>4 DEF fresh

(* A login that stores its session, or fails, has used its digest up.       *)
LEMMA FreshSpent ==
  ASSUME TypeInv, TokensInv, NEW w \in Workers, req[w].pc # "idle",
         \A v \in Workers \ {w} : req'[v] = req[v], req'[w].pc \notin LoginSteps,
         \A e \in Digests : e # req[w].digest => tokens'[e] = tokens[e],
         tokens'[req[w].digest] # "unused"
  PROVE  /\ req[w].digest \notin fresh'
         /\ req[w].pc \in LoginSteps =>
               req[w].digest \in fresh /\ fresh' = fresh \ {req[w].digest}
         /\ req[w].pc \notin LoginSteps => fresh' = fresh
<1> DEFINE d == req[w].digest
<1>1. d \in Digests /\ Serving(w) /\ tokens[d] # "unused"
  BY DEF TypeInv, Addressed, TokensInv, Serving
<1>2. ASSUME NEW v \in Workers \ {w}, req[v].op = "login", req[v].pc \in LoginSteps
      PROVE  req[v].digest # d
  BY <1>2 DEF TokensInv, OwnDigests, LoginSteps
<1>3. d \notin fresh'
  BY <1>2 DEF fresh
<1>4. req[w].pc \in LoginSteps => d \in fresh
  BY <1>1 DEF fresh, Serving
<1>5. req[w].pc \notin LoginSteps => d \notin fresh
  BY <1>1, <1>2 DEF fresh
<1>6. ASSUME NEW e \in Digests, e # d PROVE e \in fresh <=> e \in fresh'
  BY <1>6 DEF fresh
<1>7. fresh \subseteq Digests /\ fresh' \subseteq Digests
  BY DEF fresh
<1> QED
  BY <1>3, <1>4, <1>5, <1>6, <1>7

LEMMA FreshRefused ==
  ASSUME TypeInv, TokensInv, NEW w \in Workers, req[w].pc # "idle", Refuse(w)
  PROVE  /\ \A v \in Workers \ {w} : req'[v] = req[v]
         /\ req'[w].pc = "idle" /\ UNCHANGED <<now, session, index>>
         /\ req[w].pc \in LoginSteps =>
               req[w].digest \in fresh /\ fresh' = fresh \ {req[w].digest}
         /\ req[w].pc \notin LoginSteps => fresh' = fresh
<1>1. /\ \A v \in Workers \ {w} : req'[v] = req[v]
      /\ req'[w].pc = "idle" /\ UNCHANGED <<now, session, index>>
  BY DEF Refuse, Leave, NoRequest, TypeInv, TypeOK
<1>2. /\ \A e \in Digests : e # req[w].digest => tokens'[e] = tokens[e]
      /\ tokens'[req[w].digest] # "unused"
  BY DEF Refuse, TypeInv, TypeOK, Addressed, TokensInv, Serving
<1>3. req'[w].pc \notin LoginSteps
  BY <1>1 DEF LoginSteps
<1> QED
  BY <1>1, <1>2, <1>3, FreshSpent

LEMMA FreshStored ==
  ASSUME TypeInv, TokensInv, NEW w \in Workers, Store(w)
  PROVE  req[w].digest \in fresh /\ fresh' = fresh \ {req[w].digest}
<1>1. /\ \A v \in Workers \ {w} : req'[v] = req[v]
      /\ req'[w].pc = "commit" /\ req[w].pc = "store" /\ tokens' = tokens
  BY MovesOn DEF Store, TypeInv
<1>2. tokens[req[w].digest] # "unused"
  BY <1>1 DEF TokensInv, Serving
<1>3. req[w].pc \in LoginSteps /\ req'[w].pc \notin LoginSteps
  BY <1>1 DEF LoginSteps
<1> QED
  BY <1>1, <1>2, <1>3, FreshSpent

LEMMA FreshCommitted ==
  ASSUME TypeInv, TokensInv, NEW w \in Workers, Commit(w)
  PROVE  fresh' = fresh
<1>1. /\ \A v \in Workers \ {w} : req'[v] = req[v]
      /\ req'[w].pc = "idle" /\ req[w].pc = "commit"
  BY DEF Commit, Leave, NoRequest, TypeInv, TypeOK
<1>2. /\ \A e \in Digests : e # req[w].digest => tokens'[e] = tokens[e]
      /\ tokens'[req[w].digest] # "unused"
  BY <1>1 DEF Commit, TypeInv, TypeOK, Addressed, TokensInv, Serving
<1>3. req[w].pc \notin LoginSteps /\ req'[w].pc \notin LoginSteps
  BY <1>1 DEF LoginSteps
<1> QED
  BY <1>1, <1>2, <1>3, FreshSpent

(* A step that stores no new session: what it has of the old ones and of    *)
(* the index was there before, and only requests in W move.                 *)
LEMMA LifeKept ==
  ASSUME TypeInv, TypeInv', LifeInv, NEW W \in SUBSET Workers,
         now <= now', fresh' \subseteq fresh,
         \A d \in Digests : Complete(session'[d]) =>
            /\ Complete(session[d]) /\ session'[d].user = session[d].user
            /\ session'[d].expires = session[d].expires,
         \A u \in Users : index'[u] # None =>
            index[u] # None /\ index'[u].digest = index[u].digest,
         \A v \in Workers \ W : req'[v] = req[v],
         \A w \in W :
            /\ req'[w].pc \in LoginSteps \ {"lock"} => req'[w].at <= now
            /\ req'[w].pc \in {"touch", "renew"} =>
                  LET h == session[req'[w].digest] IN
                  /\ req'[w].at <= now
                  /\ Complete(h) => req'[w].at < h.expires
                                    /\ h.expires <= req'[w].at + Absolute
            /\ (req'[w].pc = "store" /\ req'[w].prev # None) =>
                  Theirs(req'[w].user, req'[w].prev)
  PROVE  LifeInv'
<1>1. now \in Nat /\ now' \in Nat /\ Absolute \in Nat
  BY ConstantsAssumption DEF TypeInv, TypeOK
<1>2. ASSUME NEW u, NEW d \in Digests, Theirs(u, d) PROVE Theirs(u, d)'
  BY <1>2 DEF Theirs
<1>3. LimitsSet'
  <2>1. \A d \in Digests : Complete(session'[d]) => session'[d].expires \in Nat
    BY DEF Complete, TypeInv, TypeOK, Hash
  <2> QED
    BY <1>1, <2>1 DEF LifeInv, LimitsSet
<1>4. ClocksRead'
  <2>1. \A v \in Workers : req'[v].at \in Nat
    BY DEF TypeInv, TypeOK, Request
  <2>2. \A v \in Workers : req'[v].pc \in {"touch", "renew"} => req'[v].digest \in Digests
    BY DEF TypeInv, Addressed
  <2>3. ASSUME NEW v \in Workers, v \notin W PROVE ClocksRead!(v)'
    BY <1>1, <2>1, <2>2, <2>3 DEF LifeInv, ClocksRead
  <2>4. ASSUME NEW v \in W PROVE ClocksRead!(v)'
    BY <1>1, <2>1, <2>2, <2>4
  <2> QED
    BY <2>3, <2>4 DEF ClocksRead
<1>5. NamesOwn'
  <2>1. \A u \in Users : index[u] # None => index[u].digest \in Digests
    BY DEF TypeInv, TypeOK, IndexEntry
  <2>2. \A v \in Workers : req'[v].prev # None => req'[v].prev \in Digests
    BY DEF TypeInv, TypeOK, Request
  <2>3. ASSUME NEW u \in Users, index'[u] # None PROVE Theirs(u, index[u].digest)'
    <3>1. index[u] # None /\ index'[u].digest = index[u].digest
      BY <2>3
    <3>2. Theirs(u, index[u].digest)
      BY <3>1 DEF LifeInv, NamesOwn
    <3> QED
      BY <1>2, <2>1, <3>1, <3>2 DEF Theirs
  <2>4. ASSUME NEW v \in Workers, req'[v].pc = "store", req'[v].prev # None
        PROVE  Theirs(req[v].user, req[v].prev)'
    <3>1. Theirs(req'[v].user, req'[v].prev)
      BY <2>4 DEF LifeInv, NamesOwn
    <3> QED
      BY <2>2, <2>4, <3>1 DEF Theirs
  <2> QED
    BY <2>3, <2>4 DEF NamesOwn
<1>6. Unopened'
  BY DEF LifeInv, Unopened, fresh
<1> QED
  BY <1>3, <1>4, <1>5, <1>6 DEF LifeInv

LEMMA LifeStored ==
  ASSUME AllInv, TypeInv', NEW w \in Workers, Store(w)
  PROVE  LifeInv'
<1> DEFINE r == req[w]
<1>1. /\ r.digest \in Digests /\ r.user \in Users /\ r.at \in Nat /\ now \in Nat
      /\ Idle \in Nat /\ Absolute \in Nat /\ r.pc = "store" /\ r.at <= now
      /\ now' = now
  BY ConstantsAssumption
     DEF AllInv, TypeInv, TypeOK, Addressed, Request, LoginSteps, LifeInv, ClocksRead, Store
<1>2. /\ \A v \in Workers \ {w} : req'[v] = req[v]
      /\ req'[w].pc = "commit"
  BY MovesOn DEF Store, AllInv, TypeInv
<1>3. r.digest \in fresh /\ fresh' = fresh \ {r.digest}
  BY FreshStored DEF AllInv
<1>4. /\ session'[r.digest].user = r.user
      /\ session'[r.digest].expires = r.at + Absolute
      /\ \A d \in Digests : (d # r.digest /\ Complete(session'[d])) =>
            session'[d] = session[d] /\ Complete(session[d])
  BY <1>1 DEF Store, Complete
<1>5. /\ index'[r.user].digest = r.digest
      /\ \A u \in Users : u # r.user => index'[u] = index[u]
  BY <1>1 DEF Store, AllInv, TypeInv, TypeOK
<1>6. LimitsSet'
  BY <1>1, <1>4 DEF AllInv, LifeInv, LimitsSet
<1>7. ASSUME NEW v \in Workers, v # w, req[v].pc # "idle"
      PROVE  req[v].digest # r.digest /\ req[v].digest \in Digests
  <2>1. Serving(w) /\ r.op = "login"
    BY <1>1 DEF AllInv, TokensInv, Serving, LoginSteps
  <2> QED
    BY <1>1, <1>7, <2>1 DEF AllInv, TokensInv, OwnDigests, TypeInv, Addressed
<1>8. ClocksRead'
  BY <1>1, <1>2, <1>4, <1>7 DEF AllInv, LifeInv, ClocksRead, LoginSteps
<1>9. ASSUME NEW u, NEW d \in Digests, Theirs(u, d) PROVE Theirs(u, d)'
  BY <1>3, <1>4, <1>9 DEF Theirs
<1>10. ASSUME NEW u, NEW d, u = r.user, d = r.digest PROVE Theirs(u, d)'
  BY <1>3, <1>4, <1>10 DEF Theirs
<1>11. NamesOwn'
  <2>1. \A u \in Users : index[u] # None => index[u].digest \in Digests
    BY DEF AllInv, TypeInv, TypeOK, IndexEntry
  <2>2. \A v \in Workers : req[v].prev # None => req[v].prev \in Digests
    BY DEF AllInv, TypeInv, TypeOK, Request
  <2>3. ASSUME NEW u \in Users, index'[u] # None PROVE Theirs(u, index[u].digest)'
    <3>1. CASE u = r.user
      BY <1>5, <1>10, <3>1 DEF Theirs
    <3>2. CASE u # r.user
      <4>1. index'[u] = index[u] /\ Theirs(u, index[u].digest)
        BY <1>5, <2>3, <3>2 DEF AllInv, LifeInv, NamesOwn
      <4> QED
        BY <1>9, <2>1, <2>3, <4>1 DEF Theirs
    <3> QED
      BY <3>1, <3>2
  <2>4. ASSUME NEW v \in Workers, req'[v].pc = "store", req'[v].prev # None
        PROVE  Theirs(req[v].user, req[v].prev)'
    <3>1. v # w /\ req'[v] = req[v] /\ Theirs(req[v].user, req[v].prev)
      BY <1>2, <2>4 DEF AllInv, LifeInv, NamesOwn
    <3> QED
      BY <1>9, <2>2, <2>4, <3>1 DEF Theirs
  <2> QED
    BY <2>3, <2>4 DEF NamesOwn
<1>12. Unopened'
  BY <1>3, <1>4 DEF AllInv, LifeInv, Unopened, fresh
<1> QED
  BY <1>6, <1>8, <1>11, <1>12 DEF LifeInv

(* No other step of a request uses a digest up. *)
LEMMA FreshStep ==
  ASSUME TypeInv, TokensInv, NEW w \in Workers,
         \/ \E u \in Users, d \in Digests : StartLogin(w, u, d)
         \/ \E d \in Digests : Introspect(w, d) \/ Logout(w, d)
         \/ LockUser(w) \/ ReadIndex(w) \/ ReadPrevious(w)
         \/ Renew(w) \/ Unlink(w) \/ Commit(w)
         \/ (CheckOld(w) \/ Touch(w) \/ Remove(w)) /\ ~Refuse(w)
  PROVE  fresh' = fresh
<1>0. req \in [Workers -> Request] /\ req[w] \in Request /\ TypeOK
  BY DEF TypeInv, TypeOK
<1>1. CASE LockUser(w)
  <2>1. /\ tokens' = tokens /\ req[w].pc = "lock" /\ req'[w].pc = "by_user"
        /\ req'[w].op = req[w].op /\ req'[w].digest = req[w].digest
        /\ \A v \in Workers \ {w} : req'[v] = req[v]
    BY <1>0, <1>1 DEF LockUser, Request
  <2> QED
    BY <2>1, FreshKept DEF LoginSteps
<1>2. CASE ReadIndex(w)
  <2>1. /\ tokens' = tokens /\ req[w].pc = "by_user"
        /\ req'[w].pc \in {"check", "previous"}
        /\ req'[w].op = req[w].op /\ req'[w].digest = req[w].digest
        /\ \A v \in Workers \ {w} : req'[v] = req[v]
    BY <1>0, <1>2 DEF ReadIndex, Request
  <2> QED
    BY <2>1, FreshKept DEF LoginSteps
<1>3. CASE CheckOld(w) /\ ~Refuse(w)
  BY <1>0, <1>3, MovesOn, FreshKept DEF CheckOld, LoginSteps
<1>4. CASE ReadPrevious(w)
  <2> DEFINE p == IF index[req[w].user] = None THEN None ELSE index[req[w].user].digest
  <2>1. /\ req' = [req EXCEPT ![w].pc = "store", ![w].prev = p]
        /\ tokens' = tokens /\ req[w].pc = "previous"
    BY <1>4 DEF ReadPrevious
  <2> HIDE DEF p
  <2>2. /\ req'[w].pc = "store"
        /\ req'[w].op = req[w].op /\ req'[w].digest = req[w].digest
        /\ \A v \in Workers \ {w} : req'[v] = req[v]
    BY <1>0, <2>1 DEF Request
  <2> QED
    BY <2>1, <2>2, FreshKept DEF LoginSteps
<1>5. CASE \E d \in Digests : Introspect(w, d) \/ Logout(w, d)
  <2>1. /\ tokens' = tokens /\ req[w].pc = "idle" /\ req'[w].pc \in {"touch", "remove"}
        /\ \A v \in Workers \ {w} : req'[v] = req[v]
    BY <1>0, <1>5 DEF Introspect, Logout, Present, Begin
  <2> QED
    BY <2>1, FreshKept DEF LoginSteps
<1>6. CASE (Touch(w) \/ Remove(w)) /\ ~Refuse(w)
  <2>1. /\ tokens' = tokens /\ req[w].pc \in {"touch", "remove"}
        /\ req'[w].pc \in {"renew", "unlink", "commit"}
        /\ \A v \in Workers \ {w} : req'[v] = req[v]
    BY <1>0, <1>6 DEF Touch, Remove, Reread, Goto, Request
  <2> QED
    BY <2>1, FreshKept DEF LoginSteps
<1>7. CASE Renew(w) \/ Unlink(w)
  <2>1. /\ tokens' = tokens /\ req[w].pc \in {"renew", "unlink"}
        /\ req'[w].pc = "commit"
        /\ \A v \in Workers \ {w} : req'[v] = req[v]
    BY <1>0, <1>7, MovesOn DEF Renew, Unlink
  <2> QED
    BY <2>1, FreshKept DEF LoginSteps
<1> QED
  BY <1>1, <1>2, <1>3, <1>4, <1>5, <1>6, <1>7, FreshStarted, FreshCommitted

(* A step of one request that touches neither clock nor Redis. *)
LEMMA LifeMoved ==
  ASSUME AllInv, TypeInv', NEW w \in Workers, UNCHANGED <<now, session, index>>,
         fresh' \subseteq fresh, \A v \in Workers \ {w} : req'[v] = req[v],
         req'[w].pc \in LoginSteps \ {"lock"} => req'[w].at <= now,
         req'[w].pc \in {"touch", "renew"} =>
            LET h == session[req'[w].digest] IN
            /\ req'[w].at <= now
            /\ Complete(h) => req'[w].at < h.expires /\ h.expires <= req'[w].at + Absolute,
         (req'[w].pc = "store" /\ req'[w].prev # None) =>
            Theirs(req'[w].user, req'[w].prev)
  PROVE  LifeInv'
<1>1. now <= now' /\ {w} \in SUBSET Workers
  BY DEF AllInv, TypeInv, TypeOK
<1> QED
  BY <1>1, LifeKept DEF AllInv

LEMMA LifeStep ==
  ASSUME AllInv, TypeInv', [Next]_vars
  PROVE  LifeInv'
<1>0. /\ TypeInv /\ TypeOK /\ TokensInv /\ LifeInv /\ now \in Nat
      /\ req \in [Workers -> Request] /\ \A w \in Workers : req[w] \in Request
  BY DEF AllInv, TypeInv, TypeOK
<1>1. ASSUME NEW w \in Workers, NEW u \in Users, NEW d \in Digests, StartLogin(w, u, d)
      PROVE  LifeInv'
  <2>1. /\ UNCHANGED <<now, session, index>> /\ req'[w].pc = "lock"
        /\ \A v \in Workers \ {w} : req'[v] = req[v]
    BY <1>0, <1>1 DEF StartLogin
  <2> QED
    BY <1>0, <1>1, <2>1, FreshStarted, LifeMoved
<1>2. ASSUME NEW w \in Workers, LockUser(w) PROVE LifeInv'
  <2>1. /\ UNCHANGED <<now, session, index, tokens>> /\ req[w].pc = "lock"
        /\ req'[w].pc = "by_user" /\ req'[w].at = now
        /\ req'[w].op = req[w].op /\ req'[w].digest = req[w].digest
        /\ \A v \in Workers \ {w} : req'[v] = req[v]
    BY <1>0, <1>2 DEF LockUser, Request
  <2>2. fresh' = fresh
    BY <1>0, <1>2, FreshStep
  <2> QED
    BY <1>0, <2>1, <2>2, LifeMoved
<1>3. ASSUME NEW w \in Workers, ReadIndex(w) PROVE LifeInv'
  <2>1. /\ UNCHANGED <<now, session, index, tokens>> /\ req[w].pc = "by_user"
        /\ req'[w].pc \in {"check", "previous"} /\ req'[w].at = req[w].at
        /\ req'[w].op = req[w].op /\ req'[w].digest = req[w].digest
        /\ \A v \in Workers \ {w} : req'[v] = req[v]
    BY <1>0, <1>3 DEF ReadIndex, Request
  <2>2. fresh' = fresh
    BY <1>0, <1>3, FreshStep
  <2>3. req'[w].at <= now
    BY <1>0, <2>1 DEF LifeInv, ClocksRead, LoginSteps
  <2> QED
    BY <1>0, <2>1, <2>2, <2>3, LifeMoved
<1>4. ASSUME NEW w \in Workers, req[w].pc # "idle", Refuse(w) PROVE LifeInv'
  <2>1. fresh' \subseteq fresh
    BY <1>0, <1>4, FreshRefused
  <2> QED
    BY <1>0, <1>4, <2>1, FreshRefused, LifeMoved DEF LoginSteps
<1>5. ASSUME NEW w \in Workers, CheckOld(w), ~Refuse(w) PROVE LifeInv'
  <2>1. /\ Goto(w, "previous") /\ UNCHANGED <<now, session, index, tokens>>
        /\ req[w].pc = "check"
    BY <1>5 DEF CheckOld
  <2>2. fresh' = fresh
    BY <1>0, <1>5, FreshStep
  <2>3. req[w].at <= now
    BY <1>0, <2>1 DEF LifeInv, ClocksRead, LoginSteps
  <2> QED
    BY <1>0, <2>1, <2>2, <2>3, MovesOn, LifeMoved
<1>6. ASSUME NEW w \in Workers, ReadPrevious(w) PROVE LifeInv'
  <2> DEFINE u == req[w].user
             p == IF index[u] = None THEN None ELSE index[u].digest
  <2>1. /\ req' = [req EXCEPT ![w].pc = "store", ![w].prev = p]
        /\ UNCHANGED <<now, session, index, tokens>> /\ req[w].pc = "previous"
    BY <1>6 DEF ReadPrevious
  <2>2. p # None => Theirs(u, p)
    BY <1>0, <2>1 DEF LifeInv, NamesOwn, TypeInv, Addressed, LoginSteps
  <2> HIDE DEF p
  <2>3. /\ \A v \in Workers \ {w} : req'[v] = req[v]
        /\ req'[w].pc = "store" /\ req'[w].at = req[w].at /\ req'[w].prev = p
        /\ req'[w].op = req[w].op /\ req'[w].digest = req[w].digest
        /\ req'[w].user = u
    BY <1>0, <2>1 DEF Request
  <2>4. fresh' = fresh
    BY <1>0, <1>6, FreshStep
  <2>5. req'[w].at <= now
    BY <1>0, <2>1, <2>3 DEF LifeInv, ClocksRead, LoginSteps
  <2> QED
    BY <1>0, <2>1, <2>2, <2>3, <2>4, <2>5, LifeMoved
<1>7. ASSUME NEW w \in Workers, NEW d \in Digests, Introspect(w, d) PROVE LifeInv'
  <2>1. /\ UNCHANGED <<now, session, index, tokens>> /\ req[w].pc = "idle"
        /\ req'[w].pc = "touch" /\ req'[w].at = now /\ req'[w].digest = d
        /\ \A v \in Workers \ {w} : req'[v] = req[v]
    BY <1>0, <1>7 DEF Introspect, Present, Begin
  <2>2. fresh' = fresh
    BY <1>0, <1>7, FreshStep
  <2>3. session[d].expires \in Nat /\ now < session[d].expires
        /\ session[d].expires <= now + Absolute
    BY <1>0, <1>7 DEF Introspect, Complete, Expired, LifeInv, LimitsSet, TypeOK, Hash
  <2> QED
    BY <1>0, <2>1, <2>2, <2>3, LifeMoved DEF LoginSteps
<1>8. ASSUME NEW w \in Workers, NEW d \in Digests, Logout(w, d) PROVE LifeInv'
  <2>1. /\ UNCHANGED <<now, session, index, tokens>> /\ req[w].pc = "idle"
        /\ req'[w].pc = "remove"
        /\ \A v \in Workers \ {w} : req'[v] = req[v]
    BY <1>0, <1>8 DEF Logout, Present, Begin
  <2>2. fresh' = fresh
    BY <1>0, <1>8, FreshStep
  <2> QED
    BY <1>0, <2>1, <2>2, LifeMoved DEF LoginSteps
<1>9. ASSUME NEW w \in Workers, NEW pc \in {"touch", "remove"},
             NEW next \in {"renew", "unlink"}, pc = "touch" <=> next = "renew",
             Reread(w, pc, next), ~Refuse(w)
      PROVE  LifeInv'
  <2>1. /\ \A v \in Workers \ {w} : req'[v] = req[v]
        /\ req'[w].pc \in {next, "commit"} /\ req'[w].digest = req[w].digest
        /\ req'[w].at = req[w].at /\ req[w].pc = pc
        /\ UNCHANGED <<now, session, index, tokens>>
    BY <1>0, <1>9 DEF Reread, Goto, Request
  <2>2. fresh' = fresh
    BY <1>9, <2>1, FreshKept DEF LoginSteps
  <2>3. req'[w].pc = "renew" =>
           LET h == session[req'[w].digest] IN
           /\ req'[w].at <= now
           /\ Complete(h) => req'[w].at < h.expires /\ h.expires <= req'[w].at + Absolute
    BY <1>0, <1>9, <2>1 DEF LifeInv, ClocksRead
  <2> QED
    BY <1>0, <2>1, <2>2, <2>3, LifeMoved DEF LoginSteps
<1>10. ASSUME NEW w \in Workers, Renew(w) PROVE LifeInv'
  <2>1. /\ \A v \in Workers \ {w} : req'[v] = req[v]
        /\ req'[w].pc = "commit" /\ req[w].pc = "renew"
        /\ now' = now /\ tokens' = tokens
    BY <1>0, <1>10, MovesOn DEF Renew
  <2>2. fresh' = fresh
    BY <1>0, <1>10, FreshStep
  <2>3. \A d \in Digests : Complete(session'[d]) =>
           /\ Complete(session[d]) /\ session'[d].user = session[d].user
           /\ session'[d].expires = session[d].expires
    <3>1. session \in [Digests -> Hash \cup {None}] /\ req[w].at \in Nat
      BY <1>0 DEF TypeOK, Request
    <3> QED
      BY <1>10, <3>1, ConstantsAssumption DEF Renew, Renewed, Complete, Hash
  <2>4. \A u \in Users : index'[u] # None =>
           index[u] # None /\ index'[u].digest = index[u].digest
    BY <1>0, <1>10, ConstantsAssumption DEF Renew, TypeOK, IndexEntry
  <2>5. now <= now' /\ {w} \in SUBSET Workers /\ fresh' \subseteq fresh
    BY <1>0, <2>1, <2>2
  <2>6. \A v \in {w} : req'[v].pc = "commit"
    BY <2>1
  <2> QED
    BY <1>0, <2>1, <2>3, <2>4, <2>5, <2>6, LifeKept DEF LoginSteps
<1>11. ASSUME NEW w \in Workers, Unlink(w) PROVE LifeInv'
  <2>1. /\ \A v \in Workers \ {w} : req'[v] = req[v]
        /\ req'[w].pc = "commit" /\ req[w].pc = "unlink"
        /\ now' = now /\ tokens' = tokens
    BY <1>0, <1>11, MovesOn DEF Unlink
  <2>2. fresh' = fresh
    BY <1>0, <1>11, FreshStep
  <2>3. /\ \A d \in Digests : session'[d] \in {session[d], None}
        /\ \A u \in Users : index'[u] \in {index[u], None}
    BY <1>0, <1>11 DEF Unlink, TypeOK
  <2>4. now <= now' /\ {w} \in SUBSET Workers /\ fresh' \subseteq fresh
    BY <1>0, <2>1, <2>2
  <2>5. \A v \in {w} : req'[v].pc = "commit"
    BY <2>1
  <2> QED
    BY <1>0, <2>1, <2>3, <2>4, <2>5, LifeKept DEF LoginSteps, Complete
<1>12. ASSUME NEW w \in Workers, Commit(w) PROVE LifeInv'
  <2>1. /\ \A v \in Workers \ {w} : req'[v] = req[v]
        /\ req'[w].pc = "idle" /\ UNCHANGED <<now, session, index>>
    BY <1>0, <1>12 DEF Commit, Leave, NoRequest
  <2> QED
    BY <1>0, <1>12, <2>1, FreshCommitted, LifeMoved DEF LoginSteps
<1>13. ASSUME Tick \/ Restart PROVE LifeInv'
  <2>1. /\ req' = req /\ tokens' = tokens /\ now <= now'
        /\ \A d \in Digests : session'[d] \in {session[d], None}
        /\ \A u \in Users : index'[u] \in {index[u], None}
    BY <1>0, <1>13 DEF Tick, Restart
  <2>2. fresh' = fresh
    BY <2>1 DEF fresh
  <2>3. {} \in SUBSET Workers /\ fresh' \subseteq fresh
    BY <2>2
  <2> QED
    BY <1>0, <2>1, <2>3, LifeKept DEF Complete
<1>14. CASE UNCHANGED vars
  BY <1>0, <1>14 DEF vars, LifeInv, LimitsSet, ClocksRead, NamesOwn, Theirs, Unopened, fresh
<1>15. ASSUME NEW w \in Workers, CheckOld(w) \/ Touch(w) \/ Remove(w) \/ Abort(w)
       PROVE  req[w].pc # "idle"
  BY <1>15 DEF CheckOld, Touch, Remove, Reread, Abort
<1>16. ASSUME NEW w \in Workers, Store(w) PROVE LifeInv'
  BY <1>16, LifeStored
<1> HIDE DEF AllInv
<1> QED
  BY <1>1, <1>2, <1>3, <1>4, <1>5, <1>6, <1>7, <1>8, <1>9, <1>10, <1>11, <1>12,
     <1>13, <1>14, <1>15, <1>16 DEF Next, Continue, Touch, Remove, Abort

(* What the store holds decides what the abstract sessions are. *)
LEMMA SessionsSeen ==
  /\ session' = session => sessions' = sessions
  /\ \A d \in Digests : sessions[d] # None <=> Complete(session[d])
  /\ \A d \in Digests : sessions[d] # None => sessions[d] = session[d]
BY DEF sessions, Complete

(* The pipeline of replace opens the session of its token, and ends the one *)
(* whose digest was read before, if any.                                    *)
LEMMA StoreOpens ==
  ASSUME AllInv, NEW w \in Workers, Store(w)
  PROVE  Life!Next
<1> DEFINE r == req[w]
           p == IF r.prev = None THEN r.digest ELSE r.prev
           new == [user |-> r.user, seen |-> r.at, expires |-> r.at + Absolute,
                   deadline |-> now + Idle]
<1>1. /\ r.pc = "store" /\ r.digest \in Digests /\ r.user \in Users /\ r.at \in Nat
      /\ r.prev \in Digests \cup {None} /\ now \in Nat /\ r.at <= now
  BY DEF AllInv, TypeInv, TypeOK, Addressed, Request, LoginSteps, LifeInv, ClocksRead,
         Store
<1>2. r.digest \in fresh /\ fresh' = fresh \ {r.digest}
  BY FreshStored DEF AllInv
<1>3. /\ now' = now
      /\ session' = [d \in Digests |->
                       IF d = r.digest THEN new
                       ELSE IF d = r.prev THEN None ELSE session[d]]
  BY DEF Store
<1>4. p \in Digests /\ (p # r.digest => p = r.prev)
  BY <1>1
<1>5. sessions[p] # None => sessions[p].user = r.user
  <2>1. CASE r.prev = None
    BY <1>1, <1>2, <2>1, SessionsSeen DEF AllInv, LifeInv, Unopened
  <2>2. CASE r.prev # None
    BY <1>1, <2>2, SessionsSeen DEF AllInv, LifeInv, NamesOwn, Theirs
  <2> QED
    BY <2>1, <2>2
<1>6. sessions' = [sessions EXCEPT ![p] = None, ![r.digest] = new]
  <2>1. Complete(new)
    BY <1>1, ConstantsAssumption DEF Complete, Hash
  <2>2. ~Complete(None)
    BY DEF Complete
  <2>3. None \notin Digests
    BY ConstantsAssumption
  <2> HIDE DEF new
  <2>4. sessions' = [d \in Digests |->
                       IF d = r.digest THEN new
                       ELSE IF d = r.prev THEN None ELSE sessions[d]]
    BY <1>3, <2>1, <2>2 DEF sessions
  <2>5. sessions = [d \in Digests |-> sessions[d]]
    BY DEF sessions
  <2>6. p # r.digest => p = r.prev
    BY <1>4
  <2>7. p = r.digest => r.prev \notin Digests \/ r.prev = r.digest
    BY <1>1, <2>3
  <2>8. \A e \in Digests : e # p /\ e # r.digest => e # r.prev
    BY <1>1, <2>3
  <2> HIDE DEF p
  <2> QED
    BY <1>1, <1>4, <2>3, <2>4, <2>5, <2>6, <2>7, <2>8
<1>7. Life!Open(r.digest, r.user, r.at, p)
  BY <1>1, <1>2, <1>3, <1>5, <1>6 DEF Life!Open
<1> HIDE DEF p
<1> QED
  BY <1>1, <1>2, <1>4, <1>7 DEF Life!Next

(* A touch renews the session it finds, or leaves a hash without an owner.  *)
LEMMA RenewRenews ==
  ASSUME AllInv, NEW w \in Workers, Renew(w)
  PROVE  Life!Next \/ UNCHANGED <<now, sessions, fresh>>
<1> DEFINE r == req[w]
           h == session[r.digest]
<1>1. /\ r.pc = "renew" /\ r.digest \in Digests /\ r.at \in Nat /\ now \in Nat
      /\ now' = now /\ session' = [session EXCEPT ![r.digest] = Renewed(@, r.at)]
      /\ session \in [Digests -> Hash \cup {None}]
  BY DEF AllInv, TypeInv, TypeOK, Addressed, Request, Renew
<1>2. fresh' = fresh
  BY FreshStep DEF AllInv
<1>3. CASE Complete(h)
  <2> DEFINE new == [h EXCEPT !.seen = r.at, !.deadline = now + Idle]
  <2>1. /\ h \in Hash /\ h # None /\ h.user # None
        /\ session' = [session EXCEPT ![r.digest] = new]
    BY <1>1, <1>3 DEF Complete, Renewed
  <2>2. Complete(new)
    <3>1. new.user = h.user /\ new \in Hash
      <4>1. now + Idle \in Nat
        BY <1>1, ConstantsAssumption
      <4>2. h \in [user: Users \cup {None}, seen: Nat, expires: Nat, deadline: Nat]
        BY <2>1 DEF Hash
      <4> HIDE DEF h
      <4> QED
        BY <1>1, <4>1, <4>2 DEF Hash
    <3> QED
      BY <2>1, <3>1, ConstantsAssumption DEF Complete
  <2>3. sessions[r.digest] = h
    BY <1>1, <1>3 DEF sessions
  <2>4. /\ sessions[r.digest] # None /\ r.at <= now
        /\ r.at < sessions[r.digest].expires
        /\ sessions[r.digest].expires <= r.at + Absolute
    BY <1>1, <1>3, <2>1, <2>3 DEF AllInv, LifeInv, ClocksRead
  <2>5. sessions' = [sessions EXCEPT ![r.digest].seen = r.at,
                                     ![r.digest].deadline = now + Idle]
    <3>1. sessions' = [sessions EXCEPT ![r.digest] = new]
      <4> HIDE DEF new
      <4> QED
        BY <1>1, <2>1, <2>2 DEF sessions
    <3> QED
      BY <2>3, <3>1 DEF sessions
  <2>6. Life!Renew(r.digest, r.at)
    BY <1>1, <1>2, <2>4, <2>5 DEF Life!Renew
  <2>7. r.at \in 0..now
    BY <1>1, <2>4
  <2> QED
    BY <1>1, <2>6, <2>7 DEF Life!Next
<1>4. CASE ~Complete(h)
  <2>1. ~Complete(session'[r.digest])
    BY <1>1, <1>4 DEF Complete, Renewed, Hash
  <2>2. sessions' = sessions
    BY <1>1, <1>4, <2>1 DEF sessions
  <2> QED
    BY <1>1, <1>2, <2>2
<1> QED
  BY <1>3, <1>4

LEMMA UnlinkCloses ==
  ASSUME AllInv, NEW w \in Workers, Unlink(w)
  PROVE  Life!Next \/ UNCHANGED <<now, sessions, fresh>>
<1> DEFINE d == req[w].digest
<1>1. /\ d \in Digests /\ now' = now
      /\ session \in [Digests -> Hash \cup {None}]
      /\ session' = [session EXCEPT ![d] = None]
  BY DEF AllInv, TypeInv, TypeOK, Addressed, Unlink
<1>2. fresh' = fresh
  BY FreshStep DEF AllInv
<1>3. sessions' = [sessions EXCEPT ![d] = None]
  BY <1>1 DEF sessions, Complete
<1>4. CASE sessions[d] = None
  BY <1>1, <1>2, <1>3, <1>4 DEF sessions
<1>5. CASE sessions[d] # None
  BY <1>1, <1>2, <1>3, <1>5 DEF Life!Close, Life!Next
<1> QED
  BY <1>4, <1>5

(* A login that fails gives its digest up.                                  *)
LEMMA RefuseDiscards ==
  ASSUME AllInv, NEW w \in Workers, req[w].pc # "idle", Refuse(w)
  PROVE  Life!Next \/ UNCHANGED <<now, sessions, fresh>>
<1>1. /\ now' = now /\ sessions' = sessions
      /\ req[w].pc \in LoginSteps =>
            req[w].digest \in fresh /\ fresh' = fresh \ {req[w].digest}
      /\ req[w].pc \notin LoginSteps => fresh' = fresh
  BY FreshRefused, SessionsSeen DEF AllInv
<1>2. CASE req[w].pc \in LoginSteps
  BY <1>1, <1>2 DEF Life!Discard, Life!Next
<1> QED
  BY <1>1, <1>2

(* What passes without a request: time, and a restart of the store.         *)
LEMMA StoreAges ==
  ASSUME AllInv, Tick \/ Restart
  PROVE  Life!Next
<1>1. req' = req /\ tokens' = tokens
  BY DEF Tick, Restart
<1>2. fresh' = fresh
  BY <1>1 DEF fresh
<1>3. CASE Tick
  <2>1. sessions' = [d \in Digests |->
           IF sessions[d] # None /\ sessions[d].deadline > now + 1
             THEN sessions[d] ELSE None]
    BY <1>3 DEF Tick, sessions, Complete
  <2> QED
    BY <1>2, <1>3, <2>1 DEF Tick, Life!Tick, Life!Next
<1>4. CASE Restart
  <2>1. sessions' = [d \in Digests |-> None] /\ now' = now
    BY <1>4 DEF Restart, sessions, Complete
  <2> QED
    BY <1>2, <2>1 DEF Life!Lose, Life!Next
<1> QED
  BY <1>3, <1>4

(* Every step is a step of a token's life, or leaves every token alone.     *)
LEMMA TokenStep ==
  ASSUME AllInv, [Next]_vars
  PROVE  [Life!Next]_(Life!vars)
<1> DEFINE Unseen == UNCHANGED <<now, sessions, fresh>>
<1>0. TypeInv /\ TokensInv
  BY DEF AllInv
<1>1. ASSUME UNCHANGED <<now, session>>, fresh' = fresh PROVE Unseen
  BY <1>1, SessionsSeen
<1>2. ASSUME NEW w \in Workers, NEW u \in Users, NEW d \in Digests, StartLogin(w, u, d)
      PROVE  Unseen
  BY <1>0, <1>1, <1>2, FreshStarted DEF StartLogin
<1>3. ASSUME NEW w \in Workers, LockUser(w) PROVE Unseen
  BY <1>0, <1>1, <1>3, FreshStep DEF LockUser
<1>4. ASSUME NEW w \in Workers, ReadIndex(w) \/ ReadPrevious(w) PROVE Unseen
  BY <1>0, <1>1, <1>4, FreshStep DEF ReadIndex, ReadPrevious
<1>5. ASSUME NEW w \in Workers, CheckOld(w), ~Refuse(w) PROVE Unseen
  BY <1>0, <1>1, <1>5, FreshStep DEF CheckOld
<1>6. ASSUME NEW w \in Workers, Touch(w) \/ Remove(w), ~Refuse(w) PROVE Unseen
  BY <1>0, <1>1, <1>6, FreshStep DEF Touch, Remove, Reread
<1>7. ASSUME NEW w \in Workers, NEW d \in Digests, Introspect(w, d) \/ Logout(w, d)
      PROVE  Unseen
  BY <1>0, <1>1, <1>7, FreshStep DEF Introspect, Logout, Begin
<1>8. ASSUME NEW w \in Workers, Commit(w) PROVE Unseen
  BY <1>0, <1>1, <1>8, FreshCommitted DEF Commit
<1>9. ASSUME NEW w \in Workers, CheckOld(w) \/ Touch(w) \/ Remove(w) \/ Abort(w), Refuse(w)
      PROVE  Life!Next \/ Unseen
  <2>1. req[w].pc # "idle"
    BY <1>9 DEF CheckOld, Touch, Remove, Reread, Abort
  <2> QED
    BY <1>9, <2>1, RefuseDiscards
<1>10. ASSUME UNCHANGED vars PROVE Unseen
  <2>1. fresh' = fresh
    BY <1>10 DEF vars, fresh
  <2> QED
    BY <1>1, <1>10, <2>1 DEF vars
<1>11. ASSUME Next PROVE Life!Next \/ Unseen
  <2> HIDE DEF Unseen
  <2> QED
    BY <1>2, <1>3, <1>4, <1>5, <1>6, <1>7, <1>8, <1>9, <1>11, StoreOpens, RenewRenews,
       UnlinkCloses, StoreAges DEF Next, Continue, Abort, Unseen
<1>12. Unseen => UNCHANGED Life!vars
  BY DEF Life!vars
<1> HIDE DEF Unseen
<1>13. Next \/ UNCHANGED vars
  OBVIOUS
<1>14. Life!Next \/ UNCHANGED Life!vars
  BY <1>10, <1>11, <1>12, <1>13
<1> QED
  BY <1>14 DEF Life!vars

(* A token has one life, whatever interleaving, failure, expiry or restart  *)
(* its requests meet.                                                       *)
THEOREM TokensLiveOnce == Spec => ImplementsTokenLife
<1>1. Init => LifeInv
  <2> SUFFICES ASSUME Init PROVE LifeInv
    OBVIOUS
  <2>1. LimitsSet /\ Unopened
    BY DEF Init, LimitsSet, Unopened, Complete, fresh
  <2>2. ClocksRead
    BY DEF Init, ClocksRead, NoRequest, LoginSteps
  <2>3. NamesOwn
    BY DEF Init, NamesOwn, NoRequest
  <2> QED
    BY <2>1, <2>2, <2>3 DEF LifeInv
<1>2. TypeInv /\ TypeInv' /\ TokensInv /\ LifeInv /\ [Next]_vars => LifeInv'
  BY LifeStep DEF AllInv
<1>3. Init => Life!Init
  BY DEF Init, Life!Init, sessions, fresh, Complete
<1>4. TypeInv /\ TokensInv /\ LifeInv /\ [Next]_vars => [Life!Next]_(Life!vars)
  BY TokenStep DEF AllInv
<1> QED
  BY <1>1, <1>2, <1>3, <1>4, TokensReachable, PTL
     DEF Spec, ImplementsTokenLife, Life!Spec
=============================================================================
