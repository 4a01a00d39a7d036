------------------------- MODULE PostgresAuthProofs --------------------------
(***************************************************************************)
(* Theorems about PostgresAuth, for any number of workers, users,          *)
(* passwords and tokens, and any limits.                                   *)
(***************************************************************************)
EXTENDS PostgresAuth, TLAPS

-----------------------------------------------------------------------------
(* Typing.  Besides the kinds of the values, a request has filled in what   *)
(* its next step needs.                                                     *)

Filled(r) ==
    /\ r.op = "none" => r.pc = "idle"
    /\ r.op = "register" =>
          /\ r.pc \in {"insert", "commit"}
          /\ r.user \in Users /\ r.password \in Passwords /\ r.digest = None
    /\ r.op = "login" =>
          /\ r.pc \in {"lock", "by_user", "replace", "commit"}
          /\ r.user \in Users /\ r.digest \in Digests
    /\ r.op \in {"introspect", "logout"} =>
          /\ r.pc \in {"by_digest", "commit"}
          /\ r.digest \in Digests
          /\ r.pc = "commit" => r.user \in Users /\ r.row \in Session

TypeInv == TypeOK /\ \A w \in Workers : Filled(req[w])

(* What a step of one worker does to the requests. *)
LEMMA OneMoves ==
  ASSUME TypeInv, NEW w \in Workers, NEW r,
         req' = [req EXCEPT ![w] = r]
  PROVE  /\ req'[w] = r
         /\ \A v \in Workers \ {w} : req'[v] = req[v]
         /\ (r \in Request /\ Filled(r)) =>
               req' \in [Workers -> Request] /\ \A v \in Workers : Filled(req'[v])
<1>1. req \in [Workers -> Request] /\ \A v \in Workers : Filled(req[v])
  BY DEF TypeInv, TypeOK
<1>2. req'[w] = r /\ \A v \in Workers \ {w} : req'[v] = req[v]
  BY <1>1
<1>3. ASSUME r \in Request PROVE req' \in [Workers -> Request]
  BY <1>1, <1>3
<1>4. ASSUME Filled(r), NEW v \in Workers PROVE Filled(req'[v])
  BY <1>1, <1>2, <1>4, Zenon
<1> QED
  BY <1>2, <1>3, <1>4

LEMMA NoRequestFilled == NoRequest \in Request /\ Filled(NoRequest)
BY DEF NoRequest, Request, Steps, Filled

LEMMA FreeTyped ==
  ASSUME NEW lock \in [Users -> Workers \cup {None}], NEW w
  PROVE  Free(lock, w) \in [Users -> Workers \cup {None}]
BY DEF Free

(* The end of a transaction. *)
LEMMA LeaveTyped ==
  ASSUME TypeInv, NEW w \in Workers, Leave(w)
  PROVE  /\ req'[w] = NoRequest
         /\ \A v \in Workers \ {w} : req'[v] = req[v]
         /\ req' \in [Workers -> Request] /\ \A v \in Workers : Filled(req'[v])
         /\ inserting' \in [Users -> Workers \cup {None}]
         /\ userLock' \in [Users -> Workers \cup {None}]
         /\ rowLock' \in [Users -> Workers \cup {None}]
<1>1. req' = [req EXCEPT ![w] = NoRequest]
  BY DEF Leave
<1>2. /\ req'[w] = NoRequest
      /\ \A v \in Workers \ {w} : req'[v] = req[v]
      /\ req' \in [Workers -> Request] /\ \A v \in Workers : Filled(req'[v])
  BY <1>1, OneMoves, NoRequestFilled
<1>3. /\ inserting' \in [Users -> Workers \cup {None}]
      /\ userLock' \in [Users -> Workers \cup {None}]
      /\ rowLock' \in [Users -> Workers \cup {None}]
  BY FreeTyped DEF Leave, TypeInv, TypeOK
<1> QED
  BY <1>2, <1>3

LEMMA RefuseTyped ==
  ASSUME TypeInv, NEW w \in Workers, Refuse(w)
  PROVE  TypeInv'
<1>1. tokens' \in [Digests -> {"unused", "pending", "issued", "lost"}]
  BY DEF Refuse, TypeInv, TypeOK
<1> QED
  BY <1>1, LeaveTyped DEF Refuse, TypeInv, TypeOK

(* A request begins or goes on, and only its own record changes. *)
LEMMA RecordTyped ==
  ASSUME TypeInv, NEW w \in Workers, NEW r \in Request, Filled(r),
         req' = [req EXCEPT ![w] = r],
         UNCHANGED <<now, tables, registered, revoked>>,
         inserting' \in [Users -> Workers \cup {None}],
         userLock' \in [Users -> Workers \cup {None}],
         rowLock' \in [Users -> Workers \cup {None}],
         tokens' \in [Digests -> {"unused", "pending", "issued", "lost"}]
  PROVE  TypeInv'
<1>1. req' \in [Workers -> Request] /\ \A v \in Workers : Filled(req'[v])
  BY OneMoves
<1> QED
  BY <1>1 DEF TypeInv, TypeOK, tables

(* The records of the requests on their way. *)
LEMMA Records ==
  ASSUME TypeInv, NEW w \in Workers
  PROVE  /\ req[w] \in Request /\ Filled(req[w])
         /\ \A pc \in Steps : [req[w] EXCEPT !.pc = pc] \in Request
         /\ \A pc : req' = [req EXCEPT ![w].pc = pc] =>
               req' = [req EXCEPT ![w] = [req[w] EXCEPT !.pc = pc]]
<1>1. req[w] \in Request /\ Filled(req[w])
  BY DEF TypeInv, TypeOK
<1>2. \A pc \in Steps : [req[w] EXCEPT !.pc = pc] \in Request
  BY <1>1 DEF Request
<1> QED
  BY <1>1, <1>2

(* The same for a step that changes two fields. *)
LEMMA Updates ==
  ASSUME TypeInv, NEW w \in Workers
  PROVE  /\ LockUser(w) =>
               req' = [req EXCEPT ![w] = [req[w] EXCEPT !.at = now, !.pc = "by_user"]]
         /\ Replace(w) =>
               req' = [req EXCEPT ![w] =
                          [req[w] EXCEPT !.row = sessions[req[w].user], !.pc = "commit"]]
<1>1. req \in [Workers -> Request]
  BY DEF TypeInv, TypeOK
<1>2. ASSUME LockUser(w)
      PROVE  req' = [req EXCEPT ![w] = [req[w] EXCEPT !.at = now, !.pc = "by_user"]]
  BY ONLY <1>1, <1>2 DEF LockUser
<1>3. ASSUME Replace(w)
      PROVE  req' = [req EXCEPT ![w] =
                        [req[w] EXCEPT !.row = sessions[req[w].user], !.pc = "commit"]]
  BY ONLY <1>1, <1>3 DEF Replace
<1> QED
  BY <1>2, <1>3

LEMMA GotoTyped ==
  ASSUME TypeInv, NEW w \in Workers, NEW pc \in {"replace", "commit"}, Goto(w, pc),
         pc = "commit" => req[w].op = "register",
         pc = "replace" => req[w].op = "login",
         UNCHANGED <<now, tables, tokens, registered, revoked>>,
         inserting' \in [Users -> Workers \cup {None}],
         UNCHANGED <<userLock, rowLock>>
  PROVE  TypeInv'
<1> DEFINE r == [req[w] EXCEPT !.pc = pc]
<1>1. r \in Request /\ req' = [req EXCEPT ![w] = r]
  BY Records DEF Goto, Steps
<1>2. Filled(r)
  BY Records DEF Filled, Request
<1> QED
  BY <1>1, <1>2, RecordTyped DEF TypeInv, TypeOK

LEMMA TypeStep == TypeInv /\ [Next]_vars => TypeInv'
<1> SUFFICES ASSUME TypeInv, [Next]_vars PROVE TypeInv'
  OBVIOUS
<1>1. ASSUME NEW w \in Workers, NEW u \in Users, NEW p \in Passwords,
             Register(w, u, p)
      PROVE  TypeInv'
  <2> DEFINE r == [NoRequest EXCEPT !.op = "register", !.pc = "insert",
                                    !.user = u, !.password = p]
  <2>1. r \in Request /\ Filled(r)
    BY DEF NoRequest, Request, Steps, Filled
  <2> QED
    BY <1>1, <2>1, RecordTyped DEF Register, Begin, locks, TypeInv, TypeOK
<1>2. ASSUME NEW w \in Workers, NEW u \in Users, NEW p \in Passwords,
             NEW d \in Digests, Login(w, u, p, d)
      PROVE  TypeInv'
  <2> DEFINE r == [NoRequest EXCEPT !.op = "login", !.pc = "lock",
                                    !.user = u, !.digest = d]
  <2>1. r \in Request /\ Filled(r)
    BY DEF NoRequest, Request, Steps, Filled
  <2>2. tokens' \in [Digests -> {"unused", "pending", "issued", "lost"}]
    BY <1>2 DEF Login, TypeInv, TypeOK
  <2> QED
    BY <1>2, <2>1, <2>2, RecordTyped DEF Login, Begin, locks, TypeInv, TypeOK
<1>3. ASSUME NEW w \in Workers, NEW d \in Digests, NEW op \in {"introspect", "logout"},
             Present(w, op, d)
      PROVE  TypeInv'
  <2> DEFINE r == [NoRequest EXCEPT !.op = op, !.pc = "by_digest", !.digest = d]
  <2>1. r \in Request /\ Filled(r)
    BY DEF NoRequest, Request, Steps, Filled
  <2> QED
    BY <1>3, <2>1, RecordTyped DEF Present, Begin, locks, TypeInv, TypeOK
<1>4. ASSUME NEW w \in Workers, InsertUser(w) PROVE TypeInv'
  <2>1. req[w].op = "register"
    BY <1>4, Records DEF InsertUser, Filled, Request
  <2>2. CASE Refuse(w)
    BY <2>2, RefuseTyped
  <2>3. CASE ~Refuse(w)
    <3>1. /\ inserting' = [inserting EXCEPT ![req[w].user] = w]
          /\ Goto(w, "commit")
          /\ UNCHANGED <<now, userLock, rowLock, tables, tokens, registered, revoked>>
      BY <1>4, <2>3, Zenon DEF InsertUser
    <3>2. inserting' \in [Users -> Workers \cup {None}]
      BY <3>1 DEF TypeInv, TypeOK
    <3> QED
      BY <2>1, <3>1, <3>2, GotoTyped
  <2> QED
    BY <2>2, <2>3
<1>5. ASSUME NEW w \in Workers, CommitUser(w) PROVE TypeInv'
  <2>1. req[w].user \in Users /\ req[w].password \in Passwords
    BY <1>5, Records DEF CommitUser, Filled
  <2>2. users' \in [Users -> Passwords \cup {None}]
    BY <1>5, <2>1 DEF CommitUser, TypeInv, TypeOK
  <2>3. registered' \in [Users -> Seq(Passwords)]
    BY <1>5, <2>1 DEF CommitUser, TypeInv, TypeOK
  <2>4. Leave(w) /\ UNCHANGED <<now, sessions, tokens, revoked>>
    BY <1>5 DEF CommitUser
  <2> QED
    BY <2>2, <2>3, <2>4, LeaveTyped DEF TypeInv, TypeOK
<1>6. ASSUME NEW w \in Workers, LockUser(w) PROVE TypeInv'
  <2> DEFINE r == [req[w] EXCEPT !.at = now, !.pc = "by_user"]
  <2>1. req[w].op = "login"
    BY <1>6, Records DEF LockUser, Filled, Request
  <2>2. r \in Request /\ Filled(r)
    <3>1. now \in Nat /\ req[w] \in Request /\ Filled(req[w])
      BY Records DEF TypeInv, TypeOK
    <3>2. r \in Request
      BY ONLY <3>1 DEF Request, Steps
    <3> QED
      BY ONLY <2>1, <3>1, <3>2 DEF Request, Filled
  <2>3. req' = [req EXCEPT ![w] = r]
    BY <1>6, Updates
  <2>4. userLock' \in [Users -> Workers \cup {None}]
    BY <1>6 DEF LockUser, TypeInv, TypeOK
  <2> QED
    BY <1>6, <2>2, <2>3, <2>4, RecordTyped DEF LockUser, TypeInv, TypeOK
<1>7. ASSUME NEW w \in Workers, ReadOld(w) PROVE TypeInv'
  <2>1. req[w].op = "login"
    BY <1>7, Records DEF ReadOld, Filled, Request
  <2>2. CASE Refuse(w)
    BY <2>2, RefuseTyped
  <2>3. CASE ~Refuse(w)
    BY <1>7, <2>1, <2>3, GotoTyped DEF ReadOld, locks, TypeInv, TypeOK
  <2> QED
    BY <2>2, <2>3
<1>8. ASSUME NEW w \in Workers, Replace(w) PROVE TypeInv'
  <2> DEFINE r == [req[w] EXCEPT !.row = sessions[req[w].user], !.pc = "commit"]
  <2>1. req[w].op = "login" /\ req[w].user \in Users
    BY <1>8, Records DEF Replace, Filled, Request
  <2>2. sessions[req[w].user] \in Session \cup {None}
    BY <2>1 DEF TypeInv, TypeOK
  <2>3. r \in Request /\ Filled(r)
    <3>1. req[w] \in Request /\ Filled(req[w])
      BY Records
    <3>2. r \in Request
      BY ONLY <2>2, <3>1 DEF Request, Steps
    <3> QED
      BY ONLY <2>1, <3>1, <3>2 DEF Request, Filled
  <2>4. req' = [req EXCEPT ![w] = r]
    BY <1>8, Updates
  <2>5. rowLock' \in [Users -> Workers \cup {None}]
    BY <1>8 DEF Replace, TypeInv, TypeOK
  <2> QED
    BY <1>8, <2>3, <2>4, <2>5, RecordTyped DEF Replace, TypeInv, TypeOK
<1>9. ASSUME NEW w \in Workers, CommitLogin(w) PROVE TypeInv'
  <2>1. req[w].user \in Users /\ req[w].digest \in Digests /\ req[w].at \in Nat
    BY <1>9, Records DEF CommitLogin, Filled, Request
  <2>2. [digest |-> req[w].digest, seen |-> req[w].at,
         expires |-> req[w].at + Absolute] \in Session
    BY <2>1, ConstantsAssumption DEF Session
  <2>3. sessions' \in [Users -> Session \cup {None}]
    BY <1>9, <2>2 DEF CommitLogin, TypeInv, TypeOK
  <2>4. tokens' \in [Digests -> {"unused", "pending", "issued", "lost"}]
    BY <1>9 DEF CommitLogin, TypeInv, TypeOK
  <2> QED
    BY <1>9, <2>3, <2>4, LeaveTyped DEF CommitLogin, TypeInv, TypeOK
<1>10. ASSUME NEW w \in Workers, NEW u \in Users, FindSession(w, u) PROVE TypeInv'
  <2>1. CASE Refuse(w)
    BY <2>1, RefuseTyped
  <2>2. CASE ~Refuse(w)
    <3> DEFINE r == [req[w] EXCEPT !.user = u, !.row = sessions[u],
                                   !.at = now, !.pc = "commit"]
    <3>1. req[w].op \in {"introspect", "logout"} /\ req[w].digest \in Digests
      BY <1>10, Records DEF FindSession, Filled, Request
    <3>2. sessions[u] \in Session /\ now \in Nat
      BY <1>10 DEF FindSession, Holds, TypeInv, TypeOK
    <3>3. r \in Request /\ Filled(r)
      <4>1. req[w] \in Request
        BY Records
      <4>2. r \in Request
        BY ONLY <3>2, <4>1, u \in Users DEF Request, Steps
      <4> QED
        BY ONLY <3>1, <3>2, <4>1, <4>2, u \in Users DEF Request, Filled
    <3>4. req' = [req EXCEPT ![w] = r]
      BY <1>10, <2>2 DEF FindSession, TypeInv, TypeOK
    <3>5. rowLock' \in [Users -> Workers \cup {None}]
      <4>1. rowLock' = [rowLock EXCEPT ![u] = w]
        BY <1>10, <2>2 DEF FindSession
      <4> QED
        BY <4>1 DEF TypeInv, TypeOK
    <3>6. UNCHANGED <<now, inserting, userLock, tables, tokens, registered, revoked>>
      BY <1>10, <2>2 DEF FindSession
    <3> HIDE DEF r
    <3> QED
      BY <3>3, <3>4, <3>5, <3>6, RecordTyped DEF TypeInv, TypeOK
  <2> QED
    BY <2>1, <2>2
<1>11. ASSUME NEW w \in Workers, CommitTouch(w) PROVE TypeInv'
  <2>1. req[w].at \in Nat
    BY <1>11, Records DEF Request
  <2>2. \A u \in Users : sessions[u] # None => [sessions[u] EXCEPT !.seen = req[w].at] \in Session
    BY <2>1 DEF TypeInv, TypeOK, Session
  <2>3. sessions' \in [Users -> Session \cup {None}]
    BY <1>11, <2>2 DEF CommitTouch, Holds, TypeInv, TypeOK
  <2> QED
    BY <1>11, <2>3, LeaveTyped DEF CommitTouch, TypeInv, TypeOK
<1>12. ASSUME NEW w \in Workers, CommitRemove(w) PROVE TypeInv'
  <2>1. sessions' \in [Users -> Session \cup {None}]
    BY <1>12 DEF CommitRemove, TypeInv, TypeOK
  <2>2. revoked' \subseteq Digests
    BY <1>12, Records DEF CommitRemove, Filled, TypeInv, TypeOK
  <2> QED
    BY <1>12, <2>1, <2>2, LeaveTyped DEF CommitRemove, TypeInv, TypeOK
<1>13. ASSUME NEW w \in Workers, NoSession(w) \/ Abort(w) PROVE TypeInv'
  BY <1>13, RefuseTyped DEF NoSession, Abort
<1>14. CASE Tick \/ UNCHANGED vars
  BY <1>14 DEF Tick, vars, locks, tables, TypeInv, TypeOK
<1> QED
  BY <1>1, <1>2, <1>3, <1>4, <1>5, <1>6, <1>7, <1>8, <1>9, <1>10, <1>11, <1>12,
     <1>13, <1>14 DEF Next, Continue, Find, Introspect, Logout

LEMMA TypeInit == Init => TypeInv
BY ConstantsAssumption, NoRequestFilled DEF Init, TypeInv, TypeOK

LEMMA TypeAlways == Spec => []TypeInv
BY TypeInit, TypeStep, PTL DEF Spec

(* Every variable of the model always holds values of its kind.             *)
THEOREM TypeCorrect == Spec => []TypeOK
<1>1. TypeInv => TypeOK
  BY DEF TypeInv
<1> QED
  BY <1>1, TypeAlways, PTL

-----------------------------------------------------------------------------
(* Registrations.  An insert that waits for its commit has the index entry  *)
(* and is the only one, so the email is still free when it commits.         *)

RegisterInv ==
    /\ OneRegistrationWins
    /\ \A w \in Workers :
          (req[w].op = "register" /\ req[w].pc = "commit") =>
              inserting[req[w].user] = w /\ users[req[w].user] = None

LEMMA RegisterStep ==
  ASSUME TypeInv, RegisterInv, [Next]_vars
  PROVE  RegisterInv'
<1> USE DEF RegisterInv, OneRegistrationWins
(* Whoever leaves gives back only what it holds. *)
<1>1. ASSUME NEW w \in Workers, Leave(w), UNCHANGED <<users, registered>>
      PROVE  RegisterInv'
  <2>1. /\ req'[w] = NoRequest /\ \A v \in Workers \ {w} : req'[v] = req[v]
        /\ \A u \in Users : inserting'[u] = IF inserting[u] = w THEN None ELSE inserting[u]
    BY <1>1, LeaveTyped DEF Leave, Free
  <2>2. \A v \in Workers : req[v].op = "register" => req[v].user \in Users
    BY Records DEF Filled
  <2> QED
    BY <1>1, <2>1, <2>2 DEF NoRequest
(* A step that neither inserts nor commits a user. *)
<1>2. ASSUME NEW w \in Workers, NEW r, req' = [req EXCEPT ![w] = r],
             r.op # "register" \/ r.pc # "commit",
             UNCHANGED <<users, registered, inserting>>
      PROVE  RegisterInv'
  <2>1. req'[w] = r /\ \A v \in Workers \ {w} : req'[v] = req[v]
    BY <1>2, OneMoves
  <2> QED
    BY <1>2, <2>1
<1>3. ASSUME NEW w \in Workers, InsertUser(w) PROVE RegisterInv'
  <2>1. CASE Refuse(w)
    BY <1>1, <2>1 DEF Refuse
  <2>2. CASE ~Refuse(w)
    <3> DEFINE u == req[w].user
    <3>1. /\ inserting' = [inserting EXCEPT ![u] = w]
          /\ users[u] = None /\ inserting[u] = None
          /\ req[w].pc = "insert"
          /\ Goto(w, "commit")
          /\ UNCHANGED <<tables, registered>>
      BY <1>3, <2>2, Zenon DEF InsertUser
    <3>2. u \in Users
      BY <3>1, Records DEF Filled, Request
    <3>3. /\ req'[w].op = req[w].op /\ req'[w].user = u
          /\ \A v \in Workers \ {w} : req'[v] = req[v]
      BY <3>1 DEF Goto, TypeInv, TypeOK, Request
    <3>4. inserting'[u] = w /\ \A x \in Users \ {u} : inserting'[x] = inserting[x]
      BY <3>1, <3>2 DEF TypeInv, TypeOK
    <3>5. \A v \in Workers : req[v].op = "register" => req[v].user \in Users
      BY Records DEF Filled
    <3>6. \A v \in Workers : v # None
      BY ConstantsAssumption
    <3> HIDE DEF u
    <3> QED
      BY <3>1, <3>2, <3>3, <3>4, <3>5, <3>6 DEF tables
  <2> QED
    BY <2>1, <2>2
<1>4. ASSUME NEW w \in Workers, CommitUser(w) PROVE RegisterInv'
  <2> DEFINE u == req[w].user
             p == req[w].password
  <2>1. u \in Users /\ p \in Passwords /\ users[u] = None /\ inserting[u] = w
    BY <1>4, Records DEF CommitUser, Filled
  <2>2. /\ users' = [users EXCEPT ![u] = p]
        /\ registered' = [registered EXCEPT ![u] = Append(registered[u], p)]
        /\ Leave(w)
    BY <1>4 DEF CommitUser
  <2> HIDE DEF u, p
  <2>3. p # None
    BY <2>1, ConstantsAssumption
  <2>4. /\ users'[u] = p /\ registered'[u] = <<p>>
        /\ \A x \in Users \ {u} : users'[x] = users[x] /\ registered'[x] = registered[x]
    <3>1. users \in [Users -> Passwords \cup {None}] /\ registered \in [Users -> Seq(Passwords)]
      BY DEF TypeInv, TypeOK
    <3>2. registered[u] = <<>>
      BY <2>1 DEF RegisterInv, OneRegistrationWins
    <3>3. Append(<<>>, p) = <<p>>
      OBVIOUS
    <3>4. /\ users'[u] = p
          /\ \A x \in Users \ {u} : users'[x] = users[x]
      BY <2>1, <2>2, <3>1
    <3>5. /\ registered'[u] = Append(registered[u], p)
          /\ \A x \in Users \ {u} : registered'[x] = registered[x]
      BY <2>1, <2>2, <3>1
    <3> QED
      BY <3>2, <3>3, <3>4, <3>5
  <2>5. /\ req'[w] = NoRequest /\ \A v \in Workers \ {w} : req'[v] = req[v]
        /\ \A x \in Users : inserting'[x] = IF inserting[x] = w THEN None ELSE inserting[x]
    BY <2>2, LeaveTyped DEF Leave, Free
  <2>6. \A v \in Workers : req[v].op = "register" => req[v].user \in Users
    BY Records DEF Filled
  <2> QED
    BY <2>1, <2>3, <2>4, <2>5, <2>6 DEF NoRequest
<1>5. ASSUME NEW w \in Workers, CommitLogin(w) \/ CommitTouch(w) \/ CommitRemove(w)
      PROVE  RegisterInv'
  BY <1>1, <1>5 DEF CommitLogin, CommitTouch, CommitRemove
<1>6. ASSUME NEW w \in Workers, NoSession(w) \/ Abort(w) PROVE RegisterInv'
  BY <1>1, <1>6 DEF NoSession, Abort, Refuse
<1>7. ASSUME NEW w \in Workers, NEW u \in Users, NEW p \in Passwords,
             Register(w, u, p) \/ \E d \in Digests : Login(w, u, p, d)
      PROVE  RegisterInv'
  BY <1>2, <1>7 DEF Register, Login, Begin, NoRequest, locks, tables
<1>8. ASSUME NEW w \in Workers, NEW d \in Digests, Introspect(w, d) \/ Logout(w, d)
      PROVE  RegisterInv'
  BY <1>2, <1>8 DEF Introspect, Logout, Present, Begin, NoRequest, locks, tables
<1>9. ASSUME NEW w \in Workers, LockUser(w) PROVE RegisterInv'
  <2> DEFINE r == [req[w] EXCEPT !.at = now, !.pc = "by_user"]
  <2>1. req' = [req EXCEPT ![w] = r]
    BY <1>9, Updates
  <2>2. r.pc = "by_user"
    BY Records DEF Request
  <2> HIDE DEF r
  <2> QED
    BY <1>2, <1>9, <2>1, <2>2 DEF LockUser, tables
<1>10. ASSUME NEW w \in Workers, ReadOld(w) PROVE RegisterInv'
  <2>1. CASE Refuse(w)
    BY <1>1, <2>1 DEF Refuse
  <2>2. CASE ~Refuse(w)
    <3>1. Goto(w, "replace") /\ UNCHANGED <<locks, tables, registered>>
      BY <1>10, <2>2, Zenon DEF ReadOld
    <3> DEFINE r == [req[w] EXCEPT !.pc = "replace"]
    <3>2. req' = [req EXCEPT ![w] = r] /\ r.pc = "replace"
      BY <3>1, Records DEF Goto, Request
    <3> QED
      BY <1>2, <3>1, <3>2 DEF locks, tables
  <2> QED
    BY <2>1, <2>2
<1>11. ASSUME NEW w \in Workers, Replace(w) PROVE RegisterInv'
  <2> DEFINE r == [req[w] EXCEPT !.row = sessions[req[w].user], !.pc = "commit"]
  <2>1. req' = [req EXCEPT ![w] = r]
    BY <1>11, Updates
  <2>2. r.op = "login"
    BY <1>11, Records DEF Replace, Filled, Request
  <2>3. UNCHANGED <<users, registered, inserting>>
    BY <1>11 DEF Replace, tables
  <2> HIDE DEF r
  <2> QED
    BY <1>2, <2>1, <2>2, <2>3
<1>12. ASSUME NEW w \in Workers, NEW u \in Users, FindSession(w, u) PROVE RegisterInv'
  <2>1. CASE Refuse(w)
    BY <1>1, <2>1 DEF Refuse
  <2>2. CASE ~Refuse(w)
    <3> DEFINE r == [req[w] EXCEPT !.user = u, !.row = sessions[u],
                                   !.at = now, !.pc = "commit"]
    <3>1. req' = [req EXCEPT ![w] = r] /\ UNCHANGED <<inserting, tables, registered>>
      BY <1>12, <2>2 DEF FindSession, TypeInv, TypeOK
    <3>2. r.op # "register"
      BY <1>12, Records DEF FindSession, Filled, Request
    <3> QED
      BY <1>2, <3>1, <3>2 DEF tables
  <2> QED
    BY <2>1, <2>2
<1>13. CASE Tick \/ UNCHANGED vars
  BY <1>13 DEF Tick, vars, locks, tables
<1> QED
  BY <1>3, <1>4, <1>5, <1>6, <1>7, <1>8, <1>9, <1>10, <1>11, <1>12, <1>13
     DEF Next, Continue, Find

(* Of several registrations of one email one wins, and the account keeps    *)
(* the password of the one that was answered 200.                           *)
THEOREM RegistrationsDoNotRace == Spec => []OneRegistrationWins
<1>1. Init => RegisterInv
  BY DEF Init, RegisterInv, OneRegistrationWins, NoRequest
<1>2. TypeInv /\ RegisterInv /\ [Next]_vars => RegisterInv'
  BY RegisterStep
<1>3. RegisterInv => OneRegistrationWins
  BY DEF RegisterInv
<1> QED
  BY <1>1, <1>2, <1>3, TypeAlways, PTL DEF Spec

-----------------------------------------------------------------------------
(* Sessions.  A digest belongs to one login until it is issued and to one   *)
(* row from then on.                                                        *)

TokensInv ==
    /\ \A w \in Workers : req[w].op = "login" => tokens[req[w].digest] = "pending"
    /\ \A v, w \in Workers :
          (req[v].op = "login" /\ req[w].op = "login" /\ req[v].digest = req[w].digest)
              => v = w
    /\ \A w \in Workers :
          req[w].op \in {"introspect", "logout"} => tokens[req[w].digest] = "issued"
    /\ \A u \in Users : sessions[u] # None => tokens[sessions[u].digest] = "issued"
    /\ \A u, v \in Users :
          (sessions[u] # None /\ sessions[v] # None
              /\ sessions[u].digest = sessions[v].digest) => u = v
    /\ \A d \in revoked : tokens[d] = "issued"

LEMMA TokensStep ==
  ASSUME TypeInv, TokensInv, [Next]_vars
  PROVE  TokensInv'
<1> USE DEF TokensInv
(* A step that leaves the operation and the digest of its request alone.    *)
<1>1. ASSUME NEW w \in Workers, NEW r, req' = [req EXCEPT ![w] = r],
             r.op = req[w].op, r.digest = req[w].digest,
             UNCHANGED <<tokens, sessions, revoked>>
      PROVE  TokensInv'
  <2>1. \A v \in Workers : req'[v].op = req[v].op /\ req'[v].digest = req[v].digest
    BY <1>1, OneMoves
  <2> QED
    BY <1>1, <2>1
(* The end of a request that puts no session in place. *)
<1>2. ASSUME NEW w \in Workers, Leave(w),
             \A d \in Digests :
                tokens'[d] # tokens[d] => req[w].op = "login" /\ d = req[w].digest,
             \A u \in Users : sessions'[u] # None =>
                sessions[u] # None /\ sessions'[u].digest = sessions[u].digest,
             \A d \in revoked' :
                d \in revoked \/ (req[w].op = "logout" /\ d = req[w].digest)
      PROVE  TokensInv'
  <2>1. req'[w].op = "none" /\ \A v \in Workers \ {w} : req'[v] = req[v]
    BY <1>2, LeaveTyped DEF NoRequest
  <2>2. \A v \in Workers :
           req[v].op \in {"login", "introspect", "logout"} => req[v].digest \in Digests
    BY Records DEF Filled
  <2>3. /\ \A u \in Users : sessions[u] # None => sessions[u].digest \in Digests
        /\ revoked \subseteq Digests
    BY DEF TypeInv, TypeOK, Session
  <2>4. \A d \in Digests : tokens[d] = "issued" => tokens'[d] = "issued"
    BY <1>2
  <2>5. \A v \in Workers \ {w} : req[v].op = "login" => tokens'[req[v].digest] = "pending"
    BY <1>2, <2>2
  <2> QED
    BY <1>2, <2>1, <2>2, <2>3, <2>4, <2>5
<1>3. ASSUME NEW w \in Workers, req[w].pc # "idle", Refuse(w) PROVE TokensInv'
  <2>1. req[w].op \in {"register", "login", "introspect", "logout"}
    BY <1>3, Records DEF Filled, Request
  <2>2. \A d \in Digests : tokens'[d] # tokens[d] => req[w].op = "login" /\ d = req[w].digest
    BY <1>3, <2>1, Records, ConstantsAssumption DEF Refuse, Filled
  <2> QED
    BY <1>2, <1>3, <2>2 DEF Refuse
<1>4. ASSUME NEW w \in Workers, InsertUser(w) PROVE TokensInv'
  <2>1. CASE Refuse(w)
    BY <1>3, <1>4, <2>1 DEF InsertUser
  <2>2. CASE ~Refuse(w)
    <3>1. Goto(w, "commit") /\ UNCHANGED <<tables, tokens, revoked>>
      BY <1>4, <2>2, Zenon DEF InsertUser
    <3> QED
      BY <1>1, <3>1, Records DEF Goto, Request, tables
  <2> QED
    BY <2>1, <2>2
<1>5. ASSUME NEW w \in Workers, ReadOld(w) PROVE TokensInv'
  <2>1. CASE Refuse(w)
    BY <1>3, <1>5, <2>1 DEF ReadOld
  <2>2. CASE ~Refuse(w)
    <3>1. Goto(w, "replace") /\ UNCHANGED <<tables, tokens, revoked>>
      BY <1>5, <2>2, Zenon DEF ReadOld
    <3> QED
      BY <1>1, <3>1, Records DEF Goto, Request, tables
  <2> QED
    BY <2>1, <2>2
<1>6. ASSUME NEW w \in Workers, LockUser(w) \/ Replace(w) PROVE TokensInv'
  <2>1. CASE LockUser(w)
    <3> DEFINE r == [req[w] EXCEPT !.at = now, !.pc = "by_user"]
    <3>1. req' = [req EXCEPT ![w] = r] /\ UNCHANGED <<tables, tokens, revoked>>
      BY <2>1, Updates DEF LockUser
    <3>2. r.op = req[w].op /\ r.digest = req[w].digest
      BY Records DEF Request
    <3> HIDE DEF r
    <3> QED
      BY <1>1, <3>1, <3>2 DEF tables
  <2>2. CASE Replace(w)
    <3> DEFINE r == [req[w] EXCEPT !.row = sessions[req[w].user], !.pc = "commit"]
    <3>1. req' = [req EXCEPT ![w] = r] /\ UNCHANGED <<tables, tokens, revoked>>
      BY <2>2, Updates DEF Replace
    <3>2. r.op = req[w].op /\ r.digest = req[w].digest
      BY Records DEF Request
    <3> HIDE DEF r
    <3> QED
      BY <1>1, <3>1, <3>2 DEF tables
  <2> QED
    BY <1>6, <2>1, <2>2
<1>7. ASSUME NEW w \in Workers, NEW u \in Users, FindSession(w, u) PROVE TokensInv'
  <2>1. CASE Refuse(w)
    BY <1>3, <1>7, <2>1 DEF FindSession
  <2>2. CASE ~Refuse(w)
    <3> DEFINE r == [req[w] EXCEPT !.user = u, !.row = sessions[u],
                                   !.at = now, !.pc = "commit"]
    <3>1. req' = [req EXCEPT ![w] = r] /\ UNCHANGED <<tables, tokens, revoked>>
      BY <1>7, <2>2 DEF FindSession
    <3>2. r.op = req[w].op /\ r.digest = req[w].digest
      BY Records DEF Request
    <3> QED
      BY <1>1, <3>1, <3>2 DEF tables
  <2> QED
    BY <2>1, <2>2
<1>8. ASSUME NEW w \in Workers, NoSession(w) \/ Abort(w) PROVE TokensInv'
  BY <1>3, <1>8 DEF NoSession, Abort
<1>9. ASSUME NEW w \in Workers, CommitUser(w) PROVE TokensInv'
  BY <1>2, <1>9 DEF CommitUser
<1>10. ASSUME NEW w \in Workers, CommitTouch(w) PROVE TokensInv'
  <2>1. \A u \in Users : sessions'[u] # None =>
           sessions[u] # None /\ sessions'[u].digest = sessions[u].digest
    <3>1. \A u \in Users : sessions[u] # None =>
             [sessions[u] EXCEPT !.seen = req[w].at].digest = sessions[u].digest
      BY DEF TypeInv, TypeOK, Session
    <3> QED
      BY <1>10, <3>1 DEF CommitTouch, Holds
  <2> QED
    BY <1>2, <1>10, <2>1 DEF CommitTouch
<1>11. ASSUME NEW w \in Workers, CommitRemove(w) PROVE TokensInv'
  <2>1. \A u \in Users : sessions'[u] # None => sessions'[u] = sessions[u]
    BY <1>11 DEF CommitRemove
  <2> QED
    BY <1>2, <1>11, <2>1 DEF CommitRemove
(* The new session's digest was pending, so no row has it. *)
<1>12. ASSUME NEW w \in Workers, CommitLogin(w) PROVE TokensInv'
  <2> DEFINE u == req[w].user
             d == req[w].digest
  <2>1. u \in Users /\ d \in Digests /\ tokens[d] = "pending"
    BY <1>12, Records DEF CommitLogin, Filled
  <2>2. /\ sessions'[u] # None /\ sessions'[u].digest = d
        /\ \A x \in Users \ {u} : sessions'[x] = sessions[x]
    <3>1. /\ [digest |-> d, seen |-> req[w].at, expires |-> req[w].at + Absolute] # None
          /\ sessions' = [sessions EXCEPT ![u] =
                [digest |-> d, seen |-> req[w].at, expires |-> req[w].at + Absolute]]
      BY <1>12, <2>1, Records, ConstantsAssumption DEF CommitLogin, Session, Request
    <3> QED
      BY <2>1, <3>1 DEF TypeInv, TypeOK
  <2>3. tokens'[d] = "issued" /\ \A x \in Digests \ {d} : tokens'[x] = tokens[x]
    BY <1>12, <2>1 DEF CommitLogin, TypeInv, TypeOK
  <2>4. req'[w].op = "none" /\ \A v \in Workers \ {w} : req'[v] = req[v]
    BY <1>12, LeaveTyped DEF CommitLogin, NoRequest
  <2>5. \A v \in Workers :
           req[v].op \in {"login", "introspect", "logout"} => req[v].digest \in Digests
    BY Records DEF Filled
  <2>6. /\ \A x \in Users : sessions[x] # None => sessions[x].digest \in Digests \ {d}
        /\ revoked \subseteq Digests \ {d}
        /\ revoked' = revoked
    BY <1>12, <2>1 DEF CommitLogin, TypeInv, TypeOK, Session
  <2>7. \A v \in Workers \ {w} : req[v].op = "login" => req[v].digest # d
    BY <1>12 DEF CommitLogin
  <2> HIDE DEF u, d
  <2> QED
    BY <2>1, <2>2, <2>3, <2>4, <2>5, <2>6, <2>7
<1>13. ASSUME NEW w \in Workers, NEW u \in Users, NEW p \in Passwords, Register(w, u, p)
       PROVE  TokensInv'
  <2> DEFINE r == [NoRequest EXCEPT !.op = "register", !.pc = "insert",
                                    !.user = u, !.password = p]
  <2>1. req' = [req EXCEPT ![w] = r] /\ r.op = "register"
    BY <1>13 DEF Register, Begin, NoRequest
  <2> HIDE DEF r
  <2>2. req'[w].op = "register" /\ \A v \in Workers \ {w} : req'[v] = req[v]
    BY <2>1 DEF TypeInv, TypeOK
  <2> QED
    BY <1>13, <2>2 DEF Register, Begin, tables
<1>14. ASSUME NEW w \in Workers, NEW u \in Users, NEW p \in Passwords, NEW d \in Digests,
              Login(w, u, p, d)
       PROVE  TokensInv'
  <2> DEFINE r == [NoRequest EXCEPT !.op = "login", !.pc = "lock",
                                    !.user = u, !.digest = d]
  <2>6. req' = [req EXCEPT ![w] = r] /\ r.op = "login" /\ r.digest = d
    BY <1>14 DEF Login, Begin, NoRequest
  <2> HIDE DEF r
  <2>1. /\ req'[w].op = "login" /\ req'[w].digest = d
        /\ \A v \in Workers \ {w} : req'[v] = req[v]
    BY <2>6 DEF TypeInv, TypeOK
  <2>2. /\ tokens[d] = "unused" /\ tokens'[d] = "pending"
        /\ \A x \in Digests \ {d} : tokens'[x] = tokens[x]
    BY <1>14 DEF Login, TypeInv, TypeOK
  <2>3. \A v \in Workers :
           req[v].op \in {"login", "introspect", "logout"} => req[v].digest \in Digests
    BY Records DEF Filled
  <2>4. /\ \A x \in Users : sessions[x] # None => sessions[x].digest \in Digests
        /\ revoked \subseteq Digests
    BY DEF TypeInv, TypeOK, Session
  <2>5. UNCHANGED <<sessions, revoked>>
    BY <1>14 DEF Login, Begin, tables
  <2> QED
    BY <2>1, <2>2, <2>3, <2>4, <2>5
<1>15. ASSUME NEW w \in Workers, NEW d \in Digests, NEW op \in {"introspect", "logout"},
              Present(w, op, d)
       PROVE  TokensInv'
  <2> DEFINE r == [NoRequest EXCEPT !.op = op, !.pc = "by_digest", !.digest = d]
  <2>1. req' = [req EXCEPT ![w] = r] /\ r.op = op /\ r.digest = d
    BY <1>15 DEF Present, Begin, NoRequest
  <2> HIDE DEF r
  <2>2. /\ req'[w].op = op /\ req'[w].digest = d
        /\ \A v \in Workers \ {w} : req'[v] = req[v]
    BY <2>1 DEF TypeInv, TypeOK
  <2> QED
    BY <1>15, <2>2 DEF Present, Begin, tables
<1>16. CASE Tick \/ UNCHANGED vars
  BY <1>16 DEF Tick, vars, locks, tables
<1> QED
  BY <1>4, <1>5, <1>6, <1>7, <1>8, <1>9, <1>10, <1>11, <1>12, <1>13, <1>14, <1>15,
     <1>16 DEF Next, Continue, Find, Introspect, Logout

LEMMA TokensAlways == Spec => [](TypeInv /\ TokensInv)
<1>1. Init => TokensInv
  BY DEF Init, TokensInv, NoRequest
<1>2. TypeInv /\ TokensInv /\ [Next]_vars => TokensInv'
  BY TokensStep
<1> QED
  BY <1>1, <1>2, TypeAlways, PTL DEF Spec

-----------------------------------------------------------------------------
(* What a request has found when it commits is still locked by it.  A login *)
(* that found no row has nothing to lock there, but it holds its user's     *)
(* row, and only a login puts a session where there is none.                *)

AtCommit(w) == req[w].op \in {"login", "introspect", "logout"} /\ req[w].pc = "commit"

HeldInv ==
    /\ \A w \in Workers :
          (req[w].op = "login" /\ req[w].pc # "lock") => userLock[req[w].user] = w
    /\ \A w \in Workers : AtCommit(w) => sessions[req[w].user] = req[w].row
    /\ \A w \in Workers :
          AtCommit(w) /\ req[w].row # None => rowLock[req[w].user] = w
    /\ \A w \in Workers :
          AtCommit(w) /\ req[w].op # "login" => req[w].row.digest = req[w].digest

LEMMA Found ==
  ASSUME TypeInv, NEW w \in Workers
  PROVE  /\ AtCommit(w) => req[w].user \in Users /\ req[w].digest \in Digests
         /\ AtCommit(w) /\ req[w].op # "login" => req[w].row \in Session /\ req[w].row # None
         /\ req[w].op = "login" => req[w].user \in Users
BY Records, ConstantsAssumption DEF AtCommit, Filled

LEMMA CommitsAlone ==
  ASSUME TypeInv, HeldInv, NEW v \in Workers, NEW w \in Workers \ {v},
         AtCommit(v), AtCommit(w)
  PROVE  req[v].user # req[w].user
<1>1. \A x \in {v, w} : req[x].op # "login" => req[x].row # None
  BY Found
<1>2. SUFFICES ASSUME req[v].user = req[w].user PROVE FALSE
  OBVIOUS
<1>3. req[v].row = req[w].row
  BY <1>2 DEF HeldInv
<1>4. req[v].row = None
  BY <1>2, <1>3 DEF HeldInv
<1>5. req[v].op = "login" /\ req[w].op = "login"
  BY <1>1, <1>3, <1>4
<1> QED
  BY <1>2, <1>5 DEF HeldInv, AtCommit

(* The row a session request commits to is the only one with its digest. *)
LEMMA OnlyItsRow ==
  ASSUME TypeInv, TokensInv, HeldInv, NEW w \in Workers,
         AtCommit(w), req[w].op # "login", NEW u \in Users, Holds(u, req[w].digest)
  PROVE  u = req[w].user
<1>1. req[w].user \in Users /\ req[w].row # None
  BY Found
<1>2. sessions[req[w].user] # None /\ sessions[req[w].user].digest = req[w].digest
  BY <1>1 DEF HeldInv
<1> QED
  BY <1>1, <1>2 DEF TokensInv, Holds

LEMMA HeldStep ==
  ASSUME TypeInv, TokensInv, HeldInv, [Next]_vars
  PROVE  HeldInv'
(* The end of a request that changes no row another one is about to commit. *)
<1>1. ASSUME NEW w \in Workers, Leave(w),
             \A v \in Workers \ {w} :
                AtCommit(v) => sessions'[req[v].user] = sessions[req[v].user]
      PROVE  HeldInv'
  <2>1. req'[w].op = "none" /\ \A v \in Workers \ {w} : req'[v] = req[v]
    BY <1>1, LeaveTyped DEF NoRequest
  <2>2. \A u \in Users :
           /\ userLock[u] # w => userLock'[u] = userLock[u]
           /\ rowLock[u] # w => rowLock'[u] = rowLock[u]
    BY <1>1 DEF Leave, Free
  <2>3. \A v \in Workers :
           /\ AtCommit(v) => req[v].user \in Users
           /\ req[v].op = "login" => req[v].user \in Users
    BY Found
  <2> QED
    BY <1>1, <2>1, <2>2, <2>3 DEF HeldInv, AtCommit
<1>2. ASSUME NEW w \in Workers, Refuse(w) PROVE HeldInv'
  BY <1>1, <1>2 DEF Refuse
(* A request that holds nothing yet. *)
<1>3. ASSUME NEW w \in Workers, NEW r, req' = [req EXCEPT ![w] = r],
             r.op = "login" => r.pc = "lock",
             r.op \in {"introspect", "logout"} => r.pc # "commit",
             UNCHANGED <<userLock, rowLock, sessions>>
      PROVE  HeldInv'
  <2>1. req'[w] = r /\ \A v \in Workers \ {w} : req'[v] = req[v]
    BY <1>3, OneMoves
  <2> QED
    BY <1>3, <2>1 DEF HeldInv, AtCommit
<1>4. ASSUME NEW w \in Workers, InsertUser(w) PROVE HeldInv'
  <2>1. CASE Refuse(w)
    BY <1>2, <2>1
  <2>2. CASE ~Refuse(w)
    <3> DEFINE r == [req[w] EXCEPT !.pc = "commit"]
    <3>1. Goto(w, "commit") /\ UNCHANGED <<userLock, rowLock, tables>>
      BY <1>4, <2>2, Zenon DEF InsertUser
    <3>2. req' = [req EXCEPT ![w] = r]
      BY <3>1, Records DEF Goto
    <3>3. r.op = "register"
      BY <1>4, Records DEF InsertUser, Filled, Request
    <3> HIDE DEF r
    <3> QED
      BY <1>3, <3>1, <3>2, <3>3 DEF tables
  <2> QED
    BY <2>1, <2>2
<1>5. ASSUME NEW w \in Workers, LockUser(w) PROVE HeldInv'
  <2> DEFINE r == [req[w] EXCEPT !.at = now, !.pc = "by_user"]
             u == req[w].user
  <2>1. req' = [req EXCEPT ![w] = r]
    BY <1>5, Updates
  <2>2. req[w].op = "login" /\ u \in Users
    BY <1>5, Records DEF LockUser, Filled, Request
  <2>3. r.op = "login" /\ r.pc = "by_user" /\ r.user = u
    BY <2>2, Records DEF Request
  <2>4. /\ userLock[u] = None /\ userLock'[u] = w
        /\ \A x \in Users \ {u} : userLock'[x] = userLock[x]
        /\ UNCHANGED <<rowLock, sessions>>
    BY <1>5, <2>2 DEF LockUser, tables, TypeInv, TypeOK
  <2> HIDE DEF r, u
  <2>5. req'[w] = r /\ \A v \in Workers \ {w} : req'[v] = req[v]
    BY <2>1 DEF TypeInv, TypeOK
  <2>6. \A v \in Workers : v # None /\ (req[v].op = "login" => req[v].user \in Users)
    BY Found, ConstantsAssumption
  <2> QED
    BY <2>3, <2>4, <2>5, <2>6 DEF HeldInv, AtCommit
<1>6. ASSUME NEW w \in Workers, ReadOld(w) PROVE HeldInv'
  <2>1. CASE Refuse(w)
    BY <1>2, <2>1
  <2>2. CASE ~Refuse(w)
    <3> DEFINE r == [req[w] EXCEPT !.pc = "replace"]
    <3>1. Goto(w, "replace") /\ UNCHANGED <<locks, tables>>
      BY <1>6, <2>2, Zenon DEF ReadOld
    <3>2. req' = [req EXCEPT ![w] = r]
      BY <3>1, Records DEF Goto
    <3>3. r.op = req[w].op /\ r.pc = "replace" /\ r.user = req[w].user /\ req[w].pc # "lock"
      BY <1>6, Records DEF ReadOld, Request
    <3> HIDE DEF r
    <3>4. req'[w] = r /\ \A v \in Workers \ {w} : req'[v] = req[v]
      BY <3>2 DEF TypeInv, TypeOK
    <3> QED
      BY <3>1, <3>3, <3>4 DEF locks, tables, HeldInv, AtCommit
  <2> QED
    BY <2>1, <2>2
<1>7. ASSUME NEW w \in Workers, Replace(w) PROVE HeldInv'
  <2> DEFINE r == [req[w] EXCEPT !.row = sessions[req[w].user], !.pc = "commit"]
             u == req[w].user
  <2>1. req' = [req EXCEPT ![w] = r] /\ UNCHANGED <<userLock, tables>>
    BY <1>7, Updates DEF Replace
  <2>2. req[w].op = "login" /\ u \in Users /\ req[w].pc # "lock"
    BY <1>7, Records DEF Replace, Filled, Request
  <2>3. r.op = "login" /\ r.user = u /\ r.row = sessions[u]
    BY <2>2, Records DEF Request
  <2>4. /\ sessions[u] # None => rowLock[u] = None /\ rowLock'[u] = w
        /\ sessions[u] = None => rowLock'[u] = rowLock[u]
        /\ \A x \in Users \ {u} : rowLock'[x] = rowLock[x]
    BY <1>7, <2>2 DEF Replace, TypeInv, TypeOK
  <2> HIDE DEF r, u
  <2>5. req'[w] = r /\ \A v \in Workers \ {w} : req'[v] = req[v]
    BY <2>1 DEF TypeInv, TypeOK
  <2>6. userLock[u] = w
    BY <2>2 DEF HeldInv, u
  <2>7. \A v \in Workers : v # None /\ (AtCommit(v) => req[v].user \in Users)
    BY Found, ConstantsAssumption
  <2> QED
    BY <2>1, <2>2, <2>3, <2>4, <2>5, <2>6, <2>7 DEF tables, HeldInv, AtCommit
<1>8. ASSUME NEW w \in Workers, NEW u \in Users, FindSession(w, u) PROVE HeldInv'
  <2>1. CASE Refuse(w)
    BY <1>2, <2>1
  <2>2. CASE ~Refuse(w)
    <3> DEFINE r == [req[w] EXCEPT !.user = u, !.row = sessions[u],
                                   !.at = now, !.pc = "commit"]
    <3>1. /\ req' = [req EXCEPT ![w] = r]
          /\ UNCHANGED <<userLock, tables>>
          /\ rowLock[u] = None
          /\ rowLock' = [rowLock EXCEPT ![u] = w]
          /\ sessions[u].digest = req[w].digest
      BY <1>8, <2>2 DEF FindSession, Holds
    <3>2. req[w].op \in {"introspect", "logout"}
      BY <1>8, Records DEF FindSession, Filled, Request
    <3>3. /\ r.op = req[w].op /\ r.user = u /\ r.row = sessions[u]
          /\ r.digest = req[w].digest
      BY Records DEF Request
    <3>4. rowLock'[u] = w /\ \A x \in Users \ {u} : rowLock'[x] = rowLock[x]
      BY <3>1 DEF TypeInv, TypeOK
    <3> HIDE DEF r
    <3>5. req'[w] = r /\ \A v \in Workers \ {w} : req'[v] = req[v]
      BY <3>1 DEF TypeInv, TypeOK
    <3>6. \A v \in Workers : v # None /\ (AtCommit(v) => req[v].user \in Users)
      BY Found, ConstantsAssumption
    <3> QED
      BY <3>1, <3>2, <3>3, <3>4, <3>5, <3>6 DEF tables, HeldInv, AtCommit
  <2> QED
    BY <2>1, <2>2
<1>9. ASSUME NEW w \in Workers, NoSession(w) \/ Abort(w) PROVE HeldInv'
  BY <1>2, <1>9 DEF NoSession, Abort
<1>10. ASSUME NEW w \in Workers, CommitUser(w) PROVE HeldInv'
  BY <1>1, <1>10 DEF CommitUser
<1>11. ASSUME NEW w \in Workers, CommitLogin(w) PROVE HeldInv'
  <2>1. AtCommit(w) /\ req[w].user \in Users
    BY <1>11, Found DEF CommitLogin, AtCommit
  <2>2. \A x \in Users : x # req[w].user => sessions'[x] = sessions[x]
    BY <1>11 DEF CommitLogin, TypeInv, TypeOK
  <2>3. \A v \in Workers \ {w} :
           AtCommit(v) => req[v].user \in Users /\ req[v].user # req[w].user
    BY <2>1, CommitsAlone, Found
  <2> QED
    BY <1>1, <1>11, <2>2, <2>3 DEF CommitLogin
<1>12. ASSUME NEW w \in Workers, CommitTouch(w) \/ CommitRemove(w) PROVE HeldInv'
  <2>1. AtCommit(w) /\ req[w].op # "login" /\ Leave(w)
    BY <1>12 DEF CommitTouch, CommitRemove, AtCommit
  <2>2. \A x \in Users : x # req[w].user => ~Holds(x, req[w].digest)
    BY <2>1, OnlyItsRow
  <2>3. \A x \in Users : x # req[w].user => sessions'[x] = sessions[x]
    BY <1>12, <2>2 DEF CommitTouch, CommitRemove
  <2>4. \A v \in Workers \ {w} :
           AtCommit(v) => req[v].user \in Users /\ req[v].user # req[w].user
    BY <2>1, CommitsAlone, Found
  <2> QED
    BY <1>1, <2>1, <2>3, <2>4
<1>13. ASSUME NEW w \in Workers, NEW u \in Users, NEW p \in Passwords,
              Register(w, u, p) \/ \E d \in Digests : Login(w, u, p, d)
       PROVE  HeldInv'
  BY <1>3, <1>13 DEF Register, Login, Begin, NoRequest, locks, tables
<1>14. ASSUME NEW w \in Workers, NEW d \in Digests, Introspect(w, d) \/ Logout(w, d)
       PROVE  HeldInv'
  BY <1>3, <1>14 DEF Introspect, Logout, Present, Begin, NoRequest, locks, tables
<1>15. CASE Tick \/ UNCHANGED vars
  BY <1>15 DEF Tick, vars, locks, tables, HeldInv, AtCommit
<1> QED
  BY <1>4, <1>5, <1>6, <1>7, <1>8, <1>9, <1>10, <1>11, <1>12, <1>13, <1>14, <1>15
     DEF Next, Continue, Find

LEMMA HeldAlways == Spec => [](TypeInv /\ TokensInv /\ HeldInv)
<1>1. Init => HeldInv
  BY DEF Init, HeldInv, AtCommit, NoRequest
<1>2. TypeInv /\ TokensInv /\ HeldInv /\ [Next]_vars => HeldInv'
  BY HeldStep
<1> QED
  BY <1>1, <1>2, TokensAlways, PTL DEF Spec

(* What a session request has found in the table is still there when it     *)
(* commits.                                                                 *)
THEOREM JudgementsStand == Spec => []JudgedRowStays
<1>1. HeldInv => JudgedRowStays
  BY DEF HeldInv, AtCommit, JudgedRowStays
<1> QED
  BY <1>1, HeldAlways, PTL

-----------------------------------------------------------------------------
(* Logouts.  A logout commits alone on its row, so when it is answered no   *)
(* other request that found the session is left.                            *)

LEMMA RevokedStep ==
  ASSUME TypeInv, TokensInv, HeldInv, RevokedIsOver, [Next]_vars
  PROVE  RevokedIsOver'
(* The end of a request that neither revokes nor issues a token. *)
<1>1. ASSUME NEW w \in Workers, Leave(w), UNCHANGED revoked,
             \A u \in Users, d \in revoked : Holds(u, d)' => Holds(u, d)
      PROVE  RevokedIsOver'
  <2>1. req'[w].pc = "idle" /\ \A v \in Workers \ {w} : req'[v] = req[v]
    BY <1>1, LeaveTyped DEF NoRequest
  <2> QED
    BY <1>1, <2>1 DEF RevokedIsOver
<1>2. ASSUME NEW w \in Workers, Refuse(w) PROVE RevokedIsOver'
  BY <1>1, <1>2 DEF Refuse, Holds
(* A request on its way, with a token that is not revoked if it is to commit. *)
<1>3. ASSUME NEW w \in Workers, NEW r, req' = [req EXCEPT ![w] = r],
             r.pc = "commit" => r.digest \notin revoked,
             UNCHANGED <<sessions, revoked>>
      PROVE  RevokedIsOver'
  <2>1. req'[w] = r /\ \A v \in Workers \ {w} : req'[v] = req[v]
    BY <1>3, OneMoves
  <2> QED
    BY <1>3, <2>1 DEF RevokedIsOver, Holds
<1>4. ASSUME NEW w \in Workers, InsertUser(w) PROVE RevokedIsOver'
  <2>1. CASE Refuse(w)
    BY <1>2, <2>1
  <2>2. CASE ~Refuse(w)
    <3> DEFINE r == [req[w] EXCEPT !.pc = "commit"]
    <3>1. Goto(w, "commit") /\ UNCHANGED <<tables, revoked>>
      BY <1>4, <2>2, Zenon DEF InsertUser
    <3>2. req' = [req EXCEPT ![w] = r]
      BY <3>1, Records DEF Goto
    <3>3. r.digest = None
      BY <1>4, Records DEF InsertUser, Filled, Request
    <3>4. None \notin revoked
      BY ConstantsAssumption DEF TypeInv, TypeOK
    <3> HIDE DEF r
    <3> QED
      BY <1>3, <3>1, <3>2, <3>3, <3>4 DEF tables
  <2> QED
    BY <2>1, <2>2
<1>5. ASSUME NEW w \in Workers, LockUser(w) PROVE RevokedIsOver'
  <2> DEFINE r == [req[w] EXCEPT !.at = now, !.pc = "by_user"]
  <2>1. req' = [req EXCEPT ![w] = r] /\ r.pc # "commit" /\ UNCHANGED <<tables, revoked>>
    BY <1>5, Updates, Records DEF LockUser, Request
  <2> HIDE DEF r
  <2> QED
    BY <1>3, <2>1 DEF tables
<1>6. ASSUME NEW w \in Workers, ReadOld(w) PROVE RevokedIsOver'
  <2>1. CASE Refuse(w)
    BY <1>2, <2>1
  <2>2. CASE ~Refuse(w)
    <3> DEFINE r == [req[w] EXCEPT !.pc = "replace"]
    <3>1. Goto(w, "replace") /\ UNCHANGED <<tables, revoked>>
      BY <1>6, <2>2, Zenon DEF ReadOld
    <3>2. req' = [req EXCEPT ![w] = r] /\ r.pc # "commit"
      BY <3>1, Records DEF Goto, Request
    <3> HIDE DEF r
    <3> QED
      BY <1>3, <3>1, <3>2 DEF tables
  <2> QED
    BY <2>1, <2>2
<1>7. ASSUME NEW w \in Workers, Replace(w) PROVE RevokedIsOver'
  <2> DEFINE r == [req[w] EXCEPT !.row = sessions[req[w].user], !.pc = "commit"]
  <2>1. req' = [req EXCEPT ![w] = r] /\ UNCHANGED <<tables, revoked>>
    BY <1>7, Updates DEF Replace
  <2>2. req[w].op = "login" /\ r.digest = req[w].digest
    BY <1>7, Records DEF Replace, Filled, Request
  <2>3. req[w].digest \notin revoked
    BY <2>2 DEF TokensInv
  <2> HIDE DEF r
  <2> QED
    BY <1>3, <2>1, <2>2, <2>3 DEF tables
<1>8. ASSUME NEW w \in Workers, NEW u \in Users, FindSession(w, u) PROVE RevokedIsOver'
  <2>1. CASE Refuse(w)
    BY <1>2, <2>1
  <2>2. CASE ~Refuse(w)
    <3> DEFINE r == [req[w] EXCEPT !.user = u, !.row = sessions[u],
                                   !.at = now, !.pc = "commit"]
    <3>1. req' = [req EXCEPT ![w] = r] /\ UNCHANGED <<tables, revoked>>
      BY <1>8, <2>2 DEF FindSession
    <3>2. r.digest = req[w].digest
      BY Records DEF Request
    <3>3. req[w].digest \notin revoked
      BY <1>8 DEF FindSession, RevokedIsOver
    <3> HIDE DEF r
    <3> QED
      BY <1>3, <3>1, <3>2, <3>3 DEF tables
  <2> QED
    BY <2>1, <2>2
<1>9. ASSUME NEW w \in Workers, NoSession(w) \/ Abort(w) PROVE RevokedIsOver'
  BY <1>2, <1>9 DEF NoSession, Abort
<1>10. ASSUME NEW w \in Workers, CommitUser(w) PROVE RevokedIsOver'
  BY <1>1, <1>10 DEF CommitUser, Holds
<1>11. ASSUME NEW w \in Workers, CommitTouch(w) PROVE RevokedIsOver'
  <2>1. \A u \in Users : sessions[u] # None =>
           [sessions[u] EXCEPT !.seen = req[w].at].digest = sessions[u].digest
    BY DEF TypeInv, TypeOK, Session
  <2>2. \A u \in Users, d \in revoked : Holds(u, d)' => Holds(u, d)
    BY <1>11, <2>1 DEF CommitTouch, Holds
  <2> QED
    BY <1>1, <1>11, <2>2 DEF CommitTouch
(* A pending token has not been revoked. *)
<1>12. ASSUME NEW w \in Workers, CommitLogin(w) PROVE RevokedIsOver'
  <2> DEFINE s == [digest |-> req[w].digest, seen |-> req[w].at,
                   expires |-> req[w].at + Absolute]
  <2>1. req[w].digest \notin revoked
    BY <1>12 DEF CommitLogin, TokensInv
  <2>2. s.digest = req[w].digest /\ sessions' = [sessions EXCEPT ![req[w].user] = s]
    BY <1>12 DEF CommitLogin
  <2> HIDE DEF s
  <2>3. \A u \in Users, d \in revoked : Holds(u, d)' => Holds(u, d)
    BY <2>1, <2>2 DEF Holds, TypeInv, TypeOK
  <2> QED
    BY <1>1, <1>12, <2>3 DEF CommitLogin
<1>13. ASSUME NEW w \in Workers, CommitRemove(w) PROVE RevokedIsOver'
  <2>0. PICK d \in Digests : d = req[w].digest
    BY <1>13, Found DEF CommitRemove, AtCommit
  <2>1. AtCommit(w) /\ req[w].op = "logout" /\ Leave(w) /\ revoked' = revoked \cup {d}
    BY <1>13, <2>0 DEF CommitRemove, AtCommit
  <2>2. req'[w].pc = "idle" /\ \A v \in Workers \ {w} : req'[v] = req[v]
    BY <2>1, LeaveTyped DEF NoRequest
  <2>3. \A u \in Users, x \in revoked : Holds(u, x)' => Holds(u, x)
    BY <1>13 DEF CommitRemove, Holds
  <2>4. \A u \in Users : ~Holds(u, d)'
    BY <1>13, <2>0 DEF CommitRemove, Holds
  <2>5. ASSUME NEW v \in Workers \ {w}, req[v].digest = d, req[v].pc = "commit"
        PROVE  FALSE
    <3>1. tokens[d] = "issued"
      BY <2>1, <2>0 DEF TokensInv
    <3>2. req[v].op \in {"introspect", "logout"}
      BY <2>5, <3>1, Records, ConstantsAssumption DEF Filled, Request, TokensInv
    <3>3. AtCommit(v) /\ req[v].user \in Users /\ req[v].row # None
      BY <2>5, <3>2, Found DEF AtCommit
    <3>4. Holds(req[v].user, d)
      BY <2>5, <3>2, <3>3 DEF HeldInv, Holds
    <3> QED
      BY <2>1, <2>0, <3>3, <3>4, OnlyItsRow, CommitsAlone
  <2> QED
    BY <2>1, <2>2, <2>3, <2>4, <2>5 DEF RevokedIsOver
<1>14. ASSUME NEW w \in Workers, NEW u \in Users, NEW p \in Passwords,
              Register(w, u, p) \/ \E d \in Digests : Login(w, u, p, d)
       PROVE  RevokedIsOver'
  BY <1>3, <1>14 DEF Register, Login, Begin, NoRequest, tables
<1>15. ASSUME NEW w \in Workers, NEW d \in Digests, Introspect(w, d) \/ Logout(w, d)
       PROVE  RevokedIsOver'
  BY <1>3, <1>15 DEF Introspect, Logout, Present, Begin, NoRequest, tables
<1>16. CASE Tick \/ UNCHANGED vars
  BY <1>16 DEF Tick, vars, tables, RevokedIsOver, Holds
<1> QED
  BY <1>4, <1>5, <1>6, <1>7, <1>8, <1>9, <1>10, <1>11, <1>12, <1>13, <1>14, <1>15,
     <1>16 DEF Next, Continue, Find

(* Once a logout is answered, its session is over for every request, those  *)
(* under way included.                                                      *)
THEOREM LogoutIsFinal == Spec => []RevokedIsOver
<1>1. Init => RevokedIsOver
  BY DEF Init, RevokedIsOver
<1>2. TypeInv /\ TokensInv /\ HeldInv /\ RevokedIsOver /\ [Next]_vars => RevokedIsOver'
  BY RevokedStep
<1> QED
  BY <1>1, <1>2, HeldAlways, PTL DEF Spec

-----------------------------------------------------------------------------
(* Waits.  Index entries and session rows are held by requests that are     *)
(* about to commit, and users' rows by logins past their lock, of which     *)
(* only replace still waits, for a session row.                             *)

Holding ==
    /\ \A u \in Users, v \in Workers :
          /\ inserting[u] = v => req[v].pc = "commit"
          /\ userLock[u] = v => req[v].pc \in {"by_user", "replace", "commit"}
          /\ rowLock[u] = v => req[v].pc = "commit"

(* A request that takes no lock and goes on with those it has. *)
LEMMA HoldingMoves ==
  ASSUME TypeInv, Holding, NEW w \in Workers, NEW r, req' = [req EXCEPT ![w] = r],
         UNCHANGED locks,
         \/ req[w].pc \in {"idle", "insert", "lock", "by_digest"}
         \/ req[w].pc = "by_user" /\ r.pc = "replace"
  PROVE  Holding'
<1>1. req'[w] = r /\ \A v \in Workers \ {w} : req'[v] = req[v]
  BY OneMoves
<1> QED
  BY <1>1 DEF Holding, locks

LEMMA HoldingEnds ==
  ASSUME TypeInv, Holding, NEW w \in Workers, Leave(w)
  PROVE  Holding'
<1>1. \A v \in Workers \ {w} : req'[v] = req[v]
  BY LeaveTyped
<1>2. \A u \in Users, v \in Workers :
         /\ inserting'[u] = v => v # w /\ inserting[u] = v
         /\ userLock'[u] = v => v # w /\ userLock[u] = v
         /\ rowLock'[u] = v => v # w /\ rowLock[u] = v
  BY ConstantsAssumption DEF Leave, Free
<1> QED
  BY <1>1, <1>2 DEF Holding

LEMMA HoldingStep ==
  ASSUME TypeInv, Holding, [Next]_vars
  PROVE  Holding'
<1>1. ASSUME NEW w \in Workers, Refuse(w) PROVE Holding'
  BY <1>1, HoldingEnds DEF Refuse
<1>2. ASSUME NEW w \in Workers, InsertUser(w), ~Refuse(w) PROVE Holding'
  <2>1. /\ inserting' = [inserting EXCEPT ![req[w].user] = w]
        /\ UNCHANGED <<userLock, rowLock>> /\ Goto(w, "commit")
        /\ inserting \in [Users -> Workers \cup {None}]
        /\ req[w].pc = "insert"
    BY <1>2 DEF InsertUser, TypeInv, TypeOK
  <2>2. req'[w].pc = "commit" /\ \A v \in Workers \ {w} : req'[v] = req[v]
    BY <2>1, Records DEF Goto, TypeInv, TypeOK, Request
  <2> QED
    BY <2>1, <2>2 DEF Holding
<1>3. ASSUME NEW w \in Workers, LockUser(w) PROVE Holding'
  <2>1. /\ userLock' = [userLock EXCEPT ![req[w].user] = w]
        /\ UNCHANGED <<inserting, rowLock>>
        /\ userLock \in [Users -> Workers \cup {None}]
        /\ req[w].pc = "lock"
    BY <1>3 DEF LockUser, TypeInv, TypeOK
  <2>2. req'[w].pc = "by_user" /\ \A v \in Workers \ {w} : req'[v] = req[v]
    BY <1>3 DEF LockUser, TypeInv, TypeOK, Request
  <2> QED
    BY <2>1, <2>2 DEF Holding
<1>4. ASSUME NEW w \in Workers, ReadOld(w), ~Refuse(w) PROVE Holding'
  <2>1. Goto(w, "replace") /\ UNCHANGED locks /\ req[w].pc = "by_user"
    BY <1>4, Zenon DEF ReadOld
  <2>2. [req[w] EXCEPT !.pc = "replace"].pc = "replace"
    BY Records DEF Request
  <2> QED
    BY <2>1, <2>2, HoldingMoves DEF Goto
<1>5. ASSUME NEW w \in Workers, Replace(w) PROVE Holding'
  <2>1. /\ rowLock' \in {rowLock, [rowLock EXCEPT ![req[w].user] = w]}
        /\ UNCHANGED <<inserting, userLock>>
        /\ rowLock \in [Users -> Workers \cup {None}]
        /\ req[w].pc = "replace"
    BY <1>5 DEF Replace, TypeInv, TypeOK
  <2>2. req'[w].pc = "commit" /\ \A v \in Workers \ {w} : req'[v] = req[v]
    BY <1>5 DEF Replace, TypeInv, TypeOK, Request
  <2> QED
    BY <2>1, <2>2 DEF Holding
<1>6. ASSUME NEW w \in Workers, NEW u \in Users, FindSession(w, u), ~Refuse(w)
      PROVE  Holding'
  <2>1. /\ rowLock' = [rowLock EXCEPT ![u] = w]
        /\ UNCHANGED <<inserting, userLock>>
        /\ rowLock \in [Users -> Workers \cup {None}]
        /\ req[w].pc = "by_digest"
    BY <1>6 DEF FindSession, TypeInv, TypeOK
  <2>2. req'[w].pc = "commit" /\ \A v \in Workers \ {w} : req'[v] = req[v]
    BY <1>6 DEF FindSession, TypeInv, TypeOK, Request
  <2> QED
    BY <2>1, <2>2 DEF Holding
<1>7. ASSUME NEW w \in Workers,
             \/ NoSession(w) \/ Abort(w) \/ CommitUser(w)
             \/ CommitLogin(w) \/ CommitTouch(w) \/ CommitRemove(w)
      PROVE  Holding'
  BY <1>7, HoldingEnds
     DEF NoSession, Abort, Refuse, CommitUser, CommitLogin, CommitTouch, CommitRemove
<1>8. ASSUME NEW w \in Workers, NEW r, Begin(w, r) PROVE Holding'
  BY <1>8, HoldingMoves DEF Begin
<1>9. ASSUME NEW w \in Workers, NEW u \in Users, NEW p \in Passwords,
             Register(w, u, p) \/ \E d \in Digests : Login(w, u, p, d)
      PROVE  Holding'
  BY <1>8, <1>9 DEF Register, Login
<1>10. ASSUME NEW w \in Workers, NEW d \in Digests, Introspect(w, d) \/ Logout(w, d)
       PROVE  Holding'
  BY <1>8, <1>10 DEF Introspect, Logout, Present
<1>11. CASE Tick \/ UNCHANGED vars
  BY <1>11 DEF Tick, vars, locks, Holding
<1> QED
  BY <1>1, <1>2, <1>3, <1>4, <1>5, <1>6, <1>7, <1>9, <1>10, <1>11
     DEF Next, Continue, Find

(* Nobody ever waits in a circle: every wait ends, after one step or two,   *)
(* at a request that waits for nobody.                                      *)
THEOREM WaitsEnd == Spec => []NoDeadlock
<1>1. Init => Holding
  BY ConstantsAssumption DEF Init, Holding
<1>2. TypeInv /\ Holding /\ [Next]_vars => Holding'
  BY HoldingStep
<1>3. TypeInv /\ Holding => NoDeadlock
  <2> SUFFICES ASSUME TypeInv, Holding, NEW w \in Workers, NEW v \in Workers,
                      WaitsFor(w, v)
               PROVE  Runs(v) \/ \E x \in Workers : WaitsFor(v, x) /\ Runs(x)
    BY DEF NoDeadlock
  <2>1. \A x \in Workers : req[x].pc \in {"by_user", "commit"} => Runs(x)
    BY DEF Runs, WaitsFor
  <2>2. req[v].pc \in {"by_user", "replace", "commit"}
    <3>1. req[w].pc \in {"insert", "lock", "replace"} => req[w].user \in Users
      BY Records DEF Filled, Request
    <3> QED
      BY <3>1 DEF WaitsFor, Holding
  <2>3. CASE req[v].pc = "replace" /\ ~Runs(v)
    <3>1. PICK x \in Workers : WaitsFor(v, x)
      BY <2>3 DEF Runs
    <3>2. req[v].user \in Users
      BY <2>3, Records DEF Filled, Request
    <3>3. req[x].pc = "commit"
      BY <2>3, <3>1, <3>2 DEF WaitsFor, Holding
    <3> QED
      BY <2>1, <3>1, <3>3
  <2> QED
    BY <2>1, <2>2, <2>3
<1> QED
  BY <1>1, <1>2, <1>3, TypeAlways, PTL DEF Spec
=============================================================================
