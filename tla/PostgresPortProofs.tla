------------------------- MODULE PostgresPortProofs --------------------------
(***************************************************************************)
(* PostgresAuth implements Sessions, for any number of workers, users,     *)
(* passwords and tokens, and any limits.                                   *)
(***************************************************************************)
EXTENDS PostgresAuthProofs

-----------------------------------------------------------------------------
(* The clock is read under the lock of the row it is compared with, and the *)
(* row keeps still until the commit; so no session was seen in the future,  *)
(* and an introspection about to commit found one that was alive.           *)

ClockInv ==
    /\ \A u \in Users : sessions[u] # None => sessions[u].seen <= now
    /\ \A w \in Workers : req[w].at <= now
    /\ \A w \in Workers :
          (req[w].op = "introspect" /\ req[w].pc = "commit") =>
              req[w].row.seen <= req[w].at /\ ~Expired(req[w].row, req[w].at)

LEMMA ClockStep ==
  ASSUME TypeInv, HeldInv, ClockInv, [Next]_vars
  PROVE  ClockInv'
<1> USE DEF ClockInv
(* A request goes on. *)
<1>1. ASSUME NEW w \in Workers, NEW r, req' = [req EXCEPT ![w] = r], r.at <= now,
             (r.op = "introspect" /\ r.pc = "commit") =>
                 r.row.seen <= r.at /\ ~Expired(r.row, r.at),
             UNCHANGED <<now, sessions>>
      PROVE  ClockInv'
  <2>1. req'[w] = r /\ \A v \in Workers \ {w} : req'[v] = req[v]
    BY <1>1, OneMoves
  <2> QED
    BY <1>1, <2>1 DEF Expired
(* A request ends. *)
<1>2. ASSUME NEW w \in Workers, Leave(w), UNCHANGED now,
             \A u \in Users : sessions'[u] # None => sessions'[u].seen <= now
      PROVE  ClockInv'
  <2>1. /\ req'[w].op = "none" /\ req'[w].at = 0
        /\ \A v \in Workers \ {w} : req'[v] = req[v]
    BY <1>2, LeaveTyped DEF NoRequest
  <2>2. now \in Nat
    BY DEF TypeInv, TypeOK
  <2> QED
    BY <1>2, <2>1, <2>2 DEF Expired
<1>3. ASSUME NEW w \in Workers, Refuse(w) PROVE ClockInv'
  BY <1>2, <1>3 DEF Refuse
<1>4. ASSUME NEW w \in Workers, NEW pc, Goto(w, pc), UNCHANGED <<now, sessions>>,
             req[w].op # "introspect"
      PROVE  ClockInv'
  <2> DEFINE r == [req[w] EXCEPT !.pc = pc]
  <2>1. r.at = req[w].at /\ r.op = req[w].op
    BY Records DEF Request
  <2>2. req' = [req EXCEPT ![w] = r]
    BY <1>4, Records DEF Goto
  <2> HIDE DEF r
  <2> QED
    BY <1>1, <1>4, <2>1, <2>2
<1>5. ASSUME NEW w \in Workers, InsertUser(w) PROVE ClockInv'
  <2>1. CASE Refuse(w)
    BY <1>3, <2>1
  <2>2. CASE ~Refuse(w)
    <3>1. Goto(w, "commit") /\ UNCHANGED <<now, tables>>
      BY <1>5, <2>2, Zenon DEF InsertUser
    <3>2. req[w].op # "introspect"
      BY <1>5, Records DEF InsertUser, Filled, Request
    <3> QED
      BY <1>4, <3>1, <3>2 DEF tables
  <2> QED
    BY <2>1, <2>2
<1>6. ASSUME NEW w \in Workers, LockUser(w) PROVE ClockInv'
  <2> DEFINE r == [req[w] EXCEPT !.at = now, !.pc = "by_user"]
  <2>1. req' = [req EXCEPT ![w] = r] /\ UNCHANGED <<now, tables>>
    BY <1>6, Updates DEF LockUser
  <2>2. r.at = now /\ r.pc = "by_user"
    BY Records DEF Request
  <2>3. now \in Nat
    BY DEF TypeInv, TypeOK
  <2> HIDE DEF r
  <2> QED
    BY <1>1, <2>1, <2>2, <2>3 DEF tables
<1>7. ASSUME NEW w \in Workers, ReadOld(w) PROVE ClockInv'
  <2>1. CASE Refuse(w)
    BY <1>3, <2>1
  <2>2. CASE ~Refuse(w)
    <3>1. Goto(w, "replace") /\ UNCHANGED <<now, tables>>
      BY <1>7, <2>2, Zenon DEF ReadOld
    <3>2. req[w].op # "introspect"
      BY <1>7, Records DEF ReadOld, Filled, Request
    <3> QED
      BY <1>4, <3>1, <3>2 DEF tables
  <2> QED
    BY <2>1, <2>2
<1>8. ASSUME NEW w \in Workers, Replace(w) PROVE ClockInv'
  <2> DEFINE r == [req[w] EXCEPT !.row = sessions[req[w].user], !.pc = "commit"]
  <2>1. req' = [req EXCEPT ![w] = r] /\ UNCHANGED <<now, tables>>
    BY <1>8, Updates DEF Replace
  <2>2. r.at = req[w].at /\ r.op = "login"
    BY <1>8, Records DEF Replace, Filled, Request
  <2> HIDE DEF r
  <2> QED
    BY <1>1, <2>1, <2>2 DEF tables
<1>9. ASSUME NEW w \in Workers, NEW u \in Users, FindSession(w, u) PROVE ClockInv'
  <2>1. CASE Refuse(w)
    BY <1>3, <2>1
  <2>2. CASE ~Refuse(w)
    <3> DEFINE r == [req[w] EXCEPT !.user = u, !.row = sessions[u],
                                   !.at = now, !.pc = "commit"]
    <3>1. /\ req' = [req EXCEPT ![w] = r]
          /\ UNCHANGED <<now, tables>>
          /\ sessions[u] # None
          /\ req[w].op = "logout" \/ ~Expired(sessions[u], now)
      BY <1>9, <2>2 DEF FindSession, Holds
    <3>2. r.op = req[w].op /\ r.row = sessions[u] /\ r.at = now
      BY Records DEF Request
    <3>3. now \in Nat
      BY DEF TypeInv, TypeOK
    <3> HIDE DEF r
    <3> QED
      BY <1>1, <3>1, <3>2, <3>3 DEF tables
  <2> QED
    BY <2>1, <2>2
<1>10. ASSUME NEW w \in Workers, NoSession(w) \/ Abort(w) PROVE ClockInv'
  BY <1>3, <1>10 DEF NoSession, Abort
<1>11. ASSUME NEW w \in Workers, CommitUser(w) PROVE ClockInv'
  BY <1>2, <1>11 DEF CommitUser
<1>12. ASSUME NEW w \in Workers, CommitLogin(w) PROVE ClockInv'
  <2>1. \A u \in Users : sessions'[u] # None => sessions'[u].seen <= now
    BY <1>12 DEF CommitLogin, TypeInv, TypeOK
  <2> QED
    BY <1>2, <1>12, <2>1 DEF CommitLogin
<1>13. ASSUME NEW w \in Workers, CommitTouch(w) \/ CommitRemove(w) PROVE ClockInv'
  <2>1. ASSUME NEW u \in Users, sessions'[u] # None PROVE sessions'[u].seen <= now
    <3>1. sessions[u] # None => sessions[u] \in Session
      BY DEF TypeInv, TypeOK
    <3>2. \/ sessions'[u] = sessions[u]
          \/ sessions[u] # None /\ sessions'[u] = [sessions[u] EXCEPT !.seen = req[w].at]
      BY <1>13, <2>1 DEF CommitTouch, CommitRemove, Holds
    <3> QED
      BY <2>1, <3>1, <3>2 DEF Session
  <2> QED
    BY <1>2, <1>13, <2>1 DEF CommitTouch, CommitRemove
<1>14. ASSUME NEW w \in Workers, NEW r, Begin(w, r), r.at = 0, r.pc # "commit" PROVE ClockInv'
  <2>1. now \in Nat
    BY DEF TypeInv, TypeOK
  <2> QED
    BY <1>1, <1>14, <2>1 DEF Begin, tables
<1>15. ASSUME NEW w \in Workers, NEW u \in Users, NEW p \in Passwords, Register(w, u, p)
       PROVE  ClockInv'
  BY <1>14, <1>15 DEF Register, NoRequest
<1>16. ASSUME NEW w \in Workers, NEW u \in Users, NEW p \in Passwords, NEW d \in Digests,
              Login(w, u, p, d)
       PROVE  ClockInv'
  BY <1>14, <1>16 DEF Login, NoRequest
<1>17. ASSUME NEW w \in Workers, NEW d \in Digests, Introspect(w, d) \/ Logout(w, d)
       PROVE  ClockInv'
  BY <1>14, <1>17 DEF Introspect, Logout, Present, NoRequest
<1>18. CASE Tick
  <2>1. now \in Nat /\ now' = now + 1 /\ UNCHANGED <<sessions, req>>
    BY <1>18 DEF Tick, tables, TypeInv, TypeOK
  <2>2. \A u \in Users : sessions[u] # None => sessions[u].seen \in Nat
    BY DEF TypeInv, TypeOK, Session
  <2>3. \A w \in Workers : req[w].at \in Nat
    BY Records DEF Request
  <2> QED
    BY <2>1, <2>2, <2>3 DEF Expired
<1>19. CASE UNCHANGED vars
  BY <1>19 DEF vars, locks, tables, Expired
<1> QED
  BY <1>5, <1>6, <1>7, <1>8, <1>9, <1>10, <1>11, <1>12, <1>13, <1>15, <1>16,
     <1>17, <1>18, <1>19 DEF Next, Continue, Find

-----------------------------------------------------------------------------
(* Every step is a step of the port or changes nothing one sees there. *)

(* The digests of failed logins were never issued. *)
LEMMA RefuseIssuesNothing ==
  ASSUME TypeInv, NEW w \in Workers, Refuse(w)
  PROVE  UNCHANGED <<now, sessions, Issued>>
BY DEF Refuse, Issued, TypeInv, TypeOK

(* A session request that commits to a row it found changes that one only. *)
LEMMA ChangesItsRow ==
  ASSUME TypeInv, TokensInv, HeldInv, NEW w \in Workers,
         AtCommit(w), req[w].op # "login"
  PROVE  /\ req[w].user \in Users
         /\ sessions[req[w].user] = req[w].row
         /\ req[w].row \in Session /\ req[w].row # None
         /\ \A u \in Users : Holds(u, req[w].digest) <=> u = req[w].user
<1>1. /\ req[w].user \in Users /\ req[w].row \in Session /\ req[w].row # None
      /\ sessions[req[w].user] = req[w].row
      /\ req[w].row.digest = req[w].digest
  BY Found DEF HeldInv
<1> QED
  BY <1>1, OnlyItsRow DEF Holds

LEMMA PortStep ==
  ASSUME TypeInv, TokensInv, HeldInv, ClockInv, [Next]_vars
  PROVE  [Port!Next]_(Port!vars)
<1> DEFINE Unseen == UNCHANGED <<now, sessions, Issued>>
<1>1. Unseen => [Port!Next]_(Port!vars)
  BY DEF Port!vars
<1>2. ASSUME NEW w \in Workers, Refuse(w) PROVE Unseen
  BY <1>2, RefuseIssuesNothing
<1>3. ASSUME UNCHANGED <<now, tables, tokens>> PROVE Unseen
  BY <1>3 DEF Issued, tables
<1>4. ASSUME NEW w \in Workers, CommitLogin(w) PROVE Port!Next
  <2> DEFINE u == req[w].user
             d == req[w].digest
             t == req[w].at
  <2>1. req[w].op = "login" /\ u \in Users /\ d \in Digests /\ t \in Nat
    BY <1>4, Found, Records DEF CommitLogin, AtCommit, Request
  <2>2. t \in 0..now
    BY <2>1 DEF ClockInv, TypeInv, TypeOK
  <2>3. tokens[d] = "pending"
    BY <2>1 DEF TokensInv
  <2>4. d \notin Issued /\ Issued' = Issued \cup {d}
    BY <1>4, <2>1, <2>3 DEF CommitLogin, Issued, TypeInv, TypeOK
  <2>5. Port!Open(u, d, t)
    BY <1>4, <2>2, <2>4 DEF CommitLogin, Port!Open
  <2> QED
    BY <2>1, <2>2, <2>5 DEF Port!Next
<1>5. ASSUME NEW w \in Workers, CommitTouch(w) PROVE Port!Next
  <2> DEFINE u == req[w].user
             t == req[w].at
  <2>1. AtCommit(w) /\ req[w].op = "introspect"
    BY <1>5 DEF CommitTouch, AtCommit
  <2>2. /\ u \in Users /\ sessions[u] # None /\ sessions[u] \in Session
        /\ \A x \in Users : Holds(x, req[w].digest) <=> x = u
        /\ sessions[u] = req[w].row
    BY <2>1, ChangesItsRow
  <2>3. sessions[u].seen <= t /\ ~Expired(sessions[u], t) /\ t <= now
    BY <2>1, <2>2 DEF ClockInv, AtCommit
  <2>4. t \in Nat /\ now \in Nat /\ sessions[u].seen \in Nat /\ sessions[u].expires \in Nat
    BY <2>2, Records DEF Request, Session, TypeInv, TypeOK
  <2>5. t \in 0..now /\ t \in sessions[u].seen .. now
        /\ t < sessions[u].expires /\ t < sessions[u].seen + Idle
    BY <2>3, <2>4, ConstantsAssumption DEF Expired
  <2>6. sessions' = [sessions EXCEPT ![u].seen = t]
    BY <1>5, <2>2 DEF CommitTouch, TypeInv, TypeOK
  <2>7. UNCHANGED <<now, Issued>>
    BY <1>5 DEF CommitTouch, Issued
  <2>8. Port!Renew(u, t)
    BY <2>2, <2>5, <2>6, <2>7 DEF Port!Renew
  <2> QED
    BY <2>2, <2>5, <2>8 DEF Port!Next
<1>6. ASSUME NEW w \in Workers, CommitRemove(w) PROVE Port!Next
  <2> DEFINE u == req[w].user
  <2>1. AtCommit(w) /\ req[w].op = "logout"
    BY <1>6 DEF CommitRemove, AtCommit
  <2>2. /\ u \in Users /\ sessions[u] # None
        /\ \A x \in Users : Holds(x, req[w].digest) <=> x = u
    BY <2>1, ChangesItsRow
  <2>3. sessions' = [sessions EXCEPT ![u] = None]
    BY <1>6, <2>2 DEF CommitRemove, TypeInv, TypeOK
  <2>4. UNCHANGED <<now, Issued>>
    BY <1>6 DEF CommitRemove, Issued
  <2> QED
    BY <2>2, <2>3, <2>4 DEF Port!Close, Port!Next
<1>7. ASSUME Tick PROVE Port!Next
  BY <1>7 DEF Tick, tables, Issued, Port!Tick, Port!Next
<1>8. ASSUME NEW w \in Workers, InsertUser(w) \/ ReadOld(w) \/ Find(w) PROVE Unseen
  <2>1. Refuse(w) \/ UNCHANGED <<now, tables, tokens>>
    BY <1>8 DEF InsertUser, ReadOld, Find, FindSession
  <2> QED
    BY <1>2, <1>3, <2>1
<1>9. ASSUME NEW w \in Workers, LockUser(w) \/ Replace(w) PROVE Unseen
  BY <1>3, <1>9 DEF LockUser, Replace
<1>10. ASSUME NEW w \in Workers, NoSession(w) \/ Abort(w) PROVE Unseen
  BY <1>2, <1>10 DEF NoSession, Abort
<1>11. ASSUME NEW w \in Workers, CommitUser(w) PROVE Unseen
  BY <1>11 DEF CommitUser, Issued
<1>12. ASSUME NEW w \in Workers, NEW u \in Users, NEW p \in Passwords, Register(w, u, p)
       PROVE  Unseen
  BY <1>3, <1>12 DEF Register, Begin
<1>13. ASSUME NEW w \in Workers, NEW u \in Users, NEW p \in Passwords, NEW d \in Digests,
              Login(w, u, p, d)
       PROVE  Unseen
  BY <1>13 DEF Login, Begin, tables, Issued, TypeInv, TypeOK
<1>14. ASSUME NEW w \in Workers, NEW d \in Digests, Introspect(w, d) \/ Logout(w, d)
       PROVE  Unseen
  BY <1>3, <1>14 DEF Introspect, Logout, Present, Begin
<1>15. CASE UNCHANGED vars
  BY <1>1, <1>3, <1>15 DEF vars, tables
<1>16. ASSUME Next PROVE Port!Next \/ Unseen
  <2> HIDE DEF Unseen
  <2> QED
    BY <1>4, <1>5, <1>6, <1>7, <1>8, <1>9, <1>10, <1>11, <1>12, <1>13, <1>14, <1>16
       DEF Next, Continue
<1> HIDE DEF Unseen
<1> QED
  BY <1>1, <1>15, <1>16

(* Sessions over PostgreSQL keep the promises of the port. *)
THEOREM PortKept == Spec => ImplementsSessions
<1>1. Init => ClockInv
  BY DEF Init, ClockInv, NoRequest
<1>2. TypeInv /\ HeldInv /\ ClockInv /\ [Next]_vars => ClockInv'
  BY ClockStep
<1>3. Init => Port!Init
  BY DEF Init, Port!Init, Issued
<1>4. TypeInv /\ TokensInv /\ HeldInv /\ ClockInv /\ [Next]_vars => [Port!Next]_(Port!vars)
  BY PortStep
<1> QED
  BY <1>1, <1>2, <1>3, <1>4, HeldAlways, PTL DEF Spec, ImplementsSessions, Port!Spec
=============================================================================
