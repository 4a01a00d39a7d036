---------------------------- MODULE PostgresAuth -----------------------------
(***************************************************************************)
(* AuthenticationService over PostgresUsers and PostgresSessions: accounts *)
(* with a unique email, and sessions as rows, at most one per user.  Here  *)
(* everything a request does is one READ COMMITTED transaction.  A step is *)
(* a query that may wait for a row lock or a unique index, or one whose    *)
(* answer is acted on later; writes become visible at commit.              *)
(***************************************************************************)
EXTENDS Naturals, Sequences

CONSTANTS
    Workers,   \* requests the API may be serving at the same time
    Users,     \* emails, normalised by the request schema
    Passwords,
    Digests,   \* bound: the token digests that are ever generated
    None,
    Idle, Absolute,
    MaxTime,   \* bound on the clock
    Faults     \* "abort": a request may fail at any await or its worker stop

Session == [digest: Digests, seen: Nat, expires: Nat]

ASSUME ConstantsAssumption ==
    /\ Idle \in Nat \ {0} /\ Absolute \in Nat \ {0} /\ MaxTime \in Nat
    /\ None \notin Workers \cup Users \cup Passwords \cup Digests
    /\ None \notin Session
    /\ Faults \subseteq {"abort"}

VARIABLES
    now,        \* the clock
    users,      \* the users table: the password behind each email, or None
    inserting,  \* who has inserted an email and not yet committed
    userLock,   \* who holds SELECT ... FOR UPDATE on the user's row
    sessions,   \* the sessions table: the row of each user, or None
    rowLock,    \* who holds a lock on that row
    tokens,     \* what became of each token: unused, pending, issued or lost
    registered, \* passwords of the registrations answered 200, per email
    revoked,    \* digests whose logout was answered 200
    req         \* the request each worker is serving

vars == <<now, users, inserting, userLock, sessions, rowLock, tokens,
          registered, revoked, req>>

locks == <<inserting, userLock, rowLock>>
tables == <<users, sessions>>

Steps == {"idle", "insert", "lock", "by_user", "replace", "by_digest", "commit"}

NoRequest ==
    [op |-> "none", pc |-> "idle", user |-> None, password |-> None,
     digest |-> None, at |-> 0, row |-> None]

-----------------------------------------------------------------------------
(* AuthenticationService.expired *)
Expired(s, t) == t >= s.expires \/ t >= s.seen + Idle

Goto(w, pc) == req' = [req EXCEPT ![w].pc = pc]

Free(lock, w) == [u \in Users |-> IF lock[u] = w THEN None ELSE lock[u]]

(* Mutant: a request that fails keeps what it has locked. *)
LeaveLocked(w) ==
    /\ req' = [req EXCEPT ![w] = NoRequest]
    /\ UNCHANGED locks

(* The transaction ends, committed or rolled back, and every lock with it.  *)
Leave(w) ==
    /\ req' = [req EXCEPT ![w] = NoRequest]
    /\ inserting' = Free(inserting, w)
    /\ userLock' = Free(userLock, w)
    /\ rowLock' = Free(rowLock, w)

(* Rolled back and answered with an error.  A login that had not returned   *)
(* its token never will.                                                    *)
Refuse(w) ==
    /\ Leave(w)
    /\ tokens' = [d \in Digests |->
          IF d = req[w].digest /\ tokens[d] = "pending" THEN "lost" ELSE tokens[d]]
    /\ UNCHANGED <<now, users, sessions, registered, revoked>>

Begin(w, r) ==
    /\ req[w].pc = "idle"
    /\ req' = [req EXCEPT ![w] = r]
    /\ UNCHANGED <<now, locks, tables, registered, revoked>>

-----------------------------------------------------------------------------
(* register.  The password is hashed before the transaction opens. *)

Register(w, u, p) ==
    /\ Begin(w, [NoRequest EXCEPT !.op = "register", !.pc = "insert",
                                  !.user = u, !.password = p])
    /\ UNCHANGED tokens

(* Mutant: the email is looked up first and has no unique index. *)
InsertUnindexed(w) ==
    LET u == req[w].user IN
    /\ req[w].pc = "insert"
    /\ \/ /\ users[u] = None
          /\ Goto(w, "commit")
          /\ UNCHANGED <<now, locks, tables, tokens, registered, revoked>>
       \/ /\ users[u] # None
          /\ Refuse(w)

(* INSERT waits at the unique index while somebody else's insert of the     *)
(* same email is neither committed nor rolled back.                         *)
InsertUser(w) ==
    LET u == req[w].user IN
    /\ req[w].pc = "insert"
    /\ inserting[u] = None
    /\ \/ /\ users[u] = None
          /\ inserting' = [inserting EXCEPT ![u] = w]
          /\ Goto(w, "commit")
          /\ UNCHANGED <<now, userLock, rowLock, tables, tokens, registered, revoked>>
       \/ /\ users[u] # None
          /\ Refuse(w)                                \* user_already_exists

CommitUser(w) ==
    LET r == req[w] IN
    /\ r.pc = "commit"
    /\ r.op = "register"
    /\ users' = [users EXCEPT ![r.user] = r.password]
    /\ registered' = [registered EXCEPT ![r.user] = Append(@, r.password)]
    /\ Leave(w)
    /\ UNCHANGED <<now, sessions, tokens, revoked>>

-----------------------------------------------------------------------------
(* login.  An unknown email or a wrong password is answered before anything *)
(* changes.                                                                 *)

(* verify_password: a hash stands for the password it was made from. *)
Verified(u, p) == users[u] # None /\ users[u] = p

Login(w, u, p, d) ==
    /\ Verified(u, p)
    /\ tokens[d] = "unused"
    /\ Begin(w, [NoRequest EXCEPT !.op = "login", !.pc = "lock",
                                  !.user = u, !.digest = d])
    /\ tokens' = [tokens EXCEPT ![d] = "pending"]

(* Mutant: users.lock reads the row without FOR UPDATE. *)
LockNobody(w) ==
    /\ req[w].pc = "lock"
    /\ req' = [req EXCEPT ![w].at = now, ![w].pc = "by_user"]
    /\ UNCHANGED <<now, locks, tables, tokens, registered, revoked>>

(* The clock is read as soon as the lock is granted. *)
LockUser(w) ==
    /\ req[w].pc = "lock"
    /\ userLock[req[w].user] = None
    /\ userLock' = [userLock EXCEPT ![req[w].user] = w]
    /\ req' = [req EXCEPT ![w].at = now, ![w].pc = "by_user"]
    /\ UNCHANGED <<now, inserting, rowLock, tables, tokens, registered, revoked>>

(* by_user reads the row without a lock. *)
ReadOld(w) ==
    LET old == sessions[req[w].user]
        active == old # None /\ ~Expired(old, req[w].at)
    IN
    /\ req[w].pc = "by_user"
    /\ \/ /\ ~active
          /\ Goto(w, "replace")
          /\ UNCHANGED <<now, locks, tables, tokens, registered, revoked>>
       \/ /\ active
          /\ Refuse(w)                                \* active_session_exists

(* replace: DELETE by user waits for whoever holds the row, and takes it as *)
(* it then is; the INSERT is kept out of sight until the commit.            *)
Replace(w) ==
    LET u == req[w].user IN
    /\ req[w].pc = "replace"
    /\ \/ /\ sessions[u] = None
          /\ UNCHANGED rowLock
       \/ /\ sessions[u] # None
          /\ rowLock[u] = None
          /\ rowLock' = [rowLock EXCEPT ![u] = w]
    /\ req' = [req EXCEPT ![w].row = sessions[u], ![w].pc = "commit"]
    /\ UNCHANGED <<now, inserting, userLock, tables, tokens, registered, revoked>>

(* Mutant: the session is stored without its absolute limit. *)
CommitLoginForever(w) ==
    LET r == req[w] IN
    /\ r.pc = "commit"
    /\ r.op = "login"
    /\ sessions' = [sessions EXCEPT ![r.user] =
                       [digest |-> r.digest, seen |-> r.at, expires |-> None]]
    /\ tokens' = [tokens EXCEPT ![r.digest] = "issued"]
    /\ Leave(w)
    /\ UNCHANGED <<now, users, registered, revoked>>

CommitLogin(w) ==
    LET r == req[w] IN
    /\ r.pc = "commit"
    /\ r.op = "login"
    /\ sessions' = [sessions EXCEPT ![r.user] =
                       [digest |-> r.digest, seen |-> r.at, expires |-> r.at + Absolute]]
    /\ tokens' = [tokens EXCEPT ![r.digest] = "issued"]
    /\ Leave(w)
    /\ UNCHANGED <<now, users, registered, revoked>>

-----------------------------------------------------------------------------
(* introspect and logout lock the row of the token they were given. *)

Present(w, op, d) ==
    /\ tokens[d] = "issued"
    /\ Begin(w, [NoRequest EXCEPT !.op = op, !.pc = "by_digest", !.digest = d])
    /\ UNCHANGED tokens

Introspect(w, d) == Present(w, "introspect", d)
Logout(w, d) == Present(w, "logout", d)

Holds(u, d) == sessions[u] # None /\ sessions[u].digest = d

(* Mutant: by_digest without select_for_update. *)
FindUnlocked(w, u) ==
    LET r == req[w] IN
    /\ r.pc = "by_digest"
    /\ Holds(u, r.digest)
    /\ \/ /\ r.op = "logout" \/ ~Expired(sessions[u], now)
          /\ req' = [req EXCEPT ![w].user = u, ![w].row = sessions[u],
                                ![w].at = now, ![w].pc = "commit"]
          /\ UNCHANGED <<now, locks, tables, tokens, registered, revoked>>
       \/ /\ r.op = "introspect" /\ Expired(sessions[u], now)
          /\ Refuse(w)

FindSession(w, u) ==
    LET r == req[w] IN
    /\ r.pc = "by_digest"
    /\ Holds(u, r.digest)
    /\ rowLock[u] = None
    /\ \/ /\ r.op = "logout" \/ ~Expired(sessions[u], now)
          /\ rowLock' = [rowLock EXCEPT ![u] = w]
          /\ req' = [req EXCEPT ![w].user = u, ![w].row = sessions[u],
                                ![w].at = now, ![w].pc = "commit"]
          /\ UNCHANGED <<now, inserting, userLock, tables, tokens, registered, revoked>>
       \/ /\ r.op = "introspect" /\ Expired(sessions[u], now)
          /\ Refuse(w)                                \* session_expired

NoSession(w) ==
    /\ req[w].pc = "by_digest"
    /\ \A u \in Users : ~Holds(u, req[w].digest)
    /\ Refuse(w)                                      \* invalid_session

(* touch: UPDATE by digest. *)
CommitTouch(w) ==
    LET r == req[w] IN
    /\ r.pc = "commit"
    /\ r.op = "introspect"
    /\ sessions' = [u \in Users |->
          IF Holds(u, r.digest) THEN [sessions[u] EXCEPT !.seen = r.at] ELSE sessions[u]]
    /\ Leave(w)
    /\ UNCHANGED <<now, users, tokens, registered, revoked>>

(* remove: DELETE by digest. *)
CommitRemove(w) ==
    LET r == req[w] IN
    /\ r.pc = "commit"
    /\ r.op = "logout"
    /\ sessions' = [u \in Users |-> IF Holds(u, r.digest) THEN None ELSE sessions[u]]
    /\ revoked' = revoked \cup {r.digest}
    /\ Leave(w)
    /\ UNCHANGED <<now, users, tokens, registered>>

-----------------------------------------------------------------------------
Abort(w) ==
    /\ "abort" \in Faults
    /\ req[w].pc # "idle"
    /\ Refuse(w)

Tick ==
    /\ now < MaxTime
    /\ now' = now + 1
    /\ UNCHANGED <<locks, tables, tokens, registered, revoked, req>>

Init ==
    /\ now = 0
    /\ users = [u \in Users |-> None]
    /\ inserting = [u \in Users |-> None]
    /\ userLock = [u \in Users |-> None]
    /\ sessions = [u \in Users |-> None]
    /\ rowLock = [u \in Users |-> None]
    /\ tokens = [d \in Digests |-> "unused"]
    /\ registered = [u \in Users |-> <<>>]
    /\ revoked = {}
    /\ req = [w \in Workers |-> NoRequest]

Find(w) == \E u \in Users : FindSession(w, u)

Continue(w) ==
    \/ InsertUser(w) \/ CommitUser(w)
    \/ LockUser(w) \/ ReadOld(w) \/ Replace(w) \/ CommitLogin(w)
    \/ Find(w) \/ NoSession(w) \/ CommitTouch(w) \/ CommitRemove(w)

Next ==
    \/ \E w \in Workers : Continue(w) \/ Abort(w)
    \/ \E w \in Workers, u \in Users, p \in Passwords :
          \/ Register(w, u, p)
          \/ \E d \in Digests : Login(w, u, p, d)
    \/ \E w \in Workers, d \in Digests : Introspect(w, d) \/ Logout(w, d)
    \/ Tick

Spec == Init /\ [][Next]_vars

(* A coroutine is resumed when its reply arrives, and PostgreSQL serves     *)
(* those who wait for a row or an index entry in their order.               *)
Fairness ==
    \A w \in Workers :
        /\ WF_vars(Continue(w))
        /\ SF_vars(InsertUser(w)) /\ SF_vars(LockUser(w))
        /\ SF_vars(Replace(w)) /\ SF_vars(Find(w))

FairSpec == Spec /\ Fairness

-----------------------------------------------------------------------------
(* Properties. *)

(* The tokens that were handed out, for the Sessions specification. *)
Issued == {d \in Digests : tokens[d] = "issued"}

Port == INSTANCE Sessions WITH issued <- Issued

Request ==
    [op: {"none", "register", "login", "introspect", "logout"}, pc: Steps,
     user: Users \cup {None}, password: Passwords \cup {None},
     digest: Digests \cup {None}, at: Nat, row: Session \cup {None}]

(* Every variable holds values of its kind. *)
TypeOK ==
    /\ now \in Nat
    /\ users \in [Users -> Passwords \cup {None}]
    /\ inserting \in [Users -> Workers \cup {None}]
    /\ userLock \in [Users -> Workers \cup {None}]
    /\ sessions \in [Users -> Session \cup {None}]
    /\ rowLock \in [Users -> Workers \cup {None}]
    /\ tokens \in [Digests -> {"unused", "pending", "issued", "lost"}]
    /\ registered \in [Users -> Seq(Passwords)]
    /\ revoked \subseteq Digests
    /\ req \in [Workers -> Request]

(* When a session request commits, the user's row is still what the request *)
(* found: the login's INSERT meets no row but the one its DELETE took, and  *)
(* nobody has changed or removed the session an introspection or a logout   *)
(* has judged.                                                              *)
JudgedRowStays ==
    \A w \in Workers :
        (req[w].op \in {"login", "introspect", "logout"} /\ req[w].pc = "commit")
            => sessions[req[w].user] = req[w].row

(* Once a logout has been answered 200, the session is gone, and no request *)
(* that took it for valid is still running and could be answered 200 later. *)
RevokedIsOver ==
    \A d \in revoked :
        /\ \A u \in Users : ~Holds(u, d)
        /\ \A w \in Workers : req[w].digest = d => req[w].pc # "commit"

(* Of several registrations of one email, one is answered 200, and the      *)
(* account has that one's password.                                         *)
OneRegistrationWins ==
    \A u \in Users :
        registered[u] = IF users[u] = None THEN <<>> ELSE <<users[u]>>

(* Seen from outside, PostgresSessions keeps the promises of the port: a    *)
(* session is renewed only by a request that found it alive, never to an    *)
(* earlier moment although introspections overlap and commit in any order,  *)
(* its absolute limit never moves, and one that was replaced or removed     *)
(* does not come back.                                                      *)
ImplementsSessions == Port!Spec

(* No circle of waits: the row of a user, the row of a session and the      *)
(* index of the emails are always taken in one order.  Whoever waits, waits *)
(* for a request that waits for nobody, or for a login that waits for one   *)
(* such request with its user's row already locked.                         *)
WaitsFor(w, v) ==
    LET r == req[w] IN
    \/ r.pc = "insert" /\ inserting[r.user] = v
    \/ r.pc = "lock" /\ userLock[r.user] = v
    \/ r.pc = "replace" /\ sessions[r.user] # None /\ rowLock[r.user] = v
    \/ r.pc = "by_digest" /\ \E u \in Users : Holds(u, r.digest) /\ rowLock[u] = v
Runs(w) == req[w].pc # "idle" /\ \A v \in Workers : ~WaitsFor(w, v)
NoDeadlock ==
    \A w, v \in Workers : WaitsFor(w, v) =>
        Runs(v) \/ \E x \in Workers : WaitsFor(v, x) /\ Runs(x)

(* Every request is answered: locks and index entries are always given      *)
(* back, and a login that holds its user's row never waits in a circle.     *)
EveryRequestAnswered ==
    \A w \in Workers : req[w].pc # "idle" ~> req[w].pc = "idle"
=============================================================================
