------------------------------ MODULE RedisAuth ------------------------------
(***************************************************************************)
(* AuthenticationService over the RedisSessions adapter: login, introspect *)
(* and logout requests, each advancing one Redis or PostgreSQL round trip  *)
(* per step, interleaved with one another, with the passing of time, with  *)
(* requests that fail half way and with Redis restarts.                    *)
(*                                                                         *)
(* A PostgreSQL transaction surrounds every request, but only two things   *)
(* in it are transactional: the lock on the user's row, which login alone  *)
(* takes, and the audit row.  What a request does to Redis stays done.     *)
(*                                                                         *)
(* A pipeline of redis-py is a MULTI/EXEC, so it is one step; a read that  *)
(* precedes it is another.                                                 *)
(***************************************************************************)
EXTENDS Naturals

CONSTANTS
    Workers,   \* requests the API may be serving at the same time
    Users,     \* registered users
    Digests,   \* digests of the tokens that can ever be generated
    None,      \* an absent key, lock or field
    Idle,      \* auth_session_idle_seconds, also the TTL of both keys
    Absolute,  \* auth_session_absolute_seconds
    MaxTime,   \* bound: the clock stops here
    Ops,       \* which of the three requests clients make
    Faults     \* "abort": a request may fail at any await; "restart": Redis may

(* A session hash and the entry of the user index, each with the moment its *)
(* TTL runs out.  A hash that holds only last_seen_at, as HSET on an absent *)
(* key leaves it, has no user: decoding it raises KeyError.                 *)
Hash == [user: Users \cup {None}, seen: Nat, expires: Nat, deadline: Nat]
IndexEntry == [digest: Digests, deadline: Nat]

ASSUME ConstantsAssumption ==
    /\ Idle \in Nat \ {0} /\ Absolute \in Nat \ {0} /\ MaxTime \in Nat
    /\ None \notin Workers \cup Users \cup Digests
    /\ None \notin Hash /\ None \notin IndexEntry
    /\ Ops \subseteq {"login", "introspect", "logout"}
    /\ Faults \subseteq {"abort", "restart"}

VARIABLES
    now,      \* the clock shared by the API and Redis
    session,  \* session:<digest>, a hash or None
    index,    \* user:<id>, the digest of the user's session or None
    rowLock,  \* who holds SELECT ... FOR UPDATE on the user's row
    tokens,   \* what became of each token: unused, pending, issued or lost
    revoked,  \* digests whose logout was answered 200
    req       \* the request each worker is serving

vars == <<now, session, index, rowLock, tokens, revoked, req>>

-----------------------------------------------------------------------------
Complete(h) == h # None /\ h.user # None
Partial(h) == h # None /\ h.user = None

(* AuthenticationService.expired *)
Expired(h, t) == t >= h.expires \/ t >= h.seen + Idle

LoginSteps == {"lock", "by_user", "check", "previous", "store"}
Steps == LoginSteps \cup {"idle", "touch", "renew", "remove", "unlink", "commit"}

NoRequest ==
    [op |-> "none", pc |-> "idle", user |-> None, digest |-> None,
     at |-> 0, prev |-> None]

(* Mutant: the row lock outlives the transaction that took it. *)
LeaveLocked(w) ==
    /\ req' = [req EXCEPT ![w] = NoRequest]
    /\ UNCHANGED rowLock

(* The worker leaves its transaction, committed or rolled back: the row     *)
(* lock goes either way.                                                    *)
Leave(w) ==
    /\ req' = [req EXCEPT ![w] = NoRequest]
    /\ rowLock' = [u \in Users |-> IF rowLock[u] = w THEN None ELSE rowLock[u]]

(* The request is answered with an error.  A login that had not returned    *)
(* its token never will.                                                    *)
Refuse(w) ==
    /\ Leave(w)
    /\ tokens' = [tokens EXCEPT ![req[w].digest] =
                     IF @ = "pending" THEN "lost" ELSE @]
    /\ UNCHANGED <<now, session, index, revoked>>

Goto(w, pc) == req' = [req EXCEPT ![w].pc = pc]

-----------------------------------------------------------------------------
(* login.  The token is generated before the transaction opens.  Unknown    *)
(* users and wrong passwords are answered before anything changes.          *)

StartLogin(w, u, d) ==
    /\ "login" \in Ops
    /\ req[w].pc = "idle"
    /\ tokens[d] = "unused"
    /\ tokens' = [tokens EXCEPT ![d] = "pending"]
    /\ req' = [req EXCEPT ![w] = [op |-> "login", pc |-> "lock", user |-> u,
                                  digest |-> d, at |-> 0, prev |-> None]]
    /\ UNCHANGED <<now, session, index, rowLock, revoked>>

(* Mutant: users.lock reads the row without FOR UPDATE. *)
LockNobody(w) ==
    /\ req[w].pc = "lock"
    /\ req' = [req EXCEPT ![w].at = now, ![w].pc = "by_user"]
    /\ UNCHANGED <<now, session, index, rowLock, tokens, revoked>>

(* The clock is read as soon as the lock is granted. *)
LockUser(w) ==
    /\ req[w].pc = "lock"
    /\ rowLock[req[w].user] = None
    /\ rowLock' = [rowLock EXCEPT ![req[w].user] = w]
    /\ req' = [req EXCEPT ![w].at = now, ![w].pc = "by_user"]
    /\ UNCHANGED <<now, session, index, tokens, revoked>>

(* by_user: GET user:<id>. *)
ReadIndex(w) ==
    LET entry == index[req[w].user] IN
    /\ req[w].pc = "by_user"
    /\ req' = [req EXCEPT ![w].prev = IF entry = None THEN None ELSE entry.digest,
                          ![w].pc = IF entry = None THEN "previous" ELSE "check"]
    /\ UNCHANGED <<now, session, index, rowLock, tokens, revoked>>

(* HGETALL of the digest found, and the test for an active session. *)
CheckOld(w) ==
    LET old == session[req[w].prev] IN
    /\ req[w].pc = "check"
    /\ \/ /\ old = None \/ (Complete(old) /\ Expired(old, req[w].at))
          /\ Goto(w, "previous")
          /\ UNCHANGED <<now, session, index, rowLock, tokens, revoked>>
       \/ /\ Complete(old) /\ ~Expired(old, req[w].at)
          /\ Refuse(w)                                \* active_session_exists
       \/ /\ Partial(old)
          /\ Refuse(w)                                \* KeyError, answered 500

(* Mutant: the index entry is taken for the digest it holds. *)
ReadPreviousEntry(w) ==
    /\ req[w].pc = "previous"
    /\ req' = [req EXCEPT ![w].pc = "store", ![w].prev = index[req[w].user]]
    /\ UNCHANGED <<now, session, index, rowLock, tokens, revoked>>

(* replace: GET user:<id> once more, then the pipeline. *)
ReadPrevious(w) ==
    /\ req[w].pc = "previous"
    /\ req' = [req EXCEPT ![w].pc = "store",
                          ![w].prev = IF index[req[w].user] = None THEN None
                                      ELSE index[req[w].user].digest]
    /\ UNCHANGED <<now, session, index, rowLock, tokens, revoked>>

(* Mutant: the keys are given the absolute limit as their TTL. *)
StoreAbsolute(w) ==
    LET r == req[w]
        deadline == now + Absolute
    IN
    /\ r.pc = "store"
    /\ session' = [session EXCEPT ![r.digest] =
                      [user |-> r.user, seen |-> r.at,
                       expires |-> r.at + Absolute, deadline |-> deadline]]
    /\ index' = [index EXCEPT ![r.user] = [digest |-> r.digest, deadline |-> deadline]]
    /\ Goto(w, "commit")
    /\ UNCHANGED <<now, rowLock, tokens, revoked>>

Store(w) ==
    LET r == req[w] IN
    /\ r.pc = "store"
    /\ session' = [d \in Digests |->
         CASE d = r.digest -> [user |-> r.user, seen |-> r.at,
                               expires |-> r.at + Absolute,
                               deadline |-> now + Idle]
           [] d # r.digest /\ d = r.prev -> None
           [] OTHER -> session[d]]
    /\ index' = [index EXCEPT ![r.user] =
                    [digest |-> r.digest, deadline |-> now + Idle]]
    /\ Goto(w, "commit")
    /\ UNCHANGED <<now, rowLock, tokens, revoked>>

-----------------------------------------------------------------------------
(* introspect and logout both begin with by_digest on a token some client   *)
(* was given.                                                               *)

Present(w, op, d) ==
    /\ op \in Ops
    /\ req[w].pc = "idle"
    /\ tokens[d] = "issued"

Begin(w, op, d, at, pc) ==
    /\ req' = [req EXCEPT ![w] = [op |-> op, pc |-> pc, user |-> None,
                                  digest |-> d, at |-> at, prev |-> None]]
    /\ UNCHANGED <<now, session, index, rowLock, tokens, revoked>>

(* An absent, expired or undecodable session is refused and changes nothing.*)
Introspect(w, d) ==
    /\ Present(w, "introspect", d)
    /\ Complete(session[d])
    /\ ~Expired(session[d], now)
    /\ Begin(w, "introspect", d, now, "touch")

Logout(w, d) ==
    /\ Present(w, "logout", d)
    /\ Complete(session[d])
    /\ Begin(w, "logout", d, 0, "remove")

(* touch and remove read the session a second time to learn its owner; when *)
(* it is gone they return quietly and the request goes on to succeed.       *)
Reread(w, pc, next) ==
    LET h == session[req[w].digest] IN
    /\ req[w].pc = pc
    /\ \/ /\ Complete(h)
          /\ req' = [req EXCEPT ![w].user = h.user, ![w].pc = next]
          /\ UNCHANGED <<now, session, index, rowLock, tokens, revoked>>
       \/ /\ h = None
          /\ Goto(w, "commit")
          /\ UNCHANGED <<now, session, index, rowLock, tokens, revoked>>
       \/ /\ Partial(h)
          /\ Refuse(w)                                \* KeyError, answered 500

Touch(w) == Reread(w, "touch", "renew")
Remove(w) == Reread(w, "remove", "unlink")

(* Mutant: a touch moves the absolute limit along. *)
RenewedWithLimit(h, at) ==
    IF h = None
      THEN [user |-> None, seen |-> at, expires |-> 0, deadline |-> now + Idle]
      ELSE [h EXCEPT !.seen = at, !.expires = at + Absolute, !.deadline = now + Idle]

(* HSET creates the hash when it is absent; EXPIRE needs a key to exist. *)
Renewed(h, at) ==
    IF h = None
      THEN [user |-> None, seen |-> at, expires |-> 0, deadline |-> now + Idle]
      ELSE [h EXCEPT !.seen = at, !.deadline = now + Idle]

(* Mutant: touch does not extend the user key. *)
RenewSessionOnly(w) ==
    LET r == req[w] IN
    /\ r.pc = "renew"
    /\ session' = [session EXCEPT ![r.digest] = Renewed(@, r.at)]
    /\ Goto(w, "commit")
    /\ UNCHANGED <<now, index, rowLock, tokens, revoked>>

(* Mutant: touch writes the whole hash back, as replace does. *)
RenewWhole(w) ==
    LET r == req[w] IN
    /\ r.pc = "renew"
    /\ session' = [session EXCEPT ![r.digest] =
                      [user |-> r.user, seen |-> r.at,
                       expires |-> r.at + Absolute, deadline |-> now + Idle]]
    /\ Goto(w, "commit")
    /\ UNCHANGED <<now, index, rowLock, tokens, revoked>>

Renew(w) ==
    LET r == req[w] IN
    /\ r.pc = "renew"
    /\ session' = [session EXCEPT ![r.digest] = Renewed(@, r.at)]
    /\ index' = [index EXCEPT ![r.user] =
                    IF @ = None THEN None ELSE [@ EXCEPT !.deadline = now + Idle]]
    /\ Goto(w, "commit")
    /\ UNCHANGED <<now, rowLock, tokens, revoked>>

(* Mutant: only the index is deleted. *)
UnlinkIndexOnly(w) ==
    /\ req[w].pc = "unlink"
    /\ index' = [index EXCEPT ![req[w].user] = None]
    /\ Goto(w, "commit")
    /\ UNCHANGED <<now, session, rowLock, tokens, revoked>>

Unlink(w) ==
    LET r == req[w] IN
    /\ r.pc = "unlink"
    /\ session' = [session EXCEPT ![r.digest] = None]
    /\ index' = [index EXCEPT ![r.user] = None]
    /\ Goto(w, "commit")
    /\ UNCHANGED <<now, rowLock, tokens, revoked>>

-----------------------------------------------------------------------------
(* The audit row is inserted, the transaction commits, the client is        *)
(* answered 200.                                                            *)
Commit(w) ==
    LET r == req[w] IN
    /\ r.pc = "commit"
    /\ Leave(w)
    /\ tokens' = IF r.op = "login" THEN [tokens EXCEPT ![r.digest] = "issued"]
                 ELSE tokens
    /\ revoked' = IF r.op = "logout" THEN revoked \cup {r.digest} ELSE revoked
    /\ UNCHANGED <<now, session, index>>

(* Redis, PostgreSQL or the audit insert fails at an await, or the worker   *)
(* stops: PostgreSQL rolls back, Redis does not.  The coroutine ends with   *)
(* its transaction; a connection that dies while the coroutine goes on to   *)
(* Redis, so that the user's row is unlocked under a login that still       *)
(* writes, is outside this fault model.                                     *)
Abort(w) ==
    /\ "abort" \in Faults
    /\ req[w].pc # "idle"
    /\ Refuse(w)

(* Redis drops every key whose TTL has run out. *)
Tick ==
    /\ now < MaxTime
    /\ now' = now + 1
    /\ session' = [d \in Digests |->
         IF session[d] # None /\ session[d].deadline > now + 1
           THEN session[d] ELSE None]
    /\ index' = [u \in Users |->
         IF index[u] # None /\ index[u].deadline > now + 1
           THEN index[u] ELSE None]
    /\ UNCHANGED <<rowLock, tokens, revoked, req>>

(* --appendonly no --save "": nothing survives. *)
Restart ==
    /\ "restart" \in Faults
    /\ session' = [d \in Digests |-> None]
    /\ index' = [u \in Users |-> None]
    /\ UNCHANGED <<now, rowLock, tokens, revoked, req>>

-----------------------------------------------------------------------------
Init ==
    /\ now = 0
    /\ session = [d \in Digests |-> None]
    /\ index = [u \in Users |-> None]
    /\ rowLock = [u \in Users |-> None]
    /\ tokens = [d \in Digests |-> "unused"]
    /\ revoked = {}
    /\ req = [w \in Workers |-> NoRequest]

Continue(w) ==
    \/ LockUser(w) \/ ReadIndex(w) \/ CheckOld(w) \/ ReadPrevious(w) \/ Store(w)
    \/ Touch(w) \/ Renew(w)
    \/ Remove(w) \/ Unlink(w)
    \/ Commit(w)

Next ==
    \/ \E w \in Workers : Continue(w) \/ Abort(w)
    \/ \E w \in Workers, u \in Users, d \in Digests : StartLogin(w, u, d)
    \/ \E w \in Workers, d \in Digests : Introspect(w, d) \/ Logout(w, d)
    \/ Tick
    \/ Restart

Spec == Init /\ [][Next]_vars

(* A worker's coroutine is resumed when its reply arrives, and PostgreSQL   *)
(* grants a row lock in the order it was asked for.  Clients, faults and    *)
(* the clock owe nothing.                                                   *)
Fairness == \A w \in Workers : WF_vars(Continue(w)) /\ SF_vars(LockUser(w))

FairSpec == Spec /\ Fairness

-----------------------------------------------------------------------------
(* Properties. *)

Request ==
    [op: {"none", "login", "introspect", "logout"}, pc: Steps,
     user: Users \cup {None}, digest: Digests \cup {None}, at: Nat,
     prev: Digests \cup {None}]

(* Every variable holds values of its kind. *)
TypeOK ==
    /\ now \in Nat
    /\ session \in [Digests -> Hash \cup {None}]
    /\ index \in [Users -> IndexEntry \cup {None}]
    /\ rowLock \in [Users -> Workers \cup {None}]
    /\ tokens \in [Digests -> {"unused", "pending", "issued", "lost"}]
    /\ revoked \subseteq Digests
    /\ req \in [Workers -> Request]

(* Only the login that generated a token ever creates its session: what a   *)
(* logout, an eviction, an expiry or a restart removed stays removed, even  *)
(* when a touch that read it before writes it back afterwards.              *)
NotRevived(d) ==
    (~Complete(session[d]) /\ Complete(session'[d])) => tokens[d] = "pending"
NoSessionIsRevived == [][\A d \in Digests : NotRevived(d)]_vars

(* Once a logout has been answered 200, no request can find that session    *)
(* again: a touch that read it before the logout and writes after it may    *)
(* leave a hash behind, but never one that decodes to a session.            *)
RevokedStaysRevoked == \A d \in revoked : ~Complete(session[d])

(* The previous session replace() reads before its pipeline is still the    *)
(* one the index names when the pipeline runs, unless the index is gone:    *)
(* the row lock keeps every other login of that user out in between.        *)
PreviousStillCurrent ==
    \A w \in Workers :
        req[w].pc = "store" =>
            LET entry == index[req[w].user] IN
            entry # None => entry.digest = req[w].prev

(* Nothing accumulates in Redis: whatever is stored, by whatever            *)
(* interleaving, is gone after at most one idle window without requests.    *)
KeysExpire ==
    /\ \A d \in Digests : session[d] # None =>
          now < session[d].deadline /\ session[d].deadline <= now + Idle
    /\ \A u \in Users : index[u] # None =>
          now < index[u].deadline /\ index[u].deadline <= now + Idle

(* The sessions that decode, and the digests whose login may still store    *)
(* one.                                                                     *)
sessions == [d \in Digests |-> IF Complete(session[d]) THEN session[d] ELSE None]
fresh ==
    {d \in Digests :
        \/ tokens[d] = "unused"
        \/ \E w \in Workers : /\ req[w].op = "login" /\ req[w].pc \in LoginSteps
                              /\ req[w].digest = d}
Life == INSTANCE TokenLife

(* Whatever requests, failures, expiries and restarts come between the      *)
(* round trips of a request, each token has one life: its session is opened *)
(* by its own login, keeps its owner and its absolute limit, ends by a      *)
(* logout, a later login, a restart or one idle window after its last       *)
(* write and not before, and stays gone.                                    *)
ImplementsTokenLife == Life!Spec

(* One active session per user: two digests that both decode to a session   *)
(* of the same user are the same digest.                                    *)
OneActiveSession ==
    \A d, e \in Digests :
        (Complete(session[d]) /\ Complete(session[e])
           /\ session[d].user = session[e].user) => d = e

(* session:<digest> always holds "the session and its owner", so whatever   *)
(* by_digest finds, it can decode.                                          *)
SessionHashComplete == \A d \in Digests : ~Partial(session[d])

(* A login that was answered with an error leaves no session behind. *)
FailedLoginLeavesNoSession ==
    \A d \in Digests : tokens[d] = "lost" => session[d] = None

(* Every request is answered: a login that waits for the row of its user    *)
(* gets it, whichever way the logins before it ended.                       *)
EveryRequestAnswered ==
    \A w \in Workers : req[w].pc # "idle" ~> req[w].pc = "idle"
=============================================================================
