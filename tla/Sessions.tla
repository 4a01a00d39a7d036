------------------------------ MODULE Sessions -------------------------------
(***************************************************************************)
(* What AuthenticationService promises of sessions, whatever adapter keeps *)
(* them: at most one per user, opened under a token nobody had before,     *)
(* renewed only while neither limit has passed and never to an earlier     *)
(* moment, and never back once it is gone.                                 *)
(***************************************************************************)
EXTENDS Naturals

CONSTANTS Users, Digests, None, Idle, Absolute

VARIABLES
    now,       \* the clock
    sessions,  \* the active session of each user, or None
    issued     \* the digests of every token handed out so far

vars == <<now, sessions, issued>>

(* A login puts the new session in the place of whatever the user had.  Its *)
(* clock was read at some moment t of the request.                          *)
Open(u, d, t) ==
    /\ d \notin issued
    /\ t <= now
    /\ issued' = issued \cup {d}
    /\ sessions' = [sessions EXCEPT ![u] =
                       [digest |-> d, seen |-> t, expires |-> t + Absolute]]
    /\ UNCHANGED now

(* An introspection that read the clock at t. *)
Renew(u, t) ==
    /\ sessions[u] # None
    /\ t \in sessions[u].seen .. now
    /\ t < sessions[u].expires
    /\ t < sessions[u].seen + Idle
    /\ sessions' = [sessions EXCEPT ![u].seen = t]
    /\ UNCHANGED <<now, issued>>

Close(u) ==
    /\ sessions[u] # None
    /\ sessions' = [sessions EXCEPT ![u] = None]
    /\ UNCHANGED <<now, issued>>

Tick ==
    /\ now' = now + 1
    /\ UNCHANGED <<sessions, issued>>

Init ==
    /\ now = 0
    /\ sessions = [u \in Users |-> None]
    /\ issued = {}

Next ==
    \/ \E u \in Users, d \in Digests, t \in 0..now : Open(u, d, t)
    \/ \E u \in Users, t \in 0..now : Renew(u, t)
    \/ \E u \in Users : Close(u)
    \/ Tick

Spec == Init /\ [][Next]_vars
=============================================================================
