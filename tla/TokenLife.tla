----------------------------- MODULE TokenLife -------------------------------
(***************************************************************************)
(* What becomes of a token, as RedisSessions promises it: the session of a *)
(* token is opened once at most, by the login that generated the token,    *)
(* keeps the owner and the absolute limit it was opened with, lasts until  *)
(* one idle window after it was last written, and never comes back.  That  *)
(* a user has only one is not promised: see Sessions for that.             *)
(***************************************************************************)
EXTENDS Naturals

CONSTANTS Users, Digests, None, Idle, Absolute

VARIABLES
    now,       \* the clock
    sessions,  \* the session that each token's digest stands for, or None
    fresh      \* digests under which a session may still be opened

vars == <<now, sessions, fresh>>

(* A login whose clock was read at t, which ends the session p of its user. *)
Open(d, u, t, p) ==
    /\ d \in fresh
    /\ fresh' = fresh \ {d}
    /\ t <= now
    /\ sessions[p] # None => sessions[p].user = u
    /\ sessions' =
          [sessions EXCEPT ![p] = None,
                           ![d] = [user |-> u, seen |-> t, expires |-> t + Absolute,
                                   deadline |-> now + Idle]]
    /\ UNCHANGED now

(* A login that fails before it has stored anything. *)
Discard(d) ==
    /\ d \in fresh
    /\ fresh' = fresh \ {d}
    /\ UNCHANGED <<now, sessions>>

(* An introspection that read the clock at t, at a moment between the login *)
(* and the absolute limit.  Of two that overlap the later to write need not *)
(* be the later to have read.                                               *)
Renew(d, t) ==
    /\ sessions[d] # None
    /\ t <= now
    /\ t < sessions[d].expires
    /\ sessions[d].expires <= t + Absolute
    /\ sessions' = [sessions EXCEPT ![d].seen = t, ![d].deadline = now + Idle]
    /\ UNCHANGED <<now, fresh>>

Close(d) ==
    /\ sessions[d] # None
    /\ sessions' = [sessions EXCEPT ![d] = None]
    /\ UNCHANGED <<now, fresh>>

Tick ==
    /\ now' = now + 1
    /\ sessions' = [d \in Digests |->
          IF sessions[d] # None /\ sessions[d].deadline > now + 1
            THEN sessions[d] ELSE None]
    /\ UNCHANGED fresh

(* The store loses what it holds. *)
Lose ==
    /\ sessions' = [d \in Digests |-> None]
    /\ UNCHANGED <<now, fresh>>

Init ==
    /\ now = 0
    /\ sessions = [d \in Digests |-> None]
    /\ fresh = Digests

Next ==
    \/ \E d \in fresh :
          Discard(d) \/ \E u \in Users, t \in 0..now, p \in Digests : Open(d, u, t, p)
    \/ \E d \in Digests : Close(d) \/ \E t \in 0..now : Renew(d, t)
    \/ Tick
    \/ Lose

Spec == Init /\ [][Next]_vars
=============================================================================
