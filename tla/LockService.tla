----------------------------- MODULE LockService -----------------------------
(***************************************************************************)
(* The lock service of the platform (runtime/src/iep/locks.js): one row    *)
(* per resource, holding the token of the acquisition and the instant at   *)
(* which the hold lapses.  An instant is represented by the time left to   *)
(* it, so that "expiresAt <= now" reads left = 0 and the passage of time   *)
(* is the operator Elapse.  Rows whose time is up stay in the Map until    *)
(* some caller purges it.  renew() has no caller and is left out.          *)
(***************************************************************************)
EXTENDS Naturals

CONSTANTS
    Resources,  \* the names that are locked
    Tokens,     \* tokens, fresh among those still in some caller's hands
    NoToken,    \* token field of a resource with no row
    TTL         \* units of time an acquisition lasts, at least one

VARIABLE locks

Unlocked == [token |-> NoToken, left |-> 0]

LockRow == [token : Tokens \cup {NoToken}, left : 0 .. TTL]

LockTypeOK == locks \in [Resources -> LockRow]

LockInit == locks = [r \in Resources |-> Unlocked]

Held(r) == locks[r].left > 0

\* #purge(): every lapsed row is deleted.
Purged == [r \in Resources |-> IF Held(r) THEN locks[r] ELSE Unlocked]

Acquire(r, t) ==
    /\ ~Held(r)
    /\ locks' = [Purged EXCEPT ![r] = [token |-> t, left |-> TTL]]

\* acquire() on a resource that another caller holds: only the purge remains.
Refuse(r) ==
    /\ Held(r)
    /\ locks' = Purged

\* Mutant: release() does not compare tokens.
ReleaseAny(r, t) == locks' = [locks EXCEPT ![r] = Unlocked]

\* A token that no longer names the row releases nothing.
Release(r, t) ==
    locks' = IF locks[r].token = t THEN [locks EXCEPT ![r] = Unlocked] ELSE locks

Elapse ==
    locks' = [r \in Resources |->
                [token |-> locks[r].token,
                 left |-> IF Held(r) THEN locks[r].left - 1 ELSE 0]]

=============================================================================
