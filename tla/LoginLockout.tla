---------------------------- MODULE LoginLockout ----------------------------
(***************************************************************************)
(* AuthService.register and login on one email, and the failed attempts    *)
(* that RedisLoginAttemptStore keeps of it: a counter and a lock, each a   *)
(* key with a time to live, changed by single Redis commands.  A handler   *)
(* may stop at any command: a lost connection and a restart look alike.    *)
(***************************************************************************)
EXTENDS Naturals, FiniteSets

CONSTANTS
    Logins,
    Registrations,
    MaxFailedLogins, \* maxFailedLoginAttempts
    Lockout          \* lockoutSeconds, in ticks

ASSUME LockoutAssumption ==
    /\ IsFiniteSet(Logins)
    /\ MaxFailedLogins \in Nat \ {0}
    /\ Lockout \in Nat \ {0}

VARIABLES
    registered,  \* a row of users has the email
    counter,     \* auth:login:attempts:<email>
    lockTtl,     \* what is left of auth:login:locked:<email>, 0 if there is none
    login,       \* login -> where its handler is, and what INCR told it
    registration,\* registration -> where its handler is
    counted,     \* history: the logins in the counter, each with the ticks since its INCR
    guesses,     \* history: wrong guesses since the last expiry or success
    late,        \* history: a tick passed in the midst of a failure
    crossed,     \* history: a success cleared keys that a failure was about to write
    stopped      \* history: a handler stopped between two commands

lockoutVars == <<registered, counter, lockTtl, login, registration, counted, guesses, late, crossed, stopped>>
keyVars == <<counter, lockTtl, counted>>
lockoutHistory == <<late, crossed, stopped>>

\* A key to which EXPIRE was not applied.
Forever == Lockout + 1
NoCounter == [count |-> 0, ttl |-> 0]

Failing == {"incr", "expire", "lock", "drop"}
LoginPc == {"new", "find", "compare", "clearCounter", "clearLock", "ok", "locked", "invalid", "error"} \cup Failing

LockoutInit ==
    /\ registered \in BOOLEAN
    /\ counter = NoCounter
    /\ lockTtl = 0
    /\ login = [l \in Logins |-> [pc |-> "new", seen |-> 0]]
    /\ registration = [g \in Registrations |-> "new"]
    /\ counted = [l \in {} |-> 0]
    /\ guesses = {}
    /\ late = FALSE /\ crossed = FALSE /\ stopped = FALSE

Goto(l, pc) == login' = [login EXCEPT ![l].pc = pc]
-----------------------------------------------------------------------------
(* Registration. *)

\* findByEmail: the email is taken, or its password is hashed.
FindEmail(g) ==
    /\ registration[g] = "new"
    /\ registration' = [registration EXCEPT ![g] = IF registered THEN "taken" ELSE "hash"]
    /\ UNCHANGED <<registered, keyVars, login, guesses, lockoutHistory>>

\* The insert; the unique email refuses the second of two.
SaveUser(g) ==
    /\ registration[g] = "hash"
    /\ registered' = TRUE
    /\ registration' = [registration EXCEPT ![g] = IF registered THEN "refused" ELSE "created"]
    /\ UNCHANGED <<keyVars, login, guesses, lockoutHistory>>

(* Login. *)

\* isLoginLocked.
IsLoginLocked(l) ==
    /\ login[l].pc = "new"
    /\ Goto(l, IF lockTtl > 0 THEN "locked" ELSE "find")
    /\ UNCHANGED <<registered, keyVars, registration, guesses, lockoutHistory>>

\* An email that nobody registered fails like a wrong password.
FindUser(l) ==
    /\ login[l].pc = "find"
    /\ Goto(l, IF registered THEN "compare" ELSE "incr")
    /\ guesses' = IF registered THEN guesses ELSE guesses \cup {l}
    /\ UNCHANGED <<registered, keyVars, registration, lockoutHistory>>

\* bcrypt.compare.
ComparePassword(l) ==
    /\ login[l].pc = "compare"
    /\ \/ Goto(l, "clearCounter") /\ UNCHANGED guesses
       \/ Goto(l, "incr") /\ guesses' = guesses \cup {l}
    /\ UNCHANGED <<registered, keyVars, registration, lockoutHistory>>

\* Mutant of Verdict: one attempt more than the limit.
Verdict_Over(n) == IF n > MaxFailedLogins THEN "lock" ELSE "invalid"

\* The branch an INCR that returned n takes, once the key has its time to live.
Verdict(n) == IF n >= MaxFailedLogins THEN "lock" ELSE "invalid"

\* Mutant of FirstOf: each failure starts the time anew.
FirstOf_Any(n) == n >= 1

\* Does the counter get its time to live now?
FirstOf(n) == n = 1

\* INCR makes the key without a time to live, or leaves it the one it has.
Increment(l) ==
    /\ login[l].pc = "incr"
    /\ LET n == counter.count + 1 IN
          /\ counter' = [count |-> n, ttl |-> IF counter.count = 0 THEN Forever ELSE counter.ttl]
          /\ login' = [login EXCEPT ![l] = [pc |-> IF FirstOf(n) THEN "expire" ELSE Verdict(n), seen |-> n]]
    /\ counted' = [k \in DOMAIN counted \cup {l} |-> IF k = l THEN 0 ELSE counted[k]]
    /\ UNCHANGED <<registered, lockTtl, registration, guesses, lockoutHistory>>

\* EXPIRE, a second command; there may be no key by now.
SetExpiry(l) ==
    /\ login[l].pc = "expire"
    /\ counter' = IF counter.count = 0 THEN counter ELSE [counter EXCEPT !.ttl = Lockout]
    /\ Goto(l, Verdict(login[l].seen))
    /\ UNCHANGED <<registered, lockTtl, registration, counted, guesses, lockoutHistory>>

SetLock(l) ==
    /\ login[l].pc = "lock"
    /\ lockTtl' = Lockout
    /\ Goto(l, "drop")
    /\ UNCHANGED <<registered, counter, registration, counted, guesses, lockoutHistory>>

\* The lock replaces the counter.
DropCounter(l) ==
    /\ login[l].pc = "drop"
    /\ counter' = NoCounter
    /\ counted' = [k \in {} |-> 0]
    /\ Goto(l, "invalid")
    /\ UNCHANGED <<registered, lockTtl, registration, guesses, lockoutHistory>>

\* clearFailedLoginState: DEL of the counter, then DEL of the lock.
ClearCounter(l) ==
    /\ login[l].pc = "clearCounter"
    /\ counter' = NoCounter
    /\ counted' = [k \in {} |-> 0]
    /\ guesses' = {}
    /\ crossed' = (crossed \/ \E k \in Logins : login[k].pc \in Failing)
    /\ Goto(l, "clearLock")
    /\ UNCHANGED <<registered, lockTtl, registration, late, stopped>>

ClearLock(l) ==
    /\ login[l].pc = "clearLock"
    /\ lockTtl' = 0
    /\ guesses' = {}
    /\ crossed' = (crossed \/ \E k \in Logins : login[k].pc \in Failing)
    /\ Goto(l, "ok")
    /\ UNCHANGED <<registered, counter, registration, counted, late, stopped>>

\* A command or a query throws, or the process goes down: the rest is not done.
LoginStops(l) ==
    /\ login[l].pc \in {"new", "find", "compare", "clearCounter", "clearLock"} \cup Failing
    /\ Goto(l, "error")
    /\ stopped' = TRUE
    /\ UNCHANGED <<registered, keyVars, registration, guesses, late, crossed>>

-----------------------------------------------------------------------------
(* Time: Redis removes the keys that run out. *)

KeyRunsOut(ttl) == ttl = 1
Aged(ttl) == IF ttl \in {0, Forever} THEN ttl ELSE ttl - 1

LockoutTick ==
    /\ counter.ttl \in 1..Lockout \/ lockTtl > 0 \/ \E l \in DOMAIN counted : counted[l] <= Lockout
    /\ LET gone == KeyRunsOut(counter.ttl) IN
          /\ counter' = IF gone THEN NoCounter ELSE [counter EXCEPT !.ttl = Aged(@)]
          /\ counted' = IF gone THEN [k \in {} |-> 0]
                        ELSE [k \in DOMAIN counted |-> IF counted[k] > Lockout THEN counted[k] ELSE counted[k] + 1]
          /\ guesses' = IF gone \/ KeyRunsOut(lockTtl) THEN {} ELSE guesses
    /\ lockTtl' = Aged(lockTtl)
    /\ late' = (late \/ \E l \in Logins : login[l].pc \in Failing)
    /\ UNCHANGED <<registered, login, registration, crossed, stopped>>

LockoutNext ==
    \/ \E g \in Registrations : FindEmail(g) \/ SaveUser(g)
    \/ \E l \in Logins :
          \/ IsLoginLocked(l) \/ FindUser(l) \/ ComparePassword(l)
          \/ Increment(l) \/ SetExpiry(l) \/ SetLock(l) \/ DropCounter(l)
          \/ ClearCounter(l) \/ ClearLock(l) \/ LoginStops(l)
    \/ LockoutTick

LockoutSpec == LockoutInit /\ [][LockoutNext]_lockoutVars
-----------------------------------------------------------------------------
(* Types: the keys of RedisLoginAttemptStore and the handlers of login. *)
LockoutTypeOK ==
    /\ registered \in BOOLEAN
    /\ counter \in [count : Nat, ttl : 0..Forever]
    /\ lockTtl \in 0..Lockout
    /\ login \in [Logins -> [pc : LoginPc, seen : Nat]]
    /\ registration \in [Registrations -> {"new", "taken", "hash", "refused", "created"}]
    /\ DOMAIN counted \subseteq Logins
    /\ guesses \subseteq Logins

\* registerFailedAttempt, increment: a failed login counts for no longer than the lockout
\* time, whichever logins fail after it, unless the EXPIRE of the key is missing or came late.
FailuresForgotten ==
    late \/ \A l \in DOMAIN counted : counted[l] < Lockout \/ counter.ttl = Forever

\* isLoginLocked, registerFailedAttempt: when every failed login has been written down and
\* the account is open, fewer wrong passwords were tried than the limit since the last
\* expiry or success, however many logins ran side by side.  A login that stopped or took
\* a tick to write, or a success that cleared the keys meanwhile, breaks the count.
OpenMeansFewGuesses ==
    \/ crossed \/ stopped \/ late
    \/ lockTtl > 0
    \/ \E l \in Logins : login[l].pc \in Failing
    \/ Cardinality(guesses) < MaxFailedLogins

\* AuthService.login and the store of attempts: a failed login counts for no longer than the
\* lockout time, and an account that is open has had fewer wrong guesses than the limit.
LockoutHolds == FailuresForgotten /\ OpenMeansFewGuesses
=============================================================================
