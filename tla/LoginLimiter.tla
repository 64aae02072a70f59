---------------------------- MODULE LoginLimiter ----------------------------
(***************************************************************************)
(* The login rate limiter (src/api/login_rate_limit.go) and the two login  *)
(* handlers that use it (Login of src/api/apiService.go, login of          *)
(* src/api/apiV3Handler.go).                                               *)
(*                                                                         *)
(* A handler asks loginAllowed, checks the password (slowly: bcrypt) and   *)
(* only then records the failure or clears the record of its key, so the   *)
(* answer it acts on may be old.  Time is counted in whole units from 1;   *)
(* 0 is the zero time.Time.                                                *)
(***************************************************************************)
EXTENDS Integers, FiniteSets

CONSTANTS Keys,         \* user name and peer address
          Nobody,       \* not a key
          Handlers,     \* requests served at the same time
          Window,       \* loginFailureWindow
          LockTime,     \* loginLockDuration
          CleanupPeriod,
          MaxFailures,
          MaxEntries,
          MaxTime       \* bound of the clock

ASSUME TimesAssumption ==
    /\ Window \in Nat \ {0} /\ LockTime \in Nat \ {0}
    /\ CleanupPeriod \in Nat \ {0} /\ MaxTime \in Nat
    /\ LockTime >= Window

ASSUME LimitsAssumption ==
    /\ MaxFailures \in Nat \ {0}
    /\ MaxEntries \in Nat \ {0}
    /\ IsFiniteSet(Handlers)
    /\ Nobody \notin Keys

VARIABLES
    now,          \* the clock
    entries,      \* loginAttempts.entries: a function on the recorded keys
    lastCleanup,  \* loginAttempts.lastCleanup
    trying,       \* of each handler: the key it was admitted for, or Nobody
    lastFailure   \* history: when a failure was last recorded

vars == <<now, entries, lastCleanup, trying, lastFailure>>

States == [failures : Nat, start : Nat, until : Nat]
NoState == [failures |-> 0, start |-> 0, until |-> 0]

Without(E, S) == [k \in DOMAIN E \ S |-> E[k]]
With(E, k, s) == [j \in DOMAIN E \cup {k} |-> IF j = k THEN s ELSE E[j]]

-----------------------------------------------------------------------------
\* Mutant: a locked entry is never given up.
StaleUnlocked(s) ==
    now > s.until /\ now - s.start >= Window /\ s.failures < MaxFailures

Stale(s) == now > s.until /\ now - s.start >= Window

CleanupDue == lastCleanup = 0 \/ now - lastCleanup >= CleanupPeriod

\* cleanupLoginAttemptsLocked: what both calls see of the entries.
Cleaned ==
    IF CleanupDue
    THEN Without(entries, {k \in DOMAIN entries : Stale(entries[k])})
    ELSE entries

Cleanup == lastCleanup' = IF CleanupDue THEN now ELSE lastCleanup

Full == Cardinality(DOMAIN Cleaned) >= MaxEntries

\* Mutant: LockedUntil is not looked at.
AllowedLocked(k) == IF k \in DOMAIN Cleaned THEN TRUE ELSE ~Full

\* The answer of loginAllowed(k).
Allowed(k) ==
    IF k \in DOMAIN Cleaned THEN now >= Cleaned[k].until ELSE ~Full

loginAllowed(h, k) ==
    /\ trying[h] = Nobody
    /\ Cleanup
    /\ trying' = [trying EXCEPT ![h] = IF Allowed(k) THEN k ELSE Nobody]
    /\ entries' =
         Without(Cleaned, {j \in DOMAIN Cleaned \cap {k} :
                              Allowed(k) /\ now - Cleaned[j].start >= Window})
    /\ UNCHANGED <<now, lastFailure>>

\* Mutant: a first failure does not open a window.
AfterFailureNoWindow(s) ==
    [s EXCEPT !.failures = @ + 1,
              !.until = IF s.failures + 1 >= MaxFailures
                        THEN now + LockTime ELSE @]

\* The state recordLoginFailure writes for a key found in state s.
AfterFailure(s) ==
    LET w == IF s.start = 0 \/ now - s.start >= Window
             THEN [failures |-> 0, start |-> now, until |-> 0] ELSE s
    IN  [failures |-> w.failures + 1,
         start |-> w.start,
         until |-> IF w.failures + 1 >= MaxFailures THEN now + LockTime ELSE w.until]

\* Mutant: the number of entries is not looked at.
recordUncapped(h) ==
    /\ trying[h] # Nobody
    /\ Cleanup
    /\ LET k == trying[h]
           known == k \in DOMAIN Cleaned
       IN  entries' = With(Cleaned, k,
                           AfterFailure(IF known THEN Cleaned[k] ELSE NoState))
    /\ trying' = [trying EXCEPT ![h] = Nobody]
    /\ lastFailure' = now
    /\ UNCHANGED now

\* The password or the second factor is wrong.
recordLoginFailure(h) ==
    /\ trying[h] # Nobody
    /\ Cleanup
    /\ LET k == trying[h]
           known == k \in DOMAIN Cleaned
       IN  entries' = IF ~known /\ Full THEN Cleaned
                      ELSE With(Cleaned, k,
                                AfterFailure(IF known THEN Cleaned[k] ELSE NoState))
    /\ trying' = [trying EXCEPT ![h] = Nobody]
    /\ lastFailure' = now
    /\ UNCHANGED now

\* The login succeeds.
clearLoginFailures(h) ==
    /\ trying[h] # Nobody
    /\ entries' = Without(entries, {trying[h]})
    /\ trying' = [trying EXCEPT ![h] = Nobody]
    /\ UNCHANGED <<now, lastCleanup, lastFailure>>

\* The password is right and a second factor is asked for: neither call.
AskSecondFactor(h) ==
    /\ trying[h] # Nobody
    /\ trying' = [trying EXCEPT ![h] = Nobody]
    /\ UNCHANGED <<now, entries, lastCleanup, lastFailure>>

Tick ==
    /\ now < MaxTime
    /\ now' = now + 1
    /\ UNCHANGED <<entries, lastCleanup, trying, lastFailure>>

Init ==
    /\ now = 1
    /\ entries = [k \in {} |-> NoState]
    /\ lastCleanup = 0
    /\ trying = [h \in Handlers |-> Nobody]
    /\ lastFailure = 0

Next ==
    \/ \E h \in Handlers :
          \/ \E k \in Keys : loginAllowed(h, k)
          \/ recordLoginFailure(h)
          \/ clearLoginFailures(h)
          \/ AskSecondFactor(h)
    \/ Tick

Spec == Init /\ [][Next]_vars

-----------------------------------------------------------------------------
(* Properties *)

\* Every variable has its type; an entry has failures, and its window began
\* in the past.
TypeOK ==
    /\ now \in Nat \ {0}
    /\ DOMAIN entries \subseteq Keys
    /\ entries \in [DOMAIN entries -> States]
    /\ \A k \in DOMAIN entries : /\ entries[k].failures > 0
                                 /\ entries[k].start \in 1..now
    /\ lastCleanup \in 0..now
    /\ trying \in [Handlers -> Keys \cup {Nobody}]
    /\ lastFailure \in 0..now

\* loginAttempts.entries never holds more than maxLoginEntries keys, although
\* a key is admitted in one critical section and recorded in a later one.
BoundedEntries == Cardinality(DOMAIN entries) <= MaxEntries

\* One window of a key takes at most maxLoginFailures wrong passwords, and one
\* more for every other request that was admitted before the key was locked.
BoundedGuesses ==
    \A k \in DOMAIN entries :
        entries[k].failures <= MaxFailures + Cardinality(Handlers) - 1

\* The limiter gives in: a lock time and a cleanup period after the last
\* recorded failure loginAllowed admits every key, also after the table was
\* full.
AdmitsAgain ==
    now - lastFailure >= LockTime + CleanupPeriod => \A k \in Keys : Allowed(k)

\* What the limiter is for ("login should be locked after repeated failures"):
\* a lock in force is neither dropped nor shortened except by a login that
\* succeeds.
LockHolds ==
    [][\A k \in DOMAIN entries :
          now' < entries[k].until =>
             \/ k \in DOMAIN entries' /\ entries'[k].until >= entries[k].until
             \/ \E h \in Handlers : trying[h] = k /\ clearLoginFailures(h)]_vars

=============================================================================
