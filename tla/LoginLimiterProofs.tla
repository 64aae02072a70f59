------------------------- MODULE LoginLimiterProofs -------------------------
(* Proofs about LoginLimiter for any keys, handlers, times and limits.      *)
EXTENDS LoginLimiter, FiniteSetTheorems, TLAPS

\* The table is finite and within its limit.
Within(E) == IsFiniteSet(DOMAIN E) /\ Cardinality(DOMAIN E) <= MaxEntries

USE DEF Within

\* Dropping keys keeps a table within its limit.
LEMMA WithoutWithin ==
    ASSUME NEW E, NEW S, Within(E)
    PROVE  Within(Without(E, S))
<1>1. DOMAIN Without(E, S) \subseteq DOMAIN E
  BY DEF Without
<1>2. QED BY <1>1, FS_Subset, FS_CardinalityType, LimitsAssumption

\* Cleaning keeps the table within its limit.
LEMMA CleanedWithin ==
    ASSUME Within(entries)
    PROVE  Within(Cleaned)
BY WithoutWithin DEF Cleaned

\* Writing a key that is known, or a new one while there is room, keeps the
\* table within its limit.
LEMMA WithWithin ==
    ASSUME NEW E, NEW k, NEW s, Within(E),
           k \in DOMAIN E \/ Cardinality(DOMAIN E) < MaxEntries
    PROVE  Within(With(E, k, s))
<1>1. DOMAIN With(E, k, s) = DOMAIN E \cup {k}
  BY DEF With
<1>2. /\ IsFiniteSet(DOMAIN E \cup {k})
      /\ Cardinality(DOMAIN E \cup {k}) =
           IF k \in DOMAIN E THEN Cardinality(DOMAIN E)
                             ELSE Cardinality(DOMAIN E) + 1
  BY FS_AddElement
<1>3. Cardinality(DOMAIN E) \in Nat
  BY FS_CardinalityType
<1>4. QED BY <1>1, <1>2, <1>3, LimitsAssumption

\* loginAttempts.entries never holds more than maxLoginEntries keys, for any
\* number of keys and of requests that were admitted and not yet recorded.
THEOREM EntriesBounded == Spec => []BoundedEntries
<1>1. Init => Within(entries)
  <2>1. Init => DOMAIN entries = {}
    BY DEF Init
  <2>2. QED BY <2>1, FS_EmptySet, LimitsAssumption
<1>2. Within(entries) /\ [Next]_vars => Within(entries)'
  <2>1. SUFFICES ASSUME Within(entries), [Next]_vars
                 PROVE  Within(entries)'
    OBVIOUS
  <2>2. ASSUME NEW h \in Handlers, NEW k \in Keys, loginAllowed(h, k)
        PROVE  Within(entries)'
    BY <2>1, <2>2, CleanedWithin, WithoutWithin DEF loginAllowed
  <2>3. ASSUME NEW h \in Handlers, recordLoginFailure(h)
        PROVE  Within(entries)'
    <3>1. Within(Cleaned)
      BY <2>1, CleanedWithin
    <3>2. CASE trying[h] \notin DOMAIN Cleaned /\ Full
      BY <2>3, <3>1, <3>2 DEF recordLoginFailure
    <3>3. CASE trying[h] \in DOMAIN Cleaned \/ ~Full
      <4>1. trying[h] \in DOMAIN Cleaned
               \/ Cardinality(DOMAIN Cleaned) < MaxEntries
        BY <3>1, <3>3, FS_CardinalityType, LimitsAssumption DEF Full
      <4>2. QED BY <2>3, <3>1, <3>3, <4>1, WithWithin DEF recordLoginFailure
    <3>4. QED BY <3>2, <3>3
  <2>4. ASSUME NEW h \in Handlers, clearLoginFailures(h)
        PROVE  Within(entries)'
    BY <2>1, <2>4, WithoutWithin DEF clearLoginFailures
  <2>5. CASE UNCHANGED entries
    BY <2>1, <2>5
  <2>6. QED BY <2>1, <2>2, <2>3, <2>4, <2>5
            DEF Next, vars, AskSecondFactor, Tick
<1>3. Within(entries) => BoundedEntries
  BY DEF BoundedEntries
<1>4. QED BY <1>1, <1>2, <1>3, PTL DEF Spec

-----------------------------------------------------------------------------
(* Types *)

\* The recorded keys are keys, and their states are well-formed.
Entries(E) ==
    /\ DOMAIN E \subseteq Keys
    /\ E \in [DOMAIN E -> States]
    /\ \A k \in DOMAIN E : E[k].failures > 0 /\ E[k].start \in 1..now

\* Dropping keys leaves the states of the others as they were.
LEMMA WithoutEntries ==
    ASSUME NEW E, NEW S, Entries(E)
    PROVE  /\ Entries(Without(E, S))
           /\ DOMAIN Without(E, S) = DOMAIN E \ S
           /\ \A k \in DOMAIN E \ S : Without(E, S)[k] = E[k]
BY DEF Entries, Without

\* So does the cleanup.
LEMMA CleanedEntries ==
    ASSUME Entries(entries)
    PROVE  /\ Entries(Cleaned)
           /\ DOMAIN Cleaned \subseteq DOMAIN entries
           /\ \A k \in DOMAIN Cleaned : Cleaned[k] = entries[k]
<1>1. CASE CleanupDue
  <2> DEFINE S == {k \in DOMAIN entries : Stale(entries[k])}
  <2>1. Cleaned = Without(entries, S)
    BY <1>1 DEF Cleaned
  <2> HIDE DEF S
  <2>2. /\ Entries(Without(entries, S))
        /\ DOMAIN Without(entries, S) = DOMAIN entries \ S
        /\ \A k \in DOMAIN entries \ S : Without(entries, S)[k] = entries[k]
    BY WithoutEntries
  <2>3. QED BY <2>1, <2>2
<1>2. CASE ~CleanupDue
  BY <1>2 DEF Cleaned
<1>3. QED BY <1>1, <1>2

\* The state recordLoginFailure writes, field by field: a new window opens
\* unless one is open.
LEMMA AfterFailureParts ==
    ASSUME NEW s \in States, now \in Nat
    PROVE  /\ AfterFailure(s) = [failures |-> AfterFailure(s).failures,
                                 start |-> AfterFailure(s).start,
                                 until |-> AfterFailure(s).until]
           /\ s.start = 0 \/ now - s.start >= Window =>
                /\ AfterFailure(s).failures = 1
                /\ AfterFailure(s).start = now
                /\ AfterFailure(s).until \in {0, now + LockTime}
           /\ ~(s.start = 0 \/ now - s.start >= Window) =>
                /\ AfterFailure(s).failures = s.failures + 1
                /\ AfterFailure(s).start = s.start
                /\ AfterFailure(s).until \in {s.until, now + LockTime}
           /\ AfterFailure(s).failures >= MaxFailures =>
                AfterFailure(s).until = now + LockTime
<1>1. CASE s.start = 0 \/ now - s.start >= Window
  BY <1>1 DEF AfterFailure
<1>2. CASE ~(s.start = 0 \/ now - s.start >= Window)
  BY <1>2 DEF AfterFailure, States
<1>3. QED BY <1>1, <1>2

\* A failure that is recorded now leaves a well-formed state.
LEMMA AfterFailureType ==
    ASSUME NEW s \in States, now \in Nat \ {0}, s.start \in 0..now
    PROVE  /\ AfterFailure(s) \in States
           /\ AfterFailure(s).failures > 0
           /\ AfterFailure(s).start \in 1..now
<1>1. /\ s.failures \in Nat /\ s.start \in Nat /\ s.until \in Nat
      /\ now + LockTime \in Nat
  BY TimesAssumption DEF States
<1>2. QED BY <1>1, AfterFailureParts DEF States

\* Writing a well-formed state keeps the table well-formed.
LEMMA WithEntries ==
    ASSUME NEW E, NEW k \in Keys, NEW s \in States, Entries(E),
           s.failures > 0, s.start \in 1..now
    PROVE  /\ Entries(With(E, k, s))
           /\ DOMAIN With(E, k, s) = DOMAIN E \cup {k}
           /\ \A j \in DOMAIN E \cup {k} : With(E, k, s)[j] = IF j = k THEN s ELSE E[j]
<1>1. /\ DOMAIN With(E, k, s) = DOMAIN E \cup {k}
      /\ \A j \in DOMAIN E \cup {k} : With(E, k, s)[j] = IF j = k THEN s ELSE E[j]
  BY DEF With
<1>2. With(E, k, s) \in [DOMAIN E \cup {k} -> States]
  BY DEF With, Entries
<1>3. QED BY <1>1, <1>2 DEF Entries

\* What recordLoginFailure finds of a key.
Found(k) == IF k \in DOMAIN Cleaned THEN Cleaned[k] ELSE NoState

\* It is a state, of a window that began in the past if there is one.
LEMMA FoundType ==
    ASSUME TypeOK, NEW k
    PROVE  Found(k) \in States /\ Found(k).start \in 0..now
<1>1. Entries(Cleaned)
  BY CleanedEntries DEF TypeOK, Entries
<1>2. CASE k \in DOMAIN Cleaned
  BY <1>1, <1>2 DEF Found, Entries, TypeOK
<1>3. CASE k \notin DOMAIN Cleaned
  BY <1>3 DEF Found, NoState, States, TypeOK
<1>4. QED BY <1>2, <1>3

\* One step keeps the types.
LEMMA TypeStep ==
    ASSUME TypeOK, [Next]_vars
    PROVE  TypeOK'
<1>1. Entries(entries) /\ Entries(Cleaned) /\ now \in Nat \ {0}
  BY CleanedEntries DEF TypeOK, Entries
<1>2. ASSUME Cleanup PROVE lastCleanup' \in 0..now
  BY <1>2 DEF Cleanup, TypeOK
<1>3. ASSUME NEW h \in Handlers, NEW k \in Keys, loginAllowed(h, k)
      PROVE  TypeOK'
  <2>1. Entries(entries') /\ now' = now
    BY <1>1, <1>3, WithoutEntries DEF loginAllowed
  <2>2. lastCleanup' \in 0..now'
    BY <1>2, <1>3 DEF loginAllowed
  <2>3. (trying \in [Handlers -> Keys \cup {Nobody}])' /\ (lastFailure \in 0..now)'
    BY <1>3 DEF loginAllowed, TypeOK
  <2>4. QED BY <1>1, <2>1, <2>2, <2>3 DEF TypeOK, Entries
<1>4. ASSUME NEW h \in Handlers, recordLoginFailure(h)
      PROVE  TypeOK'
  <2>1. trying[h] \in Keys
    BY <1>4 DEF recordLoginFailure, TypeOK
  <2>2. Entries(With(Cleaned, trying[h], AfterFailure(Found(trying[h]))))
    BY <1>1, <2>1, FoundType, AfterFailureType, WithEntries
  <2>3. Entries(entries') /\ now' = now
    BY <1>1, <1>4, <2>2 DEF recordLoginFailure, Found
  <2>4. lastCleanup' \in 0..now' /\ lastFailure' \in 0..now'
    BY <1>1, <1>2, <1>4 DEF recordLoginFailure
  <2>5. (trying \in [Handlers -> Keys \cup {Nobody}])'
    BY <1>4 DEF recordLoginFailure, TypeOK
  <2>6. QED BY <1>1, <2>3, <2>4, <2>5 DEF TypeOK, Entries
<1>5. ASSUME NEW h \in Handlers, clearLoginFailures(h)
      PROVE  TypeOK'
  <2>1. Entries(entries') /\ now' = now
    BY <1>1, <1>5, WithoutEntries DEF clearLoginFailures
  <2>2. QED BY <1>5, <2>1 DEF clearLoginFailures, TypeOK, Entries
<1>6. ASSUME NEW h \in Handlers, AskSecondFactor(h)
      PROVE  TypeOK'
  BY <1>6 DEF AskSecondFactor, TypeOK
<1>7. CASE Tick
  BY <1>7 DEF Tick, TypeOK, States
<1>8. CASE UNCHANGED vars
  BY <1>8 DEF vars, TypeOK
<1>9. QED BY <1>3, <1>4, <1>5, <1>6, <1>7, <1>8 DEF Next

\* The types hold initially.
LEMMA InitType == Init => TypeOK
BY DEF Init, TypeOK, NoState

\* Every variable of the limiter keeps its type; every recorded key has a
\* failure, and a window that began in the past.
THEOREM LimiterTypes == Spec => []TypeOK
<1>1. TypeOK /\ [Next]_vars => TypeOK'
  BY TypeStep
<1>2. QED BY <1>1, InitType, PTL DEF Spec

-----------------------------------------------------------------------------
(* Guesses *)

\* The requests that were admitted for a key and have not answered yet.
Admitted(k) == {h \in Handlers : trying[h] = k}

Limit == MaxFailures + Cardinality(Handlers) - 1

\* A key with maxLoginFailures failures is locked for the rest of its window,
\* and within the window its failures and the requests that may still add one
\* are within the limit.
KeyWithin(s, a, t) ==
    /\ s.failures >= MaxFailures => s.until >= s.start + Window
    /\ s.failures <= Limit
    /\ t - s.start < Window => s.failures + a <= Limit

Guesses == \A k \in DOMAIN entries :
              KeyWithin(entries[k], Cardinality(Admitted(k)), now)

\* No more requests are admitted for a key than there are handlers.
LEMMA AdmittedSize ==
    ASSUME NEW k
    PROVE  /\ IsFiniteSet(Admitted(k))
           /\ Cardinality(Admitted(k)) \in 0..Cardinality(Handlers)
           /\ Cardinality(Handlers) \in Nat
<1>1. Admitted(k) \subseteq Handlers
  BY DEF Admitted
<1>2. QED BY <1>1, FS_Subset, FS_CardinalityType, LimitsAssumption

\* A request that answers is no longer admitted, and no other key gains one.
LEMMA AnswerAdmitted ==
    ASSUME TypeOK, NEW h \in Handlers, trying[h] # Nobody,
           trying' = [trying EXCEPT ![h] = Nobody], NEW k \in Keys
    PROVE  Cardinality(Admitted(k)') =
               Cardinality(Admitted(k)) - (IF k = trying[h] THEN 1 ELSE 0)
<1>1. Admitted(k)' = IF k = trying[h] THEN Admitted(k) \ {h} ELSE Admitted(k)
  BY LimitsAssumption DEF Admitted, TypeOK
<1>2. k = trying[h] => h \in Admitted(k)
  BY DEF Admitted
<1>3. Cardinality(Admitted(k) \ {h}) =
        IF h \in Admitted(k) THEN Cardinality(Admitted(k)) - 1 ELSE Cardinality(Admitted(k))
  BY AdmittedSize, FS_RemoveElement
<1>4. Cardinality(Admitted(k)) \in Nat
  BY AdmittedSize
<1>5. QED BY <1>1, <1>2, <1>3, <1>4

\* Fewer admitted requests, or a later time, keep a key within the limit.
LEMMA KeyWithinShrinks ==
    ASSUME NEW s \in States, NEW a \in Nat, NEW b \in Nat, b <= a,
           NEW t \in Nat, NEW u \in Nat, t <= u, KeyWithin(s, a, t)
    PROVE  KeyWithin(s, b, u)
<1>1. Limit \in Int
  BY AdmittedSize, LimitsAssumption DEF Limit
<1>2. QED BY <1>1, TimesAssumption, LimitsAssumption DEF KeyWithin, States

\* One step keeps the invariant.
LEMMA GuessesStep ==
    ASSUME TypeOK, Guesses, [Next]_vars
    PROVE  Guesses'
<1>1. /\ Entries(entries) /\ Entries(Cleaned) /\ now \in Nat \ {0}
      /\ DOMAIN Cleaned \subseteq DOMAIN entries
      /\ \A k \in DOMAIN Cleaned : Cleaned[k] = entries[k]
  BY CleanedEntries DEF TypeOK, Entries
<1>2. \A k : /\ Cardinality(Admitted(k)) \in Nat
             /\ Cardinality(Admitted(k)) <= Cardinality(Handlers)
             /\ Cardinality(Admitted(k)') \in Nat
             /\ Cardinality(Admitted(k)') <= Cardinality(Handlers)
             /\ Cardinality(Handlers) \in Nat
  <2>1. \A k : Admitted(k)' \subseteq Handlers
    BY DEF Admitted
  <2>2. QED BY <2>1, AdmittedSize, FS_Subset, FS_CardinalityType, LimitsAssumption
<1>3. ASSUME NEW h \in Handlers, NEW k \in Keys, loginAllowed(h, k)
      PROVE  Guesses'
  <2> DEFINE S == {j \in DOMAIN Cleaned \cap {k} :
                      Allowed(k) /\ now - Cleaned[j].start >= Window}
  <2>1. entries' = Without(Cleaned, S) /\ now' = now
    BY <1>3 DEF loginAllowed
  <2>2. \A j \in DOMAIN entries' :
           /\ j \in DOMAIN Cleaned \ S /\ entries'[j] = entries[j]
           /\ j \in DOMAIN entries /\ entries[j] \in States
    <3> HIDE DEF S
    <3>1. /\ DOMAIN Without(Cleaned, S) = DOMAIN Cleaned \ S
          /\ \A j \in DOMAIN Cleaned \ S : Without(Cleaned, S)[j] = Cleaned[j]
      BY <1>1, WithoutEntries
    <3>2. QED BY <1>1, <2>1, <3>1 DEF Entries
  <2>3. SUFFICES ASSUME NEW j \in DOMAIN entries'
                 PROVE  KeyWithin(entries[j], Cardinality(Admitted(j)'), now)
    BY <2>1, <2>2 DEF Guesses
  <2>4. KeyWithin(entries[j], Cardinality(Admitted(j)), now)
    BY <2>2 DEF Guesses
  <2>5. CASE j = k /\ Allowed(k)
    <3>1. now >= entries[k].until /\ now - entries[k].start < Window
      BY <1>1, <2>2, <2>5, TimesAssumption DEF Allowed, Entries, States
    <3>2. entries[k].failures < MaxFailures
      BY <1>1, <2>2, <2>4, <2>5, <3>1, TimesAssumption, LimitsAssumption
         DEF KeyWithin, States
    <3>3. QED BY <1>2, <2>2, <2>5, <3>2, LimitsAssumption DEF KeyWithin, Limit, States
  <2>6. CASE ~(j = k /\ Allowed(k))
    <3>1. Admitted(j)' = Admitted(j)
      BY <1>1, <1>3, <2>2, <2>6, LimitsAssumption
         DEF loginAllowed, Admitted, TypeOK, Entries
    <3>2. QED BY <2>4, <3>1
  <2>7. QED BY <2>5, <2>6
<1>4. ASSUME NEW h \in Handlers, recordLoginFailure(h)
      PROVE  Guesses'
  <2>0. PICK k \in Keys : k = trying[h]
    BY <1>4 DEF recordLoginFailure, TypeOK
  <2>1. trying[h] # Nobody /\ now' = now /\ trying' = [trying EXCEPT ![h] = Nobody]
    BY <1>4 DEF recordLoginFailure
  <2>2. ASSUME NEW j \in Keys PROVE Cardinality(Admitted(j)') <= Cardinality(Admitted(j))
    <3>1. Cardinality(Admitted(j)') =
            Cardinality(Admitted(j)) - (IF j = trying[h] THEN 1 ELSE 0)
      BY <2>1, AnswerAdmitted
    <3>2. QED BY <1>2, <3>1
  <2>3. \A j \in DOMAIN Cleaned : /\ KeyWithin(Cleaned[j], Cardinality(Admitted(j)'), now)
                                  /\ Cleaned[j] \in States /\ j \in Keys
    BY <1>1, <1>2, <2>2, KeyWithinShrinks DEF Guesses, Entries
  <2>4. CASE entries' = Cleaned
    BY <2>1, <2>3, <2>4 DEF Guesses
  <2>5. CASE entries' = With(Cleaned, k, AfterFailure(Found(k)))
    <3>1. /\ Found(k) \in States /\ Found(k).start \in 0..now
          /\ Found(k).start # 0 => k \in DOMAIN Cleaned /\ Found(k) = entries[k]
      BY <1>1, FoundType DEF Found, NoState
    <3>2. KeyWithin(AfterFailure(Found(k)), Cardinality(Admitted(k)'), now)
      <4>1. Cardinality(Admitted(k)') = Cardinality(Admitted(k)) - 1
        BY <2>0, <2>1, AnswerAdmitted
      <4>2. CASE Found(k).start = 0 \/ now - Found(k).start >= Window
        BY <1>1, <1>2, <3>1, <4>1, <4>2, AfterFailureParts, TimesAssumption, LimitsAssumption
           DEF KeyWithin, Limit
      <4>3. CASE ~(Found(k).start = 0 \/ now - Found(k).start >= Window)
        <5>1. KeyWithin(Found(k), Cardinality(Admitted(k)), now)
          BY <1>1, <3>1, <4>3 DEF Guesses
        <5>2. QED
          BY <1>1, <1>2, <3>1, <4>1, <4>3, <5>1, AfterFailureParts,
             TimesAssumption, LimitsAssumption
             DEF KeyWithin, Limit, States
      <4>4. QED BY <4>2, <4>3
    <3>3. /\ DOMAIN entries' = DOMAIN Cleaned \cup {k}
          /\ \A j \in DOMAIN Cleaned \cup {k} :
                entries'[j] = IF j = k THEN AfterFailure(Found(k)) ELSE Cleaned[j]
      BY <2>5 DEF With
    <3>4. QED BY <2>1, <2>3, <3>2, <3>3 DEF Guesses
  <2>6. QED BY <1>4, <2>0, <2>4, <2>5 DEF recordLoginFailure, Found
<1>5. ASSUME NEW h \in Handlers, clearLoginFailures(h) \/ AskSecondFactor(h)
      PROVE  Guesses'
  <2>1. /\ trying[h] # Nobody /\ trying' = [trying EXCEPT ![h] = Nobody] /\ now' = now
        /\ \A j \in DOMAIN entries' : j \in DOMAIN entries /\ entries'[j] = entries[j]
    <3>1. CASE clearLoginFailures(h)
      <4>1. /\ DOMAIN Without(entries, {trying[h]}) = DOMAIN entries \ {trying[h]}
            /\ \A j \in DOMAIN entries \ {trying[h]} :
                  Without(entries, {trying[h]})[j] = entries[j]
        BY <1>1, WithoutEntries
      <4>2. QED BY <3>1, <4>1 DEF clearLoginFailures
    <3>2. CASE AskSecondFactor(h)
      BY <3>2 DEF AskSecondFactor
    <3>3. QED BY <1>5, <3>1, <3>2
  <2>2. ASSUME NEW j \in Keys PROVE Cardinality(Admitted(j)') <= Cardinality(Admitted(j))
    <3>1. Cardinality(Admitted(j)') =
            Cardinality(Admitted(j)) - (IF j = trying[h] THEN 1 ELSE 0)
      BY <2>1, AnswerAdmitted
    <3>2. QED BY <1>2, <3>1
  <2>3. QED BY <1>1, <1>2, <2>1, <2>2, KeyWithinShrinks DEF Guesses, Entries
<1>6. CASE Tick
  <2>1. now' = now + 1 /\ entries' = entries /\ \A j : Admitted(j)' = Admitted(j)
    BY <1>6 DEF Tick, Admitted
  <2>2. QED BY <1>1, <1>2, <2>1, KeyWithinShrinks DEF Guesses, Entries
<1>7. CASE UNCHANGED vars
  BY <1>7 DEF vars, Guesses, Admitted
<1>8. QED BY <1>3, <1>4, <1>5, <1>6, <1>7 DEF Next

\* One window of a key takes at most maxLoginFailures wrong passwords, and one
\* more for every other request admitted before the lock, for any number of
\* keys and handlers and any times with a lock no shorter than the window.
THEOREM GuessesBounded == Spec => []BoundedGuesses
<1>1. Init => Guesses
  BY DEF Init, Guesses
<1>2. TypeOK /\ Guesses /\ [Next]_vars => (TypeOK /\ Guesses)'
  BY TypeStep, GuessesStep
<1>3. Guesses => BoundedGuesses
  BY DEF Guesses, KeyWithin, Limit, BoundedGuesses
<1>4. QED BY <1>1, <1>2, <1>3, InitType, PTL DEF Spec

-----------------------------------------------------------------------------
(* Admission *)

\* No window or lock outlasts the last failure by more than a lock time, and a
\* cleanup after that left nothing.
Aged ==
    /\ \A k \in DOMAIN entries : /\ entries[k].start <= lastFailure
                                 /\ entries[k].until <= lastFailure + LockTime
    /\ lastCleanup > lastFailure + LockTime => DOMAIN entries = {}

\* A cleanup later than a lock time after the last failure leaves nothing.
LEMMA CleanedEmpty ==
    ASSUME TypeOK, Aged, CleanupDue, now > lastFailure + LockTime
    PROVE  DOMAIN Cleaned = {}
<1>1. ASSUME NEW k \in DOMAIN entries PROVE Stale(entries[k])
  BY TimesAssumption DEF Stale, Aged, TypeOK, States
<1> DEFINE S == {k \in DOMAIN entries : Stale(entries[k])}
<1>2. DOMAIN entries \ S = {}
  BY <1>1
<1>3. Cleaned = Without(entries, S)
  BY DEF Cleaned
<1> HIDE DEF S
<1>4. QED BY <1>2, <1>3 DEF Without

\* So the two calls find an empty table when they clean it that late.
LEMMA CleanupLeaves ==
    ASSUME TypeOK, Aged, Cleanup, lastCleanup' > lastFailure + LockTime
    PROVE  DOMAIN Cleaned = {}
<1>1. CASE CleanupDue
  BY <1>1, CleanedEmpty DEF Cleanup
<1>2. CASE ~CleanupDue
  BY <1>2 DEF Cleanup, Cleaned, Aged
<1>3. QED BY <1>1, <1>2

\* One step keeps the invariant.
LEMMA AgedStep ==
    ASSUME TypeOK, Aged, [Next]_vars
    PROVE  Aged'
<1>1. /\ Entries(entries) /\ Entries(Cleaned) /\ now \in Nat \ {0}
      /\ DOMAIN Cleaned \subseteq DOMAIN entries
      /\ \A k \in DOMAIN Cleaned : Cleaned[k] = entries[k]
  BY CleanedEntries DEF TypeOK, Entries
<1>2. now \in Nat /\ lastFailure \in 0..now /\ lastCleanup \in 0..now
  BY DEF TypeOK
<1>3. ASSUME NEW h \in Handlers, NEW k \in Keys, loginAllowed(h, k)
      PROVE  Aged'
  <2> DEFINE S == {j \in DOMAIN Cleaned \cap {k} :
                      Allowed(k) /\ now - Cleaned[j].start >= Window}
  <2>1. entries' = Without(Cleaned, S) /\ lastFailure' = lastFailure /\ Cleanup
    BY <1>3 DEF loginAllowed
  <2> HIDE DEF S
  <2>2. \A j \in DOMAIN entries' : j \in DOMAIN Cleaned /\ entries'[j] = entries[j]
    BY <1>1, <2>1 DEF Without
  <2>3. lastCleanup' > lastFailure + LockTime => DOMAIN entries' = {}
    BY <2>1, <2>2, CleanupLeaves
  <2>4. QED BY <1>1, <2>1, <2>2, <2>3 DEF Aged
<1>4. ASSUME NEW h \in Handlers, recordLoginFailure(h)
      PROVE  Aged'
  <2>0. PICK k \in Keys : k = trying[h]
    BY <1>4 DEF recordLoginFailure, TypeOK
  <2>1. lastFailure' = now /\ lastCleanup' \in 0..now
    BY <1>2, <1>4 DEF recordLoginFailure, Cleanup
  <2>2. \A j \in DOMAIN Cleaned : /\ Cleaned[j].start <= now
                                  /\ Cleaned[j].until <= now + LockTime
    BY <1>1, <1>2, TimesAssumption DEF Aged, Entries, States
  <2>3. CASE entries' = Cleaned
    BY <1>1, <2>1, <2>2, <2>3, TimesAssumption DEF Aged
  <2>4. CASE entries' = With(Cleaned, k, AfterFailure(Found(k)))
    <3>1. Found(k) \in States /\ Found(k).start \in 0..now
      BY FoundType
    <3>2. Found(k).until <= now + LockTime
      BY <1>1, <2>2, TimesAssumption DEF Found, NoState
    <3>3. /\ AfterFailure(Found(k)).start <= now
          /\ AfterFailure(Found(k)).until <= now + LockTime
      BY <1>1, <3>1, <3>2, AfterFailureParts, TimesAssumption DEF States
    <3>4. /\ DOMAIN entries' = DOMAIN Cleaned \cup {k}
          /\ \A j \in DOMAIN Cleaned \cup {k} :
                entries'[j] = IF j = k THEN AfterFailure(Found(k)) ELSE Cleaned[j]
      BY <2>4 DEF With
    <3>5. QED BY <1>1, <2>1, <2>2, <3>3, <3>4, TimesAssumption DEF Aged
  <2>5. QED BY <1>4, <2>0, <2>3, <2>4 DEF recordLoginFailure, Found
<1>5. ASSUME NEW h \in Handlers, clearLoginFailures(h)
      PROVE  Aged'
  BY <1>5 DEF clearLoginFailures, Without, Aged
<1>6. ASSUME NEW h \in Handlers, AskSecondFactor(h)
      PROVE  Aged'
  BY <1>6 DEF AskSecondFactor, Aged
<1>7. CASE Tick
  BY <1>7 DEF Tick, Aged
<1>8. CASE UNCHANGED vars
  BY <1>8 DEF vars, Aged
<1>9. QED BY <1>3, <1>4, <1>5, <1>6, <1>7, <1>8 DEF Next

\* A lock time and a cleanup period after the last recorded failure
\* loginAllowed admits every key, known or new, also after the table was full.
THEOREM AdmitsAgainHolds == Spec => []AdmitsAgain
<1>1. Init => Aged
  BY TimesAssumption DEF Init, Aged
<1>2. TypeOK /\ Aged /\ [Next]_vars => (TypeOK /\ Aged)'
  BY TypeStep, AgedStep
<1>3. TypeOK /\ Aged => AdmitsAgain
  <2>1. SUFFICES ASSUME TypeOK, Aged, now - lastFailure >= LockTime + CleanupPeriod,
                        NEW k \in Keys
                 PROVE  Allowed(k)
    BY DEF AdmitsAgain
  <2>2. /\ now \in Nat /\ lastFailure \in Nat /\ lastCleanup \in Nat
        /\ now > lastFailure + LockTime
    BY <2>1, TimesAssumption DEF TypeOK
  <2>3. DOMAIN Cleaned = {}
    <3>1. CASE CleanupDue
      BY <2>1, <2>2, <3>1, CleanedEmpty
    <3>2. CASE ~CleanupDue
      <4>1. lastCleanup > lastFailure + LockTime
        BY <2>1, <2>2, <3>2, TimesAssumption DEF CleanupDue
      <4>2. QED BY <2>1, <3>2, <4>1 DEF Aged, Cleaned
    <3>3. QED BY <3>1, <3>2
  <2>4. ~Full
    BY <2>3, FS_EmptySet, LimitsAssumption DEF Full
  <2>5. QED BY <2>3, <2>4 DEF Allowed
<1>4. QED BY <1>1, <1>2, <1>3, InitType, PTL DEF Spec

=============================================================================
