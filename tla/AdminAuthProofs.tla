-------------------------- MODULE AdminAuthProofs --------------------------
(* Proofs about AdminAuth for any administrators, requests and bounds.      *)
EXTENDS AdminAuth, FiniteSetTheorems, TLAPS

-----------------------------------------------------------------------------
(* Types *)

Rows == [name : Names, pass : Passwords, hashed : BOOLEAN, totp : Nat,
         codes : SUBSET Codes]

\* What a request is doing, by how far it is.
AnyFactor == [by : {"none"}] \cup [by : {"totp"}, secret : Nat]
             \cup [by : {"code"}, code : Codes]
Logins == [kind : {"login", "login3", "disable"},
           pc : {"upgrade", "factor", "lock", "codes", "granted"},
           id : Ids, row : Rows, factor : AnyFactor]
Enrolments == [kind : {"enable"}, pc : {"enrol", "forget"}, name : Names,
               secret : Nat]
Saves == [kind : {"changePass", "cli"}, pc : {"save"}, id : Ids, row : Rows]
Loads == [kind : {"login3", "changePass", "token"}, pc : {"load"}]
IsStore(x) ==
    /\ x = [kind |-> x.kind, pc |-> "store", version |-> x.version,
            tokens |-> x.tokens]
    /\ x.kind \in {"login3", "changePass", "token"}
    /\ x.version \in Nat

IsStep(x) ==
    \/ x \in {Idle} \cup Logins \cup Enrolments \cup Saves \cup Loads
    \/ IsStore(x)

TypeOK ==
    /\ users \in [Ids -> Rows]
    /\ DOMAIN req = Requests /\ \A r \in Requests : IsStep(req[r])
    /\ DOMAIN pending \subseteq Names
    /\ \A n \in DOMAIN pending : pending[n].secret \in Nat
    /\ accepted \in [Codes -> Nat]
    /\ now \in Nat /\ secrets \in Nat /\ version \in Nat
    /\ \A t \in DOMAIN tokens : tokens[t].expiry \in Nat

\* Every enrolment that has yet to draw its codes is within the bound.
Enrolling == {r \in Requests : req[r].pc = "enrol"}
Enabling == {r \in Requests : req[r].kind = "enable"}
BatchesBound ==
    /\ batches \in Nat
    /\ IsFiniteSet(Enabling)
    /\ batches + Cardinality(Enrolling) <= MaxBatches

-----------------------------------------------------------------------------
(* What a request does *)

\* How far a request is tells what it holds.
LEMMA Shapes ==
    ASSUME NEW x, IsStep(x)
    PROVE  /\ x.pc \in {"upgrade", "factor", "lock", "codes", "granted"}
                 => x \in Logins
           /\ x.pc \in {"enrol", "forget"} <=> x.kind = "enable"
           /\ x.kind = "enable" => x \in Enrolments
           /\ x.pc = "save" => x \in Saves
           /\ x.pc = "load" => x \in Loads
           /\ x.pc = "store" => IsStore(x)
           /\ x.kind = "cli" => x.pc = "save"
           /\ x.kind = "none" => x = Idle
BY DEF IsStep, IsStore, Idle, Logins, Enrolments, Saves, Loads

\* A step of one request leaves the others where they are.
LEMMA GotoStep ==
    ASSUME NEW r \in Requests, NEW x, IsStep(x), Goto(r, x),
           DOMAIN req = Requests, \A q \in Requests : IsStep(req[q])
    PROVE  /\ DOMAIN req' = Requests
           /\ \A q \in Requests : IsStep(req'[q])
           /\ req'[r] = x
           /\ \A q \in Requests \ {r} : req'[q] = req[q]
BY DEF Goto

\* So does the end of a request.
LEMMA EndStep ==
    ASSUME NEW r \in Requests, End(r),
           DOMAIN req = Requests, \A q \in Requests : IsStep(req[q])
    PROVE  /\ DOMAIN req' = Requests
           /\ \A q \in Requests : IsStep(req'[q])
           /\ req'[r] = Idle
           /\ \A q \in Requests \ {r} : req'[q] = req[q]
<1>1. IsStep(Idle)
  BY DEF IsStep
<1>2. Goto(r, Idle)
  BY DEF End
<1>3. QED BY <1>1, <1>2, GotoStep

-----------------------------------------------------------------------------
(* Types are kept *)

ReqOK == DOMAIN req = Requests /\ \A r \in Requests : IsStep(req[r])

\* The codes of a batch that is within the bound are codes.
LEMMA BatchCodes ==
    ASSUME NEW b \in 0..MaxBatches
    PROVE  Batch(b) \in SUBSET Codes
BY DEF Batch, Codes

\* A new row is well-formed when the batches are within the bound.
LEMMA TypeInit == Init => TypeOK /\ BatchesBound
<1>1. SUFFICES ASSUME Init PROVE TypeOK /\ BatchesBound
  OBVIOUS
<1>2. users \in [Ids -> Rows]
  <2>1. Batch(0) \in SUBSET Codes
    BY BatchCodes, AuthAssumption
  <2>2. PICK pw \in Passwords, h \in BOOLEAN :
          users = [i \in Ids |->
                      [name |-> i, pass |-> pw, hashed |-> h,
                       totp |-> IF i = 1 THEN 1 ELSE 0,
                       codes |-> IF i = 1 THEN Batch(0) ELSE {}]]
    BY <1>1 DEF Init
  <2>3. QED BY <2>1, <2>2, AuthAssumption DEF Rows
<1>3. ReqOK /\ \A r \in Requests : req[r] = Idle
  BY <1>1 DEF Init, ReqOK, IsStep
<1>4. Enabling = {} /\ Enrolling = {}
  BY <1>3 DEF Enabling, Enrolling, Idle
<1>5. BatchesBound
  BY <1>1, <1>4, FS_EmptySet, AuthAssumption DEF BatchesBound, Init
<1>6. accepted \in [Codes -> Nat]
  BY <1>1 DEF Init
<1>7. QED BY <1>1, <1>2, <1>3, <1>5, <1>6 DEF TypeOK, ReqOK, Init

\* Every step leaves each request in a well-formed state.
LEMMA ReqStep ==
    ASSUME TypeOK, BatchesBound, [Next]_vars
    PROVE  ReqOK'
<1>1. ReqOK
  BY DEF TypeOK, ReqOK
<1>2. ASSUME NEW r \in Requests, NEW x, IsStep(x), Goto(r, x)
      PROVE  ReqOK'
  BY <1>1, <1>2, GotoStep DEF ReqOK
<1>3. ASSUME NEW r \in Requests, End(r)
      PROVE  ReqOK'
  BY <1>1, <1>3, EndStep DEF ReqOK
<1>4. \A i \in Ids : users[i] \in Rows
  BY DEF TypeOK
<1>5. ASSUME NEW r \in Requests, Begin(r)
      PROVE  ReqOK'
  <2>1. CASE \E k \in {"login", "login3", "disable"}, n \in Names,
                pw \in Passwords, f \in Factors : CheckPassword(r, k, n, pw, f)
    <3>1. PICK k \in {"login", "login3", "disable"}, n \in Names,
               f \in Factors, i \in Ids :
             Goto(r, [kind |-> k, pc |-> "upgrade", id |-> i,
                      row |-> users[i], factor |-> f])
      BY <2>1 DEF CheckPassword, IdsNamed
    <3>2. f \in AnyFactor
      <4>1. \A b \in 0..batches : Batch(b) \subseteq Codes
        <5>1. batches <= MaxBatches /\ batches \in Nat
          <6>1. Enrolling \subseteq Enabling
            BY <1>1, Shapes DEF Enrolling, Enabling, ReqOK
          <6>2. Cardinality(Enrolling) \in Nat
            BY <6>1, FS_Subset, FS_CardinalityType DEF BatchesBound
          <6>3. QED BY <6>2, AuthAssumption DEF BatchesBound
        <5>2. QED BY <5>1, BatchCodes, AuthAssumption
      <4>2. IssuedCodes \subseteq Codes
        BY <4>1 DEF IssuedCodes
      <4>3. secrets \in Nat
        BY DEF TypeOK
      <4>4. QED BY <4>2, <4>3 DEF Factors, AnyFactor
    <3>3. IsStep([kind |-> k, pc |-> "upgrade", id |-> i,
                  row |-> users[i], factor |-> f])
      BY <1>4, <3>2 DEF IsStep, Logins
    <3>4. QED BY <1>2, <3>1, <3>3
  <2>2. ASSUME NEW n \in Names, LoadPending(r, n)
        PROVE  ReqOK'
    <3>1. IsStep([kind |-> "enable", pc |-> "enrol", name |-> n,
                  secret |-> pending[n].secret])
      BY <2>2 DEF LoadPending, IsStep, Enrolments, TypeOK
    <3>2. QED BY <1>2, <2>2, <3>1 DEF LoadPending
  <2>3. ASSUME NEW i \in Ids, NEW old \in Passwords, NEW n \in Names,
               NEW pw \in Passwords, ReadForChange(r, i, old, n, pw)
        PROVE  ReqOK'
    <3>1. IsStep([kind |-> "changePass", pc |-> "save", id |-> i,
                  row |-> [users[i] EXCEPT !.name = n, !.pass = pw,
                                           !.hashed = TRUE]])
      BY <1>4 DEF IsStep, Saves, Rows
    <3>2. QED BY <1>2, <2>3, <3>1 DEF ReadForChange
  <2>4. ASSUME NEW n \in Names, NEW pw \in Passwords, ReadForReset(r, n, pw)
        PROVE  ReqOK'
    <3>1. users[1] \in Rows
      BY <1>4, AuthAssumption
    <3>2. [users[1] EXCEPT !.name = n, !.pass = pw, !.hashed = TRUE] \in Rows
      BY <3>1 DEF Rows
    <3>3. IsStep([kind |-> "cli", pc |-> "save", id |-> 1,
                  row |-> [users[1] EXCEPT !.name = n, !.pass = pw,
                                           !.hashed = TRUE]])
      BY <3>2, AuthAssumption DEF IsStep, Saves
    <3>4. QED BY <1>2, <2>4, <3>3 DEF ReadForReset
  <2>5. IsStep([kind |-> "token", pc |-> "load"])
    BY DEF IsStep, Loads
  <2>6. ASSUME NEW n \in Names, NEW d \in 0..1, AddToken(r, n, d)
        PROVE  ReqOK'
    BY <1>2, <2>5, <2>6 DEF AddToken
  <2>7. ASSUME NEW n \in Names, NEW t \in 1..MaxTokens, DeleteToken(r, n, t)
        PROVE  ReqOK'
    BY <1>2, <2>5, <2>7 DEF DeleteToken
  <2>8. QED BY <1>5, <2>1, <2>2, <2>3, <2>4, <2>6, <2>7 DEF Begin
<1>6. ASSUME NEW r \in Requests, Step(r)
      PROVE  ReqOK'
  <2> DEFINE x == req[r]
  <2>1. IsStep(x)
    BY <1>1 DEF ReqOK
  <2>2. ASSUME UpgradePassword(r) PROVE ReqOK'
    <3>1. x \in Logins
      BY <2>1, <2>2, Shapes DEF UpgradePassword
    <3>2. /\ IsStep([x EXCEPT !.pc = "factor", !.row.hashed = TRUE])
          /\ IsStep([x EXCEPT !.pc = "factor"])
      BY <3>1 DEF IsStep, Logins, Rows
    <3>3. QED BY <1>2, <2>2, <3>2 DEF UpgradePassword
  <2>3. ASSUME VerifySecondFactor(r) PROVE ReqOK'
    <3>1. x \in Logins
      BY <2>1, <2>3, Shapes DEF VerifySecondFactor
    <3>2. /\ IsStep([x EXCEPT !.pc = "granted"])
          /\ IsStep([x EXCEPT !.pc = "lock"])
      BY <3>1 DEF IsStep, Logins
    <3>3. QED BY <1>2, <1>3, <2>3, <3>2 DEF VerifySecondFactor
  <2>4. ASSUME LockAndReread(r) PROVE ReqOK'
    <3>1. x \in Logins
      BY <2>1, <2>4, Shapes DEF LockAndReread
    <3>2. IsStep([x EXCEPT !.pc = "codes", !.row = users[x.id]])
      BY <1>4, <3>1 DEF IsStep, Logins
    <3>3. QED BY <1>2, <2>4, <3>2 DEF LockAndReread
  <2>5. ASSUME UseCode(r) PROVE ReqOK'
    <3>1. x \in Logins
      BY <2>1, <2>5, Shapes DEF UseCode
    <3>2. IsStep([x EXCEPT !.pc = "granted"])
      BY <3>1 DEF IsStep, Logins
    <3>3. QED BY <1>2, <1>3, <2>5, <3>2 DEF UseCode
  <2>6. CASE GrantSession(r) \/ ClearTOTP(r) \/ ForgetPending(r) \/ ReloadStore(r)
          \/ ReloadFails(r)
    BY <1>3, <2>6 DEF GrantSession, ClearTOTP, ForgetPending, ReloadStore, ReloadFails
  <2>7. ASSUME NEW d \in 0..1, GrantToken(r, d) PROVE ReqOK'
    <3>1. IsStep([kind |-> "login3", pc |-> "load"])
      BY DEF IsStep, Loads
    <3>2. QED BY <1>2, <1>3, <2>7, <3>1 DEF GrantToken
  <2>8. ASSUME EnableTOTP(r) PROVE ReqOK'
    <3>1. x \in Enrolments
      BY <2>1, <2>8, Shapes DEF EnableTOTP
    <3>2. IsStep([x EXCEPT !.pc = "forget"])
      BY <3>1 DEF IsStep, Enrolments
    <3>3. QED BY <1>2, <2>8, <3>2 DEF EnableTOTP
  <2>9. ASSUME SaveRow(r) PROVE ReqOK'
    <3>1. x \in Saves
      BY <2>1, <2>9, Shapes DEF SaveRow
    <3>2. IsStep(IF x.kind = "cli" THEN Idle ELSE [kind |-> x.kind, pc |-> "load"])
      BY <3>1 DEF IsStep, Saves, Loads
    <3>3. QED BY <1>2, <2>9, <3>2 DEF SaveRow
  <2>10. ASSUME ReloadLoad(r) PROVE ReqOK'
    <3>1. x \in Loads
      BY <2>1, <2>10, Shapes DEF ReloadLoad
    <3>2. version \in Nat
      BY DEF TypeOK
    <3>3. IsStep([kind |-> x.kind, pc |-> "store", version |-> version,
                  tokens |-> LoadedTokens])
      BY <3>1, <3>2 DEF IsStep, IsStore, Loads
    <3>4. QED BY <1>2, <2>10, <3>3 DEF ReloadLoad
  <2>11. QED BY <1>6, <2>2, <2>3, <2>4, <2>5, <2>6, <2>7, <2>8, <2>9, <2>10
            DEF Step
<1>7. CASE Restart
  BY <1>1, <1>7 DEF Restart, ReqOK, IsStep
<1>8. CASE UNCHANGED req
  BY <1>1, <1>8 DEF ReqOK
<1>9. QED BY <1>5, <1>6, <1>7, <1>8 DEF Next, vars, BeginTOTP, Tick

\* One request more is at most one more to count.
LEMMA AddOne ==
    ASSUME NEW S, IsFiniteSet(S), NEW x
    PROVE  /\ Cardinality(S \cup {x}) \in Nat
           /\ Cardinality(S \cup {x}) <= Cardinality(S) + 1
<1>1. Cardinality(S) \in Nat
  BY FS_CardinalityType
<1>2. CASE x \in S
  <2>1. S \cup {x} = S
    BY <1>2
  <2>2. QED BY <1>1, <2>1
<1>3. CASE x \notin S
  <2>1. Cardinality(S \cup {x}) = Cardinality(S) + 1
    BY <1>3, FS_AddElement
  <2>2. QED BY <1>1, <2>1
<1>4. QED BY <1>2, <1>3

\* An enrolment may begin while the batches to come are within the bound, and
\* a batch is drawn for each once.
LEMMA BatchesStep ==
    ASSUME TypeOK, BatchesBound, [Next]_vars
    PROVE  BatchesBound'
<1>1. ReqOK /\ ReqOK'
  BY ReqStep DEF TypeOK, ReqOK
<1>2. /\ Enrolling \subseteq Enabling
      /\ Cardinality(Enrolling) \in Nat /\ Cardinality(Enabling) \in Nat
      /\ Cardinality(Enrolling) <= Cardinality(Enabling)
  <2>1. Enrolling \subseteq Enabling
    BY <1>1, Shapes DEF ReqOK, Enrolling, Enabling
  <2>2. QED BY <2>1, FS_Subset, FS_CardinalityType DEF BatchesBound
<1>3. ASSUME Enabling' \subseteq Enabling, Enrolling' \subseteq Enrolling,
             UNCHANGED batches
      PROVE  BatchesBound'
  <2>1. IsFiniteSet(Enrolling)
    BY <1>2, FS_Subset DEF BatchesBound
  <2>2. /\ IsFiniteSet(Enabling')
        /\ Cardinality(Enrolling') <= Cardinality(Enrolling)
        /\ Cardinality(Enrolling') \in Nat
    BY <1>3, <2>1, FS_Subset, FS_CardinalityType DEF BatchesBound
  <2>3. QED BY <1>2, <1>3, <2>2, AuthAssumption DEF BatchesBound
<1>4. ASSUME NEW r \in Requests, NEW n \in Names, LoadPending(r, n)
      PROVE  BatchesBound'
  <2>1. Enabling' = Enabling \cup {r} /\ Enrolling' = Enrolling \cup {r}
    BY <1>1, <1>4 DEF LoadPending, Goto, Enabling, Enrolling, ReqOK
  <2>2. Cardinality(Enabling) + batches < MaxBatches
    BY <1>2, <1>4 DEF LoadPending, Under, Enabling, BatchesBound
  <2>3. IsFiniteSet(Enrolling)
    BY <1>2, FS_Subset DEF BatchesBound
  <2>4. /\ IsFiniteSet(Enabling')
        /\ Cardinality(Enrolling') \in Nat
        /\ Cardinality(Enrolling') <= Cardinality(Enrolling) + 1
    <3>1. IsFiniteSet(Enabling)
      BY DEF BatchesBound
    <3>2. IsFiniteSet(Enabling \cup {r})
      BY <3>1, FS_AddElement
    <3>3. /\ Cardinality(Enrolling \cup {r}) \in Nat
          /\ Cardinality(Enrolling \cup {r}) <= Cardinality(Enrolling) + 1
      BY <2>3, AddOne
    <3>4. QED BY <2>1, <3>2, <3>3
  <2>5. batches' = batches
    BY <1>4 DEF LoadPending
  <2>6. QED BY <1>2, <2>2, <2>4, <2>5, AuthAssumption DEF BatchesBound
<1>5. ASSUME NEW r \in Requests, EnableTOTP(r)
      PROVE  BatchesBound'
  <2>1. req[r] \in Enrolments
    BY <1>1, <1>5, Shapes DEF EnableTOTP, ReqOK
  <2>2. r \in Enrolling /\ Enabling' = Enabling /\ Enrolling' = Enrolling \ {r}
    BY <1>1, <1>5, <2>1
       DEF EnableTOTP, Goto, Enabling, Enrolling, ReqOK, Enrolments
  <2>3. IsFiniteSet(Enrolling)
    BY <1>2, FS_Subset DEF BatchesBound
  <2>4. Cardinality(Enrolling') = Cardinality(Enrolling) - 1
    BY <2>2, <2>3, FS_RemoveElement
  <2>5. batches' = batches + 1
    BY <1>5 DEF EnableTOTP
  <2>6. QED BY <1>2, <2>2, <2>4, <2>5, AuthAssumption DEF BatchesBound
<1>6. ASSUME NEW r \in Requests, NEW x, x.kind # "enable", x.pc # "enrol",
             Goto(r, x), UNCHANGED batches
      PROVE  BatchesBound'
  <2>1. Enabling' \subseteq Enabling /\ Enrolling' \subseteq Enrolling
    BY <1>1, <1>6 DEF Goto, Enabling, Enrolling, ReqOK
  <2>2. QED BY <1>3, <1>6, <2>1
<1>7. ASSUME NEW r \in Requests, End(r), UNCHANGED batches
      PROVE  BatchesBound'
  BY <1>6, <1>7 DEF End, Idle
<1>8. ASSUME NEW r \in Requests, Begin(r)
      PROVE  BatchesBound'
  <2>1. CASE \E n \in Names : LoadPending(r, n)
    BY <1>4, <2>1
  <2>2. CASE \E k \in {"login", "login3", "disable"}, n \in Names,
                pw \in Passwords, f \in Factors : CheckPassword(r, k, n, pw, f)
    BY <1>6, <2>2 DEF CheckPassword
  <2>3. CASE \E i \in Ids, old \in Passwords, n \in Names, pw \in Passwords :
                ReadForChange(r, i, old, n, pw)
    BY <1>6, <2>3 DEF ReadForChange
  <2>4. CASE \E n \in Names, pw \in Passwords : ReadForReset(r, n, pw)
    BY <1>6, <2>4 DEF ReadForReset
  <2>5. CASE \/ \E n \in Names, d \in 0..1 : AddToken(r, n, d)
             \/ \E n \in Names, t \in 1..MaxTokens : DeleteToken(r, n, t)
    BY <1>6, <2>5 DEF AddToken, DeleteToken
  <2>6. QED BY <1>8, <2>1, <2>2, <2>3, <2>4, <2>5 DEF Begin
<1>9. ASSUME NEW r \in Requests, Step(r)
      PROVE  BatchesBound'
  <2> DEFINE x == req[r]
  <2>1. ASSUME x \in Logins
        PROVE  /\ [x EXCEPT !.pc = "factor"].kind # "enable"
               /\ [x EXCEPT !.pc = "factor", !.row.hashed = TRUE].kind # "enable"
               /\ [x EXCEPT !.pc = "factor", !.row.hashed = TRUE].pc # "enrol"
               /\ [x EXCEPT !.pc = "factor"].pc # "enrol"
               /\ [x EXCEPT !.pc = "granted"].kind # "enable"
               /\ [x EXCEPT !.pc = "granted"].pc # "enrol"
               /\ [x EXCEPT !.pc = "lock"].kind # "enable"
               /\ [x EXCEPT !.pc = "lock"].pc # "enrol"
               /\ \A row : /\ [x EXCEPT !.pc = "codes", !.row = row].kind # "enable"
                           /\ [x EXCEPT !.pc = "codes", !.row = row].pc # "enrol"
    BY <2>1 DEF Logins
  <2>2. x.pc \in {"upgrade", "factor", "lock", "codes"} => x \in Logins
    BY <1>1, Shapes DEF ReqOK
  <2>3. CASE UpgradePassword(r)
    BY <1>6, <2>1, <2>2, <2>3 DEF UpgradePassword
  <2>4. CASE VerifySecondFactor(r)
    BY <1>6, <1>7, <2>1, <2>2, <2>4 DEF VerifySecondFactor
  <2>5. CASE LockAndReread(r)
    BY <1>6, <2>1, <2>2, <2>5 DEF LockAndReread
  <2>6. CASE UseCode(r)
    BY <1>6, <1>7, <2>1, <2>2, <2>6 DEF UseCode
  <2>7. CASE GrantSession(r) \/ ClearTOTP(r) \/ ForgetPending(r) \/ ReloadStore(r)
          \/ ReloadFails(r)
    BY <1>7, <2>7 DEF GrantSession, ClearTOTP, ForgetPending, ReloadStore, ReloadFails
  <2>8. CASE \E d \in 0..1 : GrantToken(r, d)
    BY <1>6, <1>7, <2>8 DEF GrantToken
  <2>9. CASE EnableTOTP(r)
    BY <1>5, <2>9
  <2>10. CASE SaveRow(r)
    <3>1. x \in Saves
      BY <1>1, <2>10, Shapes DEF SaveRow, ReqOK
    <3>2. QED BY <1>6, <2>10, <3>1 DEF SaveRow, Saves, Idle
  <2>11. CASE ReloadLoad(r)
    <3>1. x \in Loads
      BY <1>1, <2>11, Shapes DEF ReloadLoad, ReqOK
    <3>2. QED BY <1>6, <2>11, <3>1 DEF ReloadLoad, Loads
  <2>12. QED BY <1>9, <2>3, <2>4, <2>5, <2>6, <2>7, <2>8, <2>9, <2>10, <2>11
            DEF Step
<1>10. CASE Restart
  <2>1. Enabling' \subseteq Enabling /\ Enrolling' \subseteq Enrolling
    BY <1>10 DEF Restart, Enabling, Enrolling, Idle
  <2>2. QED BY <1>3, <1>10, <2>1 DEF Restart
<1>11. CASE UNCHANGED <<req, batches>>
  BY <1>11 DEF BatchesBound, Enabling, Enrolling
<1>12. QED BY <1>8, <1>9, <1>10, <1>11 DEF Next, vars, BeginTOTP, Tick

\* What the first step of a request leaves alone: it may write tokens, and
\* nothing else that is shared.
LEMMA BeginFrame ==
    ASSUME NEW r \in Requests, Begin(r)
    PROVE  /\ UNCHANGED <<now, users, pending, secrets, accepted>>
           /\ \/ UNCHANGED <<tokens, version>>
              \/ \E n \in Names, d \in 0..1 : NewToken(n, d)
              \/ \E t : tokens' = Without(tokens, {t}) /\ Changed
<1>1. CASE \E k \in {"login", "login3", "disable"}, n \in Names, pw \in Passwords,
              f \in Factors : CheckPassword(r, k, n, pw, f)
  BY <1>1 DEF CheckPassword
<1>2. CASE \E n \in Names : LoadPending(r, n)
  BY <1>2 DEF LoadPending
<1>3. CASE \E i \in Ids, old \in Passwords, n \in Names, pw \in Passwords :
              ReadForChange(r, i, old, n, pw)
  BY <1>3 DEF ReadForChange
<1>4. CASE \E n \in Names, pw \in Passwords : ReadForReset(r, n, pw)
  BY <1>4 DEF ReadForReset
<1>5. ASSUME NEW n \in Names, NEW d \in 0..1, AddToken(r, n, d)
      PROVE  UNCHANGED <<now, users, pending, secrets, accepted>> /\ NewToken(n, d)
  BY <1>5 DEF AddToken
<1>6. ASSUME NEW n \in Names, NEW t \in 1..MaxTokens, DeleteToken(r, n, t)
      PROVE  /\ UNCHANGED <<now, users, pending, secrets, accepted>>
             /\ tokens' = Without(tokens, {t}) /\ Changed
  BY <1>6 DEF DeleteToken
<1>7. QED BY <1>1, <1>2, <1>3, <1>4, <1>5, <1>6 DEF Begin

\* Which later step of a request writes what.
LEMMA StepFrame ==
    ASSUME NEW r \in Requests, Step(r)
    PROVE  /\ UNCHANGED <<now, secrets>>
           /\ \/ UNCHANGED users
              \/ UpgradePassword(r) \/ UseCode(r) \/ ClearTOTP(r) \/ EnableTOTP(r) \/ SaveRow(r)
           /\ UNCHANGED accepted \/ UseCode(r)
           /\ UNCHANGED pending \/ ForgetPending(r)
           /\ UNCHANGED tokens \/ \E n : \E d \in 0..1 : NewToken(n, d)
           /\ UNCHANGED version \/ Changed
<1> DEFINE Goal == /\ UNCHANGED <<now, secrets>>
                   /\ \/ UNCHANGED users
                      \/ UpgradePassword(r) \/ UseCode(r) \/ ClearTOTP(r)
                      \/ EnableTOTP(r) \/ SaveRow(r)
                   /\ UNCHANGED accepted \/ UseCode(r)
                   /\ UNCHANGED pending \/ ForgetPending(r)
                   /\ UNCHANGED tokens \/ \E n : \E d \in 0..1 : NewToken(n, d)
                   /\ UNCHANGED version \/ Changed
<1> SUFFICES Goal
  OBVIOUS
<1>1. CASE UpgradePassword(r)
  <2>1. UNCHANGED <<now, secrets, accepted, pending, tokens, version>>
    BY <1>1 DEF UpgradePassword
  <2>2. QED BY <1>1, <2>1
<1>2. CASE UseCode(r)
  <2>1. UNCHANGED <<now, secrets, pending, tokens, version>>
    BY <1>2 DEF UseCode
  <2>2. QED BY <1>2, <2>1
<1>3. CASE ClearTOTP(r)
  <2>1. UNCHANGED <<now, secrets, accepted, pending, tokens, version>>
    BY <1>3 DEF ClearTOTP
  <2>2. QED BY <1>3, <2>1
<1>4. CASE EnableTOTP(r)
  <2>1. UNCHANGED <<now, secrets, accepted, pending, tokens, version>>
    BY <1>4 DEF EnableTOTP
  <2>2. QED BY <1>4, <2>1
<1>5. CASE SaveRow(r)
  <2>1. UNCHANGED <<now, secrets, accepted, pending, tokens>>
        /\ (UNCHANGED version \/ Changed)
    BY <1>5 DEF SaveRow
  <2>2. QED BY <1>5, <2>1
<1>6. CASE ForgetPending(r)
  <2>1. UNCHANGED <<now, secrets, users, accepted, tokens, version>>
    BY <1>6 DEF ForgetPending
  <2>2. QED BY <1>6, <2>1
<1>7. CASE \E d \in 0..1 : GrantToken(r, d)
  <2>1. PICK d \in 0..1 : GrantToken(r, d)
    BY <1>7
  <2>2. UNCHANGED <<now, secrets, users, accepted, pending>>
    BY <2>1 DEF GrantToken
  <2>3. NewToken(req[r].row.name, d) \/ UNCHANGED <<tokens, version>>
    BY <2>1 DEF GrantToken
  <2>4. CASE NewToken(req[r].row.name, d)
    <3>1. Changed
      BY <2>4 DEF NewToken
    <3>2. \E n : \E e \in 0..1 : NewToken(n, e)
      BY <2>4
    <3>3. QED BY <2>2, <3>1, <3>2
  <2>5. QED BY <2>2, <2>3, <2>4
<1>8. CASE VerifySecondFactor(r)
  BY <1>8 DEF VerifySecondFactor
<1>9. CASE LockAndReread(r) \/ GrantSession(r) \/ ReloadLoad(r) \/ ReloadStore(r)
          \/ ReloadFails(r)
  BY <1>9 DEF LockAndReread, GrantSession, ReloadLoad, ReloadStore, ReloadFails
<1> HIDE DEF Goal
<1>10. QED BY <1>1, <1>2, <1>3, <1>4, <1>5, <1>6, <1>7, <1>8, <1>9 DEF Step

\* The steps that no request makes.
LEMMA OtherFrame ==
    ASSUME [Next]_vars, \A r \in Requests : ~Begin(r) /\ ~Step(r)
    PROVE  /\ UNCHANGED <<users, accepted, tokens, version>>
           /\ now' = now \/ now' = now + 1
           /\ secrets' = secrets \/ secrets' = secrets + 1
           /\ UNCHANGED pending \/ pending' = <<>> \/ \E n \in Names : BeginTOTP(n)
<1>1. CASE \E n \in Names : BeginTOTP(n)
  <2>1. UNCHANGED <<users, accepted, tokens, version, now>> /\ secrets' = secrets + 1
    BY <1>1 DEF BeginTOTP
  <2>2. QED BY <1>1, <2>1
<1>2. CASE Tick
  BY <1>2 DEF Tick
<1>3. CASE Restart
  BY <1>3 DEF Restart
<1>4. CASE UNCHANGED vars
  BY <1>4 DEF vars
<1>5. QED BY <1>1, <1>2, <1>3, <1>4 DEF Next

\* A row stays a row when its second factor is replaced.
LEMMA FactorRows ==
    \A u \in Rows, s \in Nat, c \in SUBSET Codes :
        [u EXCEPT !.totp = s, !.codes = c] \in Rows
BY DEF Rows

\* Every step writes well-formed rows.
LEMMA UsersStep ==
    ASSUME TypeOK, BatchesBound, BatchesBound', [Next]_vars
    PROVE  users' \in [Ids -> Rows]
<1>1. ReqOK /\ users \in [Ids -> Rows]
  BY DEF TypeOK, ReqOK
<1>2. ASSUME NEW r \in Requests, UpgradePassword(r)
      PROVE  users' \in [Ids -> Rows]
  <2>1. req[r] \in Logins
    BY <1>1, <1>2, Shapes DEF UpgradePassword, ReqOK
  <2>2. req[r].row.pass \in Passwords
    BY <2>1 DEF Logins, Rows
  <2>3. QED BY <1>1, <1>2, <2>2 DEF UpgradePassword, Rows
<1>3. ASSUME NEW r \in Requests, UseCode(r)
      PROVE  users' \in [Ids -> Rows]
  <2>1. req[r] \in Logins
    BY <1>1, <1>3, Shapes DEF UseCode, ReqOK
  <2>2. req[r].row.codes \in SUBSET Codes
    BY <2>1 DEF Logins, Rows
  <2>3. QED BY <1>1, <1>3, <2>2 DEF UseCode, Rows
<1>4. ASSUME NEW r \in Requests, ClearTOTP(r)
      PROVE  users' \in [Ids -> Rows]
  <2>1. users' = [users EXCEPT ![req[r].id] = [users[req[r].id] EXCEPT !.totp = 0,
                                                                     !.codes = {}]]
    BY <1>1, <1>4 DEF ClearTOTP
  <2>2. req[r].id \in Ids => [users[req[r].id] EXCEPT !.totp = 0, !.codes = {}] \in Rows
    BY <1>1, FactorRows
  <2>3. QED BY <1>1, <2>1, <2>2
<1>5. ASSUME NEW r \in Requests, EnableTOTP(r)
      PROVE  users' \in [Ids -> Rows]
  <2>1. req[r] \in Enrolments
    BY <1>1, <1>5, Shapes DEF EnableTOTP, ReqOK
  <2>2. req[r].secret \in Nat
    BY <2>1 DEF Enrolments
  <2>3. batches' = batches + 1 /\ batches' \in Nat
    BY <1>5 DEF EnableTOTP, BatchesBound
  <2>4. batches' <= MaxBatches
    <3>1. Enrolling' \subseteq Enabling'
      BY ReqStep, Shapes DEF Enrolling, Enabling, ReqOK
    <3>2. Cardinality(Enrolling') \in Nat
      BY <3>1, FS_Subset, FS_CardinalityType DEF BatchesBound
    <3>3. QED BY <2>3, <3>2, AuthAssumption DEF BatchesBound
  <2>5. Batch(batches + 1) \in SUBSET Codes
    BY <2>3, <2>4, BatchCodes, AuthAssumption
  <2>6. ASSUME NEW i \in Ids
        PROVE  [users[i] EXCEPT !.totp = req[r].secret,
                                !.codes = Batch(batches + 1)] \in Rows
    <3>1. users[i] \in Rows
      BY <1>1
    <3>2. QED BY <2>2, <2>5, <3>1, FactorRows
  <2>7. QED BY <1>1, <1>5, <2>6 DEF EnableTOTP
<1>6. ASSUME NEW r \in Requests, SaveRow(r)
      PROVE  users' \in [Ids -> Rows]
  <2>1. req[r] \in Saves
    BY <1>1, <1>6, Shapes DEF SaveRow, ReqOK
  <2>2. QED BY <1>1, <1>6, <2>1 DEF SaveRow, Saves
<1>7. CASE UNCHANGED users
  BY <1>1, <1>7
<1>8. ASSUME NEW r \in Requests, Begin(r) \/ Step(r) PROVE users' \in [Ids -> Rows]
  BY <1>2, <1>3, <1>4, <1>5, <1>6, <1>7, <1>8, BeginFrame, StepFrame
<1>9. CASE \A r \in Requests : ~Begin(r) /\ ~Step(r)
  BY <1>7, <1>9, OtherFrame
<1>10. QED BY <1>8, <1>9

\* Every step writes well-formed tokens, pending secrets and counters.
LEMMA CountersStep ==
    ASSUME TypeOK, [Next]_vars
    PROVE  /\ (DOMAIN pending \subseteq Names)'
           /\ (\A n \in DOMAIN pending : pending[n].secret \in Nat)'
           /\ accepted' \in [Codes -> Nat]
           /\ now' \in Nat /\ secrets' \in Nat /\ version' \in Nat
           /\ \A t \in DOMAIN tokens' : tokens'[t].expiry \in Nat
<1>1. accepted' \in [Codes -> Nat]
  <2>1. ASSUME NEW r \in Requests, UseCode(r)
        PROVE  accepted' \in [Codes -> Nat]
    BY <2>1 DEF UseCode, TypeOK
  <2>2. CASE UNCHANGED accepted
    BY <2>2 DEF TypeOK
  <2>3. QED BY <2>1, <2>2, BeginFrame, StepFrame, OtherFrame
<1>2. now' \in Nat /\ secrets' \in Nat /\ version' \in Nat
  <2>1. now' = now \/ now' = now + 1
    BY BeginFrame, StepFrame, OtherFrame
  <2>2. secrets' = secrets \/ secrets' = secrets + 1
    BY BeginFrame, StepFrame, OtherFrame
  <2>3. version' = version \/ version' = version + 1
    <3>1. Changed => version' = version + 1
      BY DEF Changed
    <3>2. ASSUME NEW n, NEW d, NewToken(n, d) PROVE Changed
      BY <3>2 DEF NewToken
    <3>3. QED BY <3>1, <3>2, BeginFrame, StepFrame, OtherFrame
  <2>4. QED BY <2>1, <2>2, <2>3 DEF TypeOK
<1>3. /\ (DOMAIN pending \subseteq Names)'
      /\ (\A n \in DOMAIN pending : pending[n].secret \in Nat)'
  <2> DEFINE Goal == /\ DOMAIN pending' \subseteq Names
                     /\ \A m \in DOMAIN pending' : pending'[m].secret \in Nat
  <2>1. ASSUME NEW n \in Names, BeginTOTP(n) PROVE Goal
    BY <2>1 DEF BeginTOTP, With, TypeOK
  <2>2. ASSUME NEW r \in Requests, ForgetPending(r) PROVE Goal
    BY <2>2 DEF ForgetPending, Without, TypeOK
  <2>3. ASSUME pending' = <<>> PROVE Goal
    BY <2>3
  <2>4. ASSUME UNCHANGED pending PROVE Goal
    BY <2>4 DEF TypeOK
  <2>5. Goal
    <3> HIDE DEF Goal
    <3> QED BY <2>1, <2>2, <2>3, <2>4, BeginFrame, StepFrame, OtherFrame
  <2>6. QED BY <2>5
<1>4. \A t \in DOMAIN tokens' : tokens'[t].expiry \in Nat
  <2> DEFINE Goal == \A t \in DOMAIN tokens' : tokens'[t].expiry \in Nat
  <2>1. ASSUME NEW n, NEW d \in 0..1, NewToken(n, d) PROVE Goal
    BY <2>1 DEF NewToken, With, TypeOK
  <2>2. ASSUME NEW t, tokens' = Without(tokens, {t}) PROVE Goal
    BY <2>2 DEF Without, TypeOK
  <2>3. ASSUME UNCHANGED tokens PROVE Goal
    BY <2>3 DEF TypeOK
  <2>4. Goal
    <3> HIDE DEF Goal
    <3> QED BY <2>1, <2>2, <2>3, BeginFrame, StepFrame, OtherFrame
  <2>5. QED BY <2>4
<1>5. QED BY <1>1, <1>2, <1>3, <1>4

\* What a request holds, and the rows, are well-formed in every reachable
\* state, and no more batches of codes are drawn than the bound has codes for.
THEOREM AuthTypes == Spec => [](TypeOK /\ BatchesBound)
<1>1. TypeOK /\ BatchesBound /\ [Next]_vars => (TypeOK /\ BatchesBound)'
  <2>1. SUFFICES ASSUME TypeOK, BatchesBound, [Next]_vars
                 PROVE  TypeOK' /\ BatchesBound'
    OBVIOUS
  <2>2. BatchesBound' /\ ReqOK'
    BY <2>1, BatchesStep, ReqStep
  <2>3. users' \in [Ids -> Rows]
    BY <2>1, <2>2, UsersStep
  <2>4. QED BY <2>1, <2>2, <2>3, CountersStep DEF TypeOK, ReqOK
<1>2. QED BY TypeInit, <1>1, PTL DEF Spec

-----------------------------------------------------------------------------
(* The lock *)

\* recoveryCodeMu is held exactly by the request that is at the codes.
LockInv ==
    /\ holder = {r \in Requests : req[r].pc = "codes"}
    /\ holder = {} \/ \E q \in Requests : holder = {q}

\* A step takes the lock to get to the codes, and releases it to leave them.
LEMMA LockStep ==
    ASSUME TypeOK, LockInv, [Next]_vars
    PROVE  LockInv'
<1>1. ReqOK
  BY DEF TypeOK, ReqOK
<1>2. ASSUME NEW r \in Requests, NEW x, x.pc # "codes", req[r].pc # "codes",
             Goto(r, x), UNCHANGED holder
      PROVE  LockInv'
  BY <1>1, <1>2 DEF LockInv, Goto, ReqOK
<1>3. ASSUME NEW r \in Requests, End(r), req[r].pc # "codes", UNCHANGED holder
      PROVE  LockInv'
  BY <1>2, <1>3 DEF End, Idle
<1>4. ASSUME NEW r \in Requests, LockAndReread(r)
      PROVE  LockInv'
  <2>1. req[r] \in Logins
    BY <1>1, <1>4, Shapes DEF LockAndReread, ReqOK
  <2>2. [req[r] EXCEPT !.pc = "codes", !.row = users[req[r].id]].pc = "codes"
    BY <2>1 DEF Logins
  <2>3. \A q \in Requests : req'[q].pc = "codes" <=> q = r
    BY <1>1, <1>4, <2>2 DEF LockAndReread, Goto, LockInv, ReqOK
  <2>4. QED BY <1>4, <2>3 DEF LockAndReread, LockInv
<1>5. ASSUME NEW r \in Requests, UseCode(r)
      PROVE  LockInv'
  <2>1. req[r] \in Logins
    BY <1>1, <1>5, Shapes DEF UseCode, ReqOK
  <2>2. [req[r] EXCEPT !.pc = "granted"].pc = "granted"
    BY <2>1 DEF Logins
  <2>3. holder = {r}
    BY <1>5 DEF UseCode, LockInv
  <2>4. \A q \in Requests : req'[q].pc # "codes"
    <3>1. \A q \in Requests \ {r} : req'[q].pc # "codes"
      BY <1>1, <1>5, <2>3 DEF UseCode, Goto, End, LockInv, ReqOK
    <3>2. CASE Goto(r, [req[r] EXCEPT !.pc = "granted"])
      BY <1>1, <2>2, <3>1, <3>2 DEF Goto, ReqOK
    <3>3. CASE Goto(r, Idle)
      BY <1>1, <3>1, <3>3 DEF Goto, Idle, ReqOK
    <3>4. QED BY <1>5, <3>2, <3>3 DEF UseCode, End
  <2>5. QED BY <1>5, <2>4 DEF UseCode, LockInv
<1>6. ASSUME NEW r \in Requests, Begin(r)
      PROVE  LockInv'
  <2>1. req[r] = Idle /\ UNCHANGED holder
    BY <1>6 DEF Begin, MayBegin, CheckPassword, LoadPending, ReadForChange,
                ReadForReset, AddToken, DeleteToken
  <2>2. CASE \E k \in {"login", "login3", "disable"}, n \in Names,
                pw \in Passwords, f \in Factors : CheckPassword(r, k, n, pw, f)
    BY <1>2, <2>1, <2>2 DEF CheckPassword, Idle
  <2>3. CASE \E n \in Names : LoadPending(r, n)
    BY <1>2, <2>1, <2>3 DEF LoadPending, Idle
  <2>4. CASE \E i \in Ids, old \in Passwords, n \in Names, pw \in Passwords :
                ReadForChange(r, i, old, n, pw)
    BY <1>2, <2>1, <2>4 DEF ReadForChange, Idle
  <2>5. CASE \E n \in Names, pw \in Passwords : ReadForReset(r, n, pw)
    BY <1>2, <2>1, <2>5 DEF ReadForReset, Idle
  <2>6. CASE \/ \E n \in Names, d \in 0..1 : AddToken(r, n, d)
             \/ \E n \in Names, t \in 1..MaxTokens : DeleteToken(r, n, t)
    <3>1. Goto(r, [kind |-> "token", pc |-> "load"])
      BY <2>6 DEF AddToken, DeleteToken
    <3>2. req[r].pc # "codes"
      BY <2>1 DEF Idle
    <3>3. QED BY <1>2, <2>1, <3>1, <3>2
  <2>7. QED BY <1>6, <2>2, <2>3, <2>4, <2>5, <2>6 DEF Begin
<1>7. ASSUME NEW r \in Requests, Step(r)
      PROVE  LockInv'
  <2>1. ASSUME req[r] \in Logins
        PROVE  /\ [req[r] EXCEPT !.pc = "factor", !.row.hashed = TRUE].pc = "factor"
               /\ [req[r] EXCEPT !.pc = "factor"].pc = "factor"
               /\ [req[r] EXCEPT !.pc = "granted"].pc = "granted"
               /\ [req[r] EXCEPT !.pc = "lock"].pc = "lock"
    BY <2>1 DEF Logins
  <2>2. req[r].pc \in {"upgrade", "factor"} => req[r] \in Logins
    BY <1>1, Shapes DEF ReqOK
  <2>3. CASE UpgradePassword(r)
    BY <1>2, <2>1, <2>2, <2>3 DEF UpgradePassword
  <2>4. CASE VerifySecondFactor(r)
    BY <1>2, <1>3, <2>1, <2>2, <2>4 DEF VerifySecondFactor
  <2>5. CASE GrantSession(r) \/ ClearTOTP(r) \/ ForgetPending(r) \/ ReloadStore(r)
          \/ ReloadFails(r)
    BY <1>3, <2>5 DEF GrantSession, ClearTOTP, ForgetPending, ReloadStore, ReloadFails
  <2>6. CASE \E d \in 0..1 : GrantToken(r, d)
    BY <1>2, <1>3, <2>6 DEF GrantToken
  <2>7. CASE EnableTOTP(r)
    <3>1. req[r] \in Enrolments
      BY <1>1, <2>7, Shapes DEF EnableTOTP, ReqOK
    <3>2. [req[r] EXCEPT !.pc = "forget"].pc = "forget"
      BY <3>1 DEF Enrolments
    <3>3. QED BY <1>2, <2>7, <3>2 DEF EnableTOTP
  <2>8. CASE SaveRow(r)
    BY <1>2, <2>8 DEF SaveRow, Idle
  <2>9. CASE ReloadLoad(r)
    BY <1>2, <2>9 DEF ReloadLoad
  <2>10. QED BY <1>4, <1>5, <1>7, <2>3, <2>4, <2>5, <2>6, <2>7, <2>8, <2>9 DEF Step
<1>8. CASE Restart
  <2>1. \A q \in Requests : req'[q].pc # "codes"
    BY <1>1, <1>8, Shapes DEF Restart, ReqOK, Idle
  <2>2. QED BY <1>8, <2>1 DEF Restart, LockInv
<1>9. CASE UNCHANGED <<req, holder>>
  BY <1>9 DEF LockInv
<1>10. QED BY <1>6, <1>7, <1>8, <1>9 DEF Next, vars, BeginTOTP, Tick

\* recoveryCodeMu is held by exactly the request that is between reading the
\* codes again and writing them: every path of VerifySecondFactor releases it,
\* for any number of requests, and a restart of the panel does too.
THEOREM LockReleased == Spec => []CodeLockReleased
<1>1. Init => LockInv
  BY DEF Init, LockInv, Idle
<1>2. LockInv /\ TypeOK /\ [Next]_vars => LockInv'
  BY LockStep
<1>3. LockInv => CodeLockReleased
  <2>1. ASSUME LockInv PROVE Cardinality(holder) <= 1
    <3>1. CASE holder = {}
      BY <3>1, FS_EmptySet
    <3>2. CASE \E q \in Requests : holder = {q}
      BY <3>2, FS_Singleton
    <3>3. QED BY <2>1, <3>1, <3>2 DEF LockInv
  <2>2. QED BY <2>1 DEF LockInv, CodeLockReleased
<1>4. QED BY <1>1, <1>2, <1>3, AuthTypes, PTL DEF Spec

-----------------------------------------------------------------------------
(* Kinds of requests *)

\* A request keeps its kind until it ends.
LEMMA StepKind ==
    ASSUME ReqOK, NEW r \in Requests, Step(r)
    PROVE  /\ req[r] # Idle
           /\ req'[r].kind \in {req[r].kind, "none"}
           /\ \A q \in Requests \ {r} : req'[q] = req[q]
<1> DEFINE x == req[r]
<1>1. ASSUME x # Idle, NEW y, y.kind = x.kind, Goto(r, y)
      PROVE  /\ req[r] # Idle
             /\ req'[r].kind \in {req[r].kind, "none"}
             /\ \A q \in Requests \ {r} : req'[q] = req[q]
  BY <1>1 DEF Goto, ReqOK
<1>2. ASSUME x # Idle, End(r)
      PROVE  /\ req[r] # Idle
             /\ req'[r].kind \in {req[r].kind, "none"}
             /\ \A q \in Requests \ {r} : req'[q] = req[q]
  BY <1>2 DEF End, Goto, Idle, ReqOK
<1>3. ASSUME x \in Logins
      PROVE  /\ [x EXCEPT !.pc = "factor", !.row.hashed = TRUE].kind = x.kind
             /\ [x EXCEPT !.pc = "factor"].kind = x.kind
             /\ [x EXCEPT !.pc = "granted"].kind = x.kind
             /\ [x EXCEPT !.pc = "lock"].kind = x.kind
             /\ [x EXCEPT !.pc = "codes", !.row = users[x.id]].kind = x.kind
  BY <1>3 DEF Logins
<1>4. x.pc \in {"upgrade", "factor", "lock", "codes"} => x \in Logins
  BY Shapes DEF ReqOK
<1>5. x.pc # "idle" => x # Idle
  BY DEF Idle
<1>6. CASE UpgradePassword(r)
  BY <1>1, <1>3, <1>4, <1>5, <1>6 DEF UpgradePassword
<1>7. CASE VerifySecondFactor(r)
  BY <1>1, <1>2, <1>3, <1>4, <1>5, <1>7 DEF VerifySecondFactor
<1>8. CASE LockAndReread(r)
  BY <1>1, <1>3, <1>4, <1>5, <1>8 DEF LockAndReread
<1>9. CASE UseCode(r)
  BY <1>1, <1>2, <1>3, <1>4, <1>5, <1>9 DEF UseCode
<1>10. CASE GrantSession(r) \/ ClearTOTP(r) \/ ForgetPending(r) \/ ReloadStore(r)
          \/ ReloadFails(r)
  BY <1>2, <1>5, <1>10 DEF GrantSession, ClearTOTP, ForgetPending, ReloadStore, ReloadFails
<1>11. CASE \E d \in 0..1 : GrantToken(r, d)
  BY <1>1, <1>2, <1>5, <1>11 DEF GrantToken
<1>12. CASE EnableTOTP(r)
  <2>1. x \in Enrolments
    BY <1>12, Shapes DEF EnableTOTP, ReqOK
  <2>2. [x EXCEPT !.pc = "forget"].kind = x.kind
    BY <2>1 DEF Enrolments
  <2>3. QED BY <1>1, <1>5, <1>12, <2>2 DEF EnableTOTP
<1>13. CASE SaveRow(r)
  <2>1. Goto(r, [kind |-> x.kind, pc |-> "load"]) \/ End(r)
    BY <1>13 DEF SaveRow, End
  <2>2. QED BY <1>1, <1>2, <1>5, <1>13, <2>1 DEF SaveRow
<1>14. CASE ReloadLoad(r)
  BY <1>1, <1>5, <1>14 DEF ReloadLoad
<1>15. QED BY <1>6, <1>7, <1>8, <1>9, <1>10, <1>11, <1>12, <1>13, <1>14 DEF Step

\* A request begins when none is under way that overlaps with no other.
LEMMA BeginKind ==
    ASSUME ReqOK, NEW r \in Requests, Begin(r)
    PROVE  /\ req[r] = Idle
           /\ \A q \in Requests : req[q] # Idle =>
                 req'[r].kind \notin Alone /\ req[q].kind \notin Alone
           /\ \A q \in Requests \ {r} : req'[q] = req[q]
<1>1. ASSUME NEW kind, MayBegin(r, kind), NEW y, y.kind = kind, Goto(r, y)
      PROVE  /\ req[r] = Idle
             /\ \A q \in Requests : req[q] # Idle =>
                   req'[r].kind \notin Alone /\ req[q].kind \notin Alone
             /\ \A q \in Requests \ {r} : req'[q] = req[q]
  BY <1>1 DEF MayBegin, Goto, ReqOK
<1>2. CASE \E k \in {"login", "login3", "disable"}, n \in Names,
              pw \in Passwords, f \in Factors : CheckPassword(r, k, n, pw, f)
  BY <1>1, <1>2 DEF CheckPassword
<1>3. CASE \E n \in Names : LoadPending(r, n)
  BY <1>1, <1>3 DEF LoadPending
<1>4. CASE \E i \in Ids, old \in Passwords, n \in Names, pw \in Passwords :
              ReadForChange(r, i, old, n, pw)
  BY <1>1, <1>4 DEF ReadForChange
<1>5. CASE \E n \in Names, pw \in Passwords : ReadForReset(r, n, pw)
  BY <1>1, <1>5 DEF ReadForReset
<1>6. CASE \/ \E n \in Names, d \in 0..1 : AddToken(r, n, d)
           \/ \E n \in Names, t \in 1..MaxTokens : DeleteToken(r, n, t)
  <2>1. MayBegin(r, "token") /\ Goto(r, [kind |-> "token", pc |-> "load"])
    BY <1>6 DEF AddToken, DeleteToken
  <2>2. QED BY <1>1, <2>1
<1>7. QED BY <1>2, <1>3, <1>4, <1>5, <1>6 DEF Begin

\* A request of a kind in Alone is alone.
AloneInv == \A r \in Requests : req[r].kind \in Alone =>
               \A q \in Requests \ {r} : req[q] = Idle

\* No step lets another request in beside one that is alone.
LEMMA AloneStep ==
    ASSUME TypeOK, AloneInv, [Next]_vars
    PROVE  AloneInv'
<1>1. ReqOK
  BY DEF TypeOK, ReqOK
<1>2. "none" \notin Alone /\ Idle.kind = "none"
  BY AuthAssumption DEF Kinds, Idle
<1>3. ASSUME NEW r \in Requests, Begin(r) PROVE AloneInv'
  BY <1>1, <1>2, <1>3, BeginKind DEF AloneInv
<1>4. ASSUME NEW r \in Requests, Step(r) PROVE AloneInv'
  BY <1>1, <1>2, <1>4, StepKind DEF AloneInv
<1>5. CASE Restart
  BY <1>1, <1>2, <1>5 DEF AloneInv, Restart, ReqOK
<1>6. CASE UNCHANGED req
  BY <1>6 DEF AloneInv
<1>7. QED BY <1>3, <1>4, <1>5, <1>6 DEF Next, vars, BeginTOTP, Tick

-----------------------------------------------------------------------------
(* Recovery codes *)

LiveCodes == IssuedCodes \ SpentCodes

\* The requests that write a whole row back overlap with no other.
LoneSavers == {"changePass", "cli"} \subseteq Alone

\* Codes that can still be found are unspent and belong to one administrator.
RowsInv ==
    /\ \A i \in Ids : users[i].codes \subseteq LiveCodes
    /\ \A i \in Ids, j \in Ids : i # j =>
          /\ users[i].name # users[j].name
          /\ users[i].codes \cap users[j].codes = {}

\* So are those of the copy a request is about to write.
CopiesInv ==
    \A r \in Requests :
        /\ req[r].pc = "codes" =>
              /\ req[r].row.codes \subseteq LiveCodes
              /\ \A j \in Ids \ {req[r].id} :
                    req[r].row.codes \cap users[j].codes = {}
        /\ req[r].pc = "save" => req[r].row.codes = users[req[r].id].codes

CodesInv ==
    /\ SpentCodes \subseteq IssuedCodes
    /\ EachCodeOnce
    /\ RowsInv
    /\ CopiesInv

\* A new batch has no code of an earlier one.
LEMMA NewBatch ==
    ASSUME batches \in Nat, batches' = batches + 1
    PROVE  /\ IssuedCodes' = IssuedCodes \cup Batch(batches + 1)
           /\ IssuedCodes \cap Batch(batches + 1) = {}
<1>1. 0..batches' = (0..batches) \cup {batches + 1}
  OBVIOUS
<1>2. IssuedCodes' = UNION {Batch(b) : b \in 0..batches'}
  BY DEF IssuedCodes, Batch
<1>3. ASSUME NEW c, c \in IssuedCodes, c \in Batch(batches + 1)
      PROVE  FALSE
  <2>1. PICK b \in 0..batches : c \in Batch(b)
    BY <1>3 DEF IssuedCodes
  <2>2. c[1] = b
    BY <2>1 DEF Batch
  <2>3. c[1] = batches + 1
    BY <1>3 DEF Batch
  <2>4. QED BY <2>2, <2>3
<1>4. QED BY <1>1, <1>2, <1>3 DEF IssuedCodes

\* A step that writes neither names nor codes and makes no copy of a row.
LEMMA QuietStep ==
    ASSUME CodesInv, UNCHANGED <<accepted, batches>>,
           \A i \in Ids : /\ users'[i].name = users[i].name
                          /\ users'[i].codes = users[i].codes,
           \A r \in Requests : req'[r].pc \in {"codes", "save"} =>
                                  req'[r] = req[r] /\ req[r].id \in Ids
    PROVE  CodesInv'
<1>1. /\ SpentCodes' = SpentCodes /\ IssuedCodes' = IssuedCodes
      /\ LiveCodes' = LiveCodes /\ EachCodeOnce'
  BY DEF SpentCodes, IssuedCodes, LiveCodes, CodesInv, EachCodeOnce, Batch
<1>2. RowsInv'
  BY <1>1 DEF CodesInv, RowsInv
<1>3. CopiesInv'
  BY <1>1 DEF CodesInv, CopiesInv
<1>4. QED BY <1>1, <1>2, <1>3 DEF CodesInv

\* While an administrator's row is saved, no other request is under way.
LEMMA SaversAlone ==
    ASSUME LoneSavers, TypeOK, AloneInv, NEW r \in Requests, req[r].pc # "idle",
           NEW q \in Requests, q # r
    PROVE  req[q].pc # "save"
<1>1. ASSUME req[q].pc = "save" PROVE FALSE
  <2>1. req[q] \in Saves
    BY <1>1, Shapes DEF TypeOK
  <2>2. req[r] = Idle
    BY <2>1 DEF Saves, LoneSavers, AloneInv
  <2>3. QED BY <2>2 DEF Idle
<1>2. QED BY <1>1

\* A code that is found is unspent, and after it was used no row has it.
LEMMA UseCodeStep ==
    ASSUME LoneSavers, TypeOK, AloneInv, LockInv, CodesInv,
           NEW r \in Requests, UseCode(r)
    PROVE  /\ CodesInv'
           /\ \/ UNCHANGED <<accepted, batches>>
              \/ \E c \in LiveCodes :
                    /\ LiveCodes' = LiveCodes \ {c}
                    /\ SpentCodes' = SpentCodes \cup {c}
                    /\ accepted' = [accepted EXCEPT ![c] = @ + 1]
<1> DEFINE x == req[r]
<1>1. x \in Logins /\ x.id \in Ids
  BY Shapes DEF UseCode, TypeOK, Logins
<1>2. \A q \in Requests \ {r} : req'[q] = req[q] /\ req[q].pc \notin {"codes", "save"}
  <2>1. holder = {r}
    BY DEF UseCode, LockInv
  <2>2. \A q \in Requests \ {r} : req'[q] = req[q]
    BY DEF UseCode, Goto, End, TypeOK
  <2>3. QED BY <2>1, <2>2, SaversAlone DEF LockInv, UseCode
<1>3. req'[r].pc \in {"granted", "idle"}
  <2>1. [x EXCEPT !.pc = "granted"].pc = "granted"
    BY <1>1 DEF Logins
  <2>2. CASE Goto(r, [x EXCEPT !.pc = "granted"])
    BY <2>1, <2>2 DEF Goto, TypeOK
  <2>3. CASE Goto(r, Idle)
    BY <2>3 DEF Goto, TypeOK, Idle
  <2>4. QED BY <2>2, <2>3 DEF UseCode, End
<1>4. CopiesInv'
  BY <1>2, <1>3 DEF CopiesInv
<1>5. UNCHANGED batches
  BY DEF UseCode
<1>6. CASE UNCHANGED <<users, accepted>>
  <2>1. \A q \in Requests : req'[q].pc \notin {"codes", "save"}
    BY <1>2, <1>3
  <2>2. QED BY <1>5, <1>6, <2>1, QuietStep
<1>7. CASE /\ x.factor.code \in x.row.codes
           /\ users' = [users EXCEPT ![x.id].codes = x.row.codes \ {x.factor.code}]
           /\ accepted' = [accepted EXCEPT ![x.factor.code] = @ + 1]
  <2> DEFINE c == x.factor.code
  <2>1. /\ x.row.codes \subseteq LiveCodes
        /\ \A j \in Ids \ {x.id} : x.row.codes \cap users[j].codes = {}
    BY DEF UseCode, CodesInv, CopiesInv
  <2>2. c \in LiveCodes /\ c \in Codes /\ accepted[c] = 0
    <3>1. c \in Codes
      BY <1>1, <1>7 DEF Logins, Rows
    <3>2. QED BY <1>7, <2>1, <3>1 DEF LiveCodes, SpentCodes, TypeOK
  <2>3. /\ accepted'[c] = 1
        /\ \A d \in Codes \ {c} : accepted'[d] = accepted[d]
    BY <1>7, <2>2 DEF TypeOK
  <2>4. SpentCodes' = SpentCodes \cup {c}
    BY <2>2, <2>3 DEF SpentCodes
  <2>5. IssuedCodes' = IssuedCodes
    BY <1>5 DEF IssuedCodes, Batch
  <2>6. LiveCodes' = LiveCodes \ {c}
    BY <2>4, <2>5 DEF LiveCodes
  <2>7. EachCodeOnce'
    BY <2>3 DEF EachCodeOnce, CodesInv
  <2>8. /\ users'[x.id].codes = x.row.codes \ {c}
        /\ users'[x.id].name = users[x.id].name
        /\ \A j \in Ids \ {x.id} : users'[j] = users[j]
    BY <1>1, <1>7 DEF TypeOK, Rows
  <2>9. RowsInv'
    <3>1. ASSUME NEW i \in Ids PROVE users'[i].codes \subseteq LiveCodes'
      <4>1. CASE i = x.id
        BY <2>1, <2>6, <2>8, <4>1
      <4>2. CASE i # x.id
        BY <1>7, <2>1, <2>6, <2>8, <4>2 DEF CodesInv, RowsInv
      <4>3. QED BY <4>1, <4>2
    <3>2. ASSUME NEW i \in Ids, NEW k \in Ids, i # k
          PROVE  /\ users'[i].name # users'[k].name
                 /\ users'[i].codes \cap users'[k].codes = {}
      <4>1. users[i].name # users[k].name /\ users[i].codes \cap users[k].codes = {}
        BY <3>2 DEF CodesInv, RowsInv
      <4>2. CASE i = x.id
        BY <2>1, <2>8, <3>2, <4>1, <4>2
      <4>3. CASE k = x.id
        BY <2>1, <2>8, <3>2, <4>1, <4>3
      <4>4. CASE i # x.id /\ k # x.id
        BY <2>8, <4>1, <4>4
      <4>5. QED BY <4>2, <4>3, <4>4
    <3>3. QED BY <3>1, <3>2 DEF RowsInv
  <2>10. (SpentCodes \subseteq IssuedCodes)'
    BY <2>2, <2>4, <2>5 DEF CodesInv, LiveCodes
  <2>11. QED BY <1>4, <1>7, <2>2, <2>4, <2>6, <2>7, <2>9, <2>10 DEF CodesInv
<1>8. QED BY <1>6, <1>7 DEF UseCode

\* A new batch has codes that were never issued, and at most one administrator
\* has the name it is drawn for.
LEMMA EnableStep ==
    ASSUME LoneSavers, TypeOK, BatchesBound, AloneInv, CodesInv,
           NEW r \in Requests, EnableTOTP(r)
    PROVE  /\ CodesInv'
           /\ LiveCodes' = LiveCodes \cup Batch(batches + 1)
           /\ Batch(batches + 1) \cap IssuedCodes = {}
           /\ UNCHANGED <<SpentCodes, accepted>>
<1> DEFINE New == Batch(batches + 1)
<1>1. batches \in Nat /\ batches' = batches + 1
  BY DEF BatchesBound, EnableTOTP
<1>2. IssuedCodes' = IssuedCodes \cup New /\ IssuedCodes \cap New = {}
  BY <1>1, NewBatch
<1>3. UNCHANGED accepted /\ SpentCodes' = SpentCodes /\ EachCodeOnce'
  BY DEF EnableTOTP, SpentCodes, EachCodeOnce, CodesInv
<1>4. SpentCodes \subseteq IssuedCodes
  BY DEF CodesInv
<1>5. LiveCodes' = LiveCodes \cup New
  BY <1>2, <1>3, <1>4 DEF LiveCodes
<1>6. ASSUME NEW i \in Ids
      PROVE  /\ users'[i].name = users[i].name
             /\ \/ users'[i].codes = New /\ users[i].name = req[r].name
                \/ users'[i].codes = users[i].codes
  <2>1. users[i] \in Rows
    BY DEF TypeOK
  <2>2. users'[i] = IF users[i].name = req[r].name
                    THEN [users[i] EXCEPT !.totp = req[r].secret, !.codes = New]
                    ELSE users[i]
    BY DEF EnableTOTP
  <2>3. /\ [users[i] EXCEPT !.totp = req[r].secret, !.codes = New].codes = New
        /\ [users[i] EXCEPT !.totp = req[r].secret, !.codes = New].name
              = users[i].name
    BY <2>1 DEF Rows
  <2>4. QED BY <2>2, <2>3
<1>7. LiveCodes \cap New = {}
  BY <1>2 DEF LiveCodes
<1> HIDE DEF New
<1>8. RowsInv'
  <2>1. ASSUME NEW i \in Ids PROVE users'[i].codes \subseteq LiveCodes'
    <3>1. users[i].codes \subseteq LiveCodes
      BY DEF CodesInv, RowsInv
    <3>2. QED BY <1>5, <1>6, <3>1
  <2>2. ASSUME NEW i \in Ids, NEW k \in Ids, i # k
        PROVE  /\ users'[i].name # users'[k].name
               /\ users'[i].codes \cap users'[k].codes = {}
    <3>1. /\ users[i].name # users[k].name
          /\ users[i].codes \cap users[k].codes = {}
          /\ users[i].codes \subseteq LiveCodes
          /\ users[k].codes \subseteq LiveCodes
      BY <2>2 DEF CodesInv, RowsInv
    <3>2. /\ users'[i].name = users[i].name
          /\ users'[k].name = users[k].name
          /\ \/ users'[i].codes = users[i].codes
             \/ users'[i].codes = New /\ users[i].name = req[r].name
          /\ \/ users'[k].codes = users[k].codes
             \/ users'[k].codes = New /\ users[k].name = req[r].name
      BY <1>6
    <3>3. QED BY <1>7, <3>1, <3>2
  <2>3. QED BY <2>1, <2>2 DEF RowsInv
<1>9. CopiesInv'
  <2>1. req[r] \in Enrolments
    BY Shapes DEF EnableTOTP, TypeOK
  <2>2. /\ req'[r].pc = "forget"
        /\ \A q \in Requests \ {r} : req'[q] = req[q]
    <3>1. [req[r] EXCEPT !.pc = "forget"].pc = "forget"
      BY <2>1 DEF Enrolments
    <3>2. QED BY <3>1 DEF EnableTOTP, Goto, TypeOK
  <2>3. ASSUME NEW q \in Requests, req'[q].pc \in {"codes", "save"}
        PROVE  req'[q] = req[q] /\ req[q].pc = "codes"
    BY <2>2, <2>3, SaversAlone DEF EnableTOTP
  <2>4. ASSUME NEW q \in Requests, req[q].pc = "codes", NEW k \in Ids \ {req[q].id}
        PROVE  /\ req[q].row.codes \subseteq LiveCodes'
               /\ req[q].row.codes \cap users'[k].codes = {}
    <3>1. /\ req[q].row.codes \subseteq LiveCodes
          /\ req[q].row.codes \cap users[k].codes = {}
      BY <2>4 DEF CodesInv, CopiesInv
    <3>2. QED BY <1>5, <1>6, <1>7, <3>1
  <2>5. ASSUME NEW q \in Requests, req[q].pc = "codes"
        PROVE  req[q].row.codes \subseteq LiveCodes'
    BY <1>5, <2>5 DEF CodesInv, CopiesInv
  <2>6. QED BY <2>3, <2>4, <2>5 DEF CopiesInv
<1>10. (SpentCodes \subseteq IssuedCodes)'
  BY <1>2, <1>3, <1>4
<1>11. QED BY <1>2, <1>3, <1>5, <1>8, <1>9, <1>10 DEF CodesInv, New

\* What a step leaves of the codes when it accepts none and draws none.
LEMMA SameCodes ==
    ASSUME UNCHANGED <<accepted, batches>>
    PROVE  /\ SpentCodes' = SpentCodes /\ IssuedCodes' = IssuedCodes
           /\ LiveCodes' = LiveCodes
           /\ EachCodeOnce => EachCodeOnce'
BY DEF SpentCodes, IssuedCodes, LiveCodes, EachCodeOnce, Batch

\* The codes of an administrator who disables TOTP are gone.
LEMMA ClearStep ==
    ASSUME LoneSavers, TypeOK, AloneInv, CodesInv,
           NEW r \in Requests, ClearTOTP(r)
    PROVE  CodesInv' /\ UNCHANGED <<accepted, batches>>
<1>1. UNCHANGED <<accepted, batches>>
  BY DEF ClearTOTP
<1>2. req[r] \in Logins
  BY Shapes DEF ClearTOTP, TypeOK
<1>3. \A i \in Ids : /\ users'[i].name = users[i].name
                     /\ users'[i].codes \subseteq users[i].codes
  BY <1>2 DEF ClearTOTP, TypeOK, Logins, Rows
<1>4. \A q \in Requests : req'[q].pc \in {"codes", "save"} =>
                             req'[q] = req[q] /\ req[q].pc = "codes"
  <2>1. req'[r].pc = "idle" /\ \A q \in Requests \ {r} : req'[q] = req[q]
    BY DEF ClearTOTP, End, Goto, Idle, TypeOK
  <2>2. QED BY <2>1, SaversAlone DEF ClearTOTP
<1>5. RowsInv'
  BY <1>1, <1>3, SameCodes DEF CodesInv, RowsInv
<1>6. CopiesInv'
  BY <1>1, <1>3, <1>4, SameCodes DEF CodesInv, CopiesInv
<1>7. QED BY <1>1, <1>5, <1>6, SameCodes DEF CodesInv

\* A row is saved with the codes it has, and with a name nobody else has.
LEMMA SaveStep ==
    ASSUME LoneSavers, TypeOK, AloneInv, CodesInv,
           NEW r \in Requests, SaveRow(r)
    PROVE  CodesInv' /\ UNCHANGED <<accepted, batches>>
<1> DEFINE x == req[r]
<1>1. UNCHANGED <<accepted, batches>>
  BY DEF SaveRow
<1>2. x \in Saves /\ x.id \in Ids /\ x.row \in Rows
  BY Shapes DEF SaveRow, TypeOK, Saves
<1>3. x.row.codes = users[x.id].codes
  BY DEF SaveRow, CodesInv, CopiesInv
<1>4. \A q \in Requests : req'[q].pc \notin {"codes", "save"}
  <2>1. \A q \in Requests \ {r} : req[q] = Idle
    BY <1>2 DEF Saves, LoneSavers, AloneInv
  <2>2. \A q \in Requests \ {r} : req'[q] = req[q]
    BY DEF SaveRow, Goto, TypeOK
  <2>3. req'[r].pc \in {"load", "idle"}
    BY DEF SaveRow, Goto, Idle, TypeOK
  <2>4. QED BY <2>1, <2>2, <2>3 DEF Idle
<1>5. \A i \in Ids : users'[i].codes = users[i].codes
  BY <1>2, <1>3 DEF SaveRow, TypeOK
<1>6. \A i \in Ids, k \in Ids : i # k => users'[i].name # users'[k].name
  <2>1. \A i \in Ids, k \in Ids : i # k => users[i].name # users[k].name
    BY DEF CodesInv, RowsInv
  <2>2. CASE UNCHANGED users
    BY <2>1, <2>2
  <2>3. CASE /\ \A k \in Ids \ {x.id} : users[k].name # x.row.name
             /\ users' = [users EXCEPT ![x.id] = x.row]
    BY <1>2, <2>1, <2>3 DEF TypeOK
  <2>4. QED BY <2>2, <2>3 DEF SaveRow
<1>7. RowsInv'
  BY <1>1, <1>5, <1>6, SameCodes DEF CodesInv, RowsInv
<1>8. CopiesInv'
  BY <1>4 DEF CopiesInv
<1>9. QED BY <1>1, <1>7, <1>8, SameCodes DEF CodesInv

\* A row that is read, under the lock or to be saved, is the row there is.
LEMMA ReadStep ==
    ASSUME TypeOK, CodesInv, NEW r \in Requests, NEW i \in Ids, NEW x,
           Goto(r, x), x.id = i, x.row.codes = users[i].codes,
           UNCHANGED <<accepted, batches, users>>
    PROVE  CodesInv'
<1>1. req'[r] = x /\ \A q \in Requests \ {r} : req'[q] = req[q]
  BY DEF Goto, TypeOK
<1>2. RowsInv'
  BY SameCodes DEF CodesInv, RowsInv
<1>3. /\ users[i].codes \subseteq LiveCodes
      /\ \A k \in Ids \ {i} : users[i].codes \cap users[k].codes = {}
  BY DEF CodesInv, RowsInv
<1>4. CopiesInv'
  BY <1>1, <1>3, SameCodes DEF CodesInv, CopiesInv
<1>5. QED BY <1>2, <1>4, SameCodes DEF CodesInv

\* A request that goes on, neither to the codes nor to a save, and writes no
\* name and no code.
LEMMA GoOnStep ==
    ASSUME TypeOK, CodesInv, NEW r \in Requests, NEW x, Goto(r, x),
           x.pc \notin {"codes", "save"}, UNCHANGED <<accepted, batches>>,
           \A i \in Ids : /\ users'[i].name = users[i].name
                          /\ users'[i].codes = users[i].codes
    PROVE  CodesInv'
<1>1. req'[r] = x /\ \A q \in Requests \ {r} : req'[q] = req[q]
  BY DEF Goto, TypeOK
<1>2. ASSUME NEW q \in Requests, req[q].pc \in {"codes", "save"}
      PROVE  req[q].id \in Ids
  BY <1>2, Shapes DEF TypeOK, Logins, Saves
<1>3. QED BY <1>1, <1>2, QuietStep

\* Of all steps only UseCode accepts a code and only EnableTOTP draws new ones.
LEMMA CodesStep ==
    ASSUME LoneSavers, TypeOK, BatchesBound, AloneInv, LockInv, CodesInv,
           [Next]_vars
    PROVE  /\ CodesInv'
           /\ \/ \E r \in Requests : UseCode(r) \/ EnableTOTP(r)
              \/ UNCHANGED <<accepted, batches>>
<1> DEFINE Goal == /\ CodesInv'
                   /\ \/ \E r \in Requests : UseCode(r) \/ EnableTOTP(r)
                      \/ UNCHANGED <<accepted, batches>>
<1>1. ASSUME NEW r \in Requests, End(r), UNCHANGED <<accepted, batches, users>>
      PROVE  CodesInv'
  BY <1>1, GoOnStep DEF End, Idle
<1>2. ASSUME NEW r \in Requests, Begin(r) PROVE Goal
  <2>1. UNCHANGED <<accepted, batches, users>>
    BY <1>2 DEF Begin, CheckPassword, LoadPending, ReadForChange, ReadForReset,
                AddToken, DeleteToken
  <2>2. CASE \E k \in {"login", "login3", "disable"}, n \in Names,
                pw \in Passwords, f \in Factors : CheckPassword(r, k, n, pw, f)
    BY <2>1, <2>2, GoOnStep DEF CheckPassword
  <2>3. CASE \E n \in Names : LoadPending(r, n)
    BY <2>1, <2>3, GoOnStep DEF LoadPending
  <2>4. ASSUME NEW i \in Ids, NEW old \in Passwords, NEW n \in Names,
               NEW pw \in Passwords, ReadForChange(r, i, old, n, pw)
        PROVE  Goal
    <3>1. [users[i] EXCEPT !.name = n, !.pass = pw, !.hashed = TRUE].codes
             = users[i].codes
      BY DEF TypeOK, Rows
    <3>2. QED BY <2>1, <2>4, <3>1, ReadStep DEF ReadForChange
  <2>5. ASSUME NEW n \in Names, NEW pw \in Passwords, ReadForReset(r, n, pw)
        PROVE  Goal
    <3>1. [users[1] EXCEPT !.name = n, !.pass = pw, !.hashed = TRUE].codes
             = users[1].codes
      BY AuthAssumption DEF TypeOK, Rows
    <3>2. QED BY <2>1, <2>5, <3>1, ReadStep, AuthAssumption DEF ReadForReset
  <2>6. CASE \/ \E n \in Names, d \in 0..1 : AddToken(r, n, d)
             \/ \E n \in Names, t \in 1..MaxTokens : DeleteToken(r, n, t)
    <3>1. Goto(r, [kind |-> "token", pc |-> "load"])
      BY <2>6 DEF AddToken, DeleteToken
    <3>2. QED BY <2>1, <3>1, GoOnStep
  <2>7. QED BY <1>2, <2>2, <2>3, <2>4, <2>5, <2>6 DEF Begin
<1>3. ASSUME NEW r \in Requests, Step(r) PROVE Goal
  <2> DEFINE x == req[r]
  <2>1. x.pc \in {"upgrade", "factor", "lock", "codes"} => x \in Logins
    BY Shapes DEF TypeOK
  <2>2. ASSUME x \in Logins
        PROVE  /\ [x EXCEPT !.pc = "factor", !.row.hashed = TRUE].pc = "factor"
               /\ [x EXCEPT !.pc = "factor"].pc = "factor"
               /\ [x EXCEPT !.pc = "granted"].pc = "granted"
               /\ [x EXCEPT !.pc = "lock"].pc = "lock"
    BY <2>2 DEF Logins
  <2>3. CASE UpgradePassword(r)
    <3>1. \A i \in Ids : /\ users'[i].name = users[i].name
                         /\ users'[i].codes = users[i].codes
      BY <2>1, <2>3 DEF UpgradePassword, TypeOK, Rows, Logins
    <3>2. UNCHANGED <<accepted, batches>>
      BY <2>3 DEF UpgradePassword
    <3>3. QED BY <2>1, <2>2, <2>3, <3>1, <3>2, GoOnStep DEF UpgradePassword
  <2>4. CASE VerifySecondFactor(r)
    <3>1. UNCHANGED <<accepted, batches, users>>
      BY <2>4 DEF VerifySecondFactor
    <3>2. QED BY <1>1, <2>1, <2>2, <2>4, <3>1, GoOnStep DEF VerifySecondFactor
  <2>5. CASE LockAndReread(r)
    <3>1. x \in Logins /\ x.id \in Ids
      BY <2>1, <2>5 DEF LockAndReread, Logins
    <3>2. /\ [x EXCEPT !.pc = "codes", !.row = users[x.id]].id = x.id
          /\ [x EXCEPT !.pc = "codes", !.row = users[x.id]].row = users[x.id]
      BY <3>1 DEF Logins
    <3>3. UNCHANGED <<accepted, batches, users>>
      BY <2>5 DEF LockAndReread
    <3>4. QED BY <2>5, <3>1, <3>2, <3>3, ReadStep DEF LockAndReread
  <2>6. CASE UseCode(r)
    BY <2>6, UseCodeStep
  <2>7. CASE GrantSession(r) \/ ForgetPending(r) \/ ReloadStore(r) \/ ReloadFails(r)
    <3>1. End(r) /\ UNCHANGED <<accepted, batches, users>>
      BY <2>7 DEF GrantSession, ForgetPending, ReloadStore, ReloadFails
    <3>2. QED BY <1>1, <3>1
  <2>8. CASE \E d \in 0..1 : GrantToken(r, d)
    <3>1. /\ UNCHANGED <<accepted, batches, users>>
          /\ End(r) \/ Goto(r, [kind |-> "login3", pc |-> "load"])
      BY <2>8 DEF GrantToken
    <3>2. QED BY <1>1, <3>1, GoOnStep
  <2>9. CASE ClearTOTP(r)
    BY <2>9, ClearStep
  <2>10. CASE EnableTOTP(r)
    BY <2>10, EnableStep
  <2>11. CASE SaveRow(r)
    BY <2>11, SaveStep
  <2>12. CASE ReloadLoad(r)
    <3>1. UNCHANGED <<accepted, batches, users>>
      BY <2>12 DEF ReloadLoad
    <3>2. QED BY <2>12, <3>1, GoOnStep DEF ReloadLoad
  <2>13. QED BY <1>3, <2>3, <2>4, <2>5, <2>6, <2>7, <2>8, <2>9, <2>10, <2>11,
               <2>12 DEF Step
<1>4. ASSUME UNCHANGED <<accepted, batches, users>>,
             \A q \in Requests : req'[q].pc \in {"codes", "save"} => req'[q] = req[q]
      PROVE  Goal
  <2>1. ASSUME NEW q \in Requests, req[q].pc \in {"codes", "save"}
        PROVE  req[q].id \in Ids
    BY <2>1, Shapes DEF TypeOK, Logins, Saves
  <2>2. QED BY <1>4, <2>1, QuietStep
<1>5. CASE Restart
  BY <1>4, <1>5 DEF Restart, Idle
<1>6. CASE UNCHANGED <<accepted, batches, users, req>>
  BY <1>4, <1>6
<1>7. QED BY <1>2, <1>3, <1>5, <1>6 DEF Next, vars, BeginTOTP, Tick

\* Initially one administrator has codes, and none was accepted.
LEMMA CodesInit == Init => CodesInv /\ AloneInv /\ LockInv
<1>1. SUFFICES ASSUME Init PROVE CodesInv /\ AloneInv /\ LockInv
  OBVIOUS
<1>2. SpentCodes = {} /\ EachCodeOnce
  BY <1>1 DEF Init, SpentCodes, EachCodeOnce
<1>3. LiveCodes = Batch(0)
  <2>1. IssuedCodes = UNION {Batch(b) : b \in {0}}
    BY <1>1 DEF Init, IssuedCodes
  <2>2. QED BY <1>2, <2>1 DEF LiveCodes
<1>4. \A i \in Ids : /\ users[i].name = i
                     /\ users[i].codes = IF i = 1 THEN Batch(0) ELSE {}
  BY <1>1 DEF Init
<1>5. RowsInv
  BY <1>3, <1>4 DEF RowsInv
<1>6. \A r \in Requests : req[r] = Idle
  BY <1>1 DEF Init
<1>7. CopiesInv /\ AloneInv /\ LockInv
  BY <1>1, <1>6 DEF CopiesInv, AloneInv, LockInv, Idle, Init
<1>8. QED BY <1>2, <1>5, <1>7 DEF CodesInv

Vouch == <<LiveCodes, SpentCodes, accepted>>

\* A step of the panel is a step of the abstract specification, or none.
LEMMA VoucherStep ==
    ASSUME LoneSavers, TypeOK, BatchesBound, BatchesBound', AloneInv, LockInv,
           CodesInv, [Next]_vars
    PROVE  [CodeVouchers!Next]_Vouch
<1>1. CASE UNCHANGED <<accepted, batches>>
  BY <1>1, SameCodes DEF Vouch
<1>2. ASSUME NEW r \in Requests, UseCode(r), ~UNCHANGED <<accepted, batches>>
      PROVE  CodeVouchers!Next
  <2>1. PICK c \in LiveCodes : /\ LiveCodes' = LiveCodes \ {c}
                               /\ SpentCodes' = SpentCodes \cup {c}
                               /\ accepted' = [accepted EXCEPT ![c] = @ + 1]
    BY <1>2, UseCodeStep
  <2>2. CodeVouchers!Accept
    BY <2>1 DEF CodeVouchers!Accept, LiveCodes
  <2>3. QED BY <2>2 DEF CodeVouchers!Next
<1>3. ASSUME NEW r \in Requests, EnableTOTP(r)
      PROVE  CodeVouchers!Next
  <2> DEFINE New == Batch(batches + 1)
  <2>1. /\ LiveCodes' = LiveCodes \cup New
        /\ New \cap IssuedCodes = {}
        /\ UNCHANGED <<SpentCodes, accepted>>
    BY <1>3, EnableStep
  <2>2. New \in SUBSET Codes
    <3>1. batches' = batches + 1 /\ batches' \in Nat
      BY <1>3 DEF EnableTOTP, BatchesBound
    <3>2. batches' <= MaxBatches
      <4>1. Enrolling' \subseteq Enabling'
        BY ReqStep, Shapes DEF Enrolling, Enabling, ReqOK
      <4>2. Cardinality(Enrolling') \in Nat
        BY <4>1, FS_Subset, FS_CardinalityType DEF BatchesBound
      <4>3. QED BY <3>1, <4>2, AuthAssumption DEF BatchesBound
    <3>3. QED BY <3>1, <3>2, BatchCodes, AuthAssumption
  <2>3. New \in SUBSET (Codes \ (LiveCodes \cup SpentCodes))
    BY <2>1, <2>2 DEF LiveCodes, CodesInv
  <2> HIDE DEF New
  <2>4. /\ LiveCodes' = (LiveCodes \ {}) \cup New
        /\ SpentCodes' = SpentCodes \cup {}
        /\ {} \in SUBSET LiveCodes
    BY <2>1
  <2>5. CodeVouchers!Turnover
    BY <2>1, <2>3, <2>4 DEF CodeVouchers!Turnover, LiveCodes
  <2>6. QED BY <2>5 DEF CodeVouchers!Next
<1>4. QED BY <1>1, <1>2, <1>3, CodesStep DEF Vouch

\* Recovery codes are single-use vouchers: when the requests that write a whole
\* row back, ChangePass and the reset from the command line, overlap with no
\* other, any number of logins, enrolments and restarts in any order accept a
\* code at most once, and a code that was used never comes back.
THEOREM CodesSingleUse == LoneSavers => (Spec => CodesAreVouchers)
<1> SUFFICES ASSUME LoneSavers PROVE Spec => CodesAreVouchers
  OBVIOUS
<1>1. Init => AloneInv /\ LockInv /\ CodesInv
  BY CodesInit
<1>2. /\ TypeOK /\ BatchesBound /\ AloneInv /\ LockInv /\ CodesInv
      /\ [Next]_vars
      => AloneInv' /\ LockInv' /\ CodesInv'
  BY AloneStep, LockStep, CodesStep
<1>3. /\ TypeOK /\ BatchesBound /\ BatchesBound' /\ AloneInv /\ LockInv /\ CodesInv
      /\ [Next]_vars
      => [CodeVouchers!Next]_Vouch
  BY VoucherStep
<1>4. Init => CodeVouchers!Init
  <2>1. SUFFICES ASSUME Init PROVE CodeVouchers!Init
    OBVIOUS
  <2>2. SpentCodes = {} /\ accepted = [c \in Codes |-> 0]
    BY <2>1 DEF Init, SpentCodes
  <2>3. IssuedCodes \in SUBSET Codes
    <3>1. IssuedCodes = UNION {Batch(b) : b \in {0}}
      BY <2>1 DEF Init, IssuedCodes
    <3>2. QED BY <3>1, BatchCodes, AuthAssumption
  <2>4. QED BY <2>2, <2>3 DEF CodeVouchers!Init
<1>5. QED
  BY <1>1, <1>2, <1>3, <1>4, AuthTypes, PTL
     DEF Spec, CodesAreVouchers, CodeVouchers!Spec, Vouch, LiveCodes

-----------------------------------------------------------------------------
(* The token cache *)

\* The tokens c are those there are, but for some that have expired.
Shows(c) ==
    /\ \A t \in DOMAIN c :
          t \in DOMAIN tokens /\ c[t].expiry = tokens[t].expiry
    /\ \A t \in DOMAIN tokens \ DOMAIN c :
          tokens[t].expiry # 0 /\ tokens[t].expiry <= now

\* Version v is that of the last change to the tokens: what was loaded since
\* shows them, and a load since was stored or is under way.
FreshFrom(v) ==
    /\ cache.version >= v => Shows(cache.tokens)
    /\ \A r \in Requests :
          req[r].pc = "store" /\ req[r].version >= v => Shows(req[r].tokens)
    /\ \/ newest >= v
       \/ \E r \in Requests : req[r].pc = "load"
       \/ \E r \in Requests : req[r].pc = "store" /\ req[r].version >= v

Versions ==
    /\ version \in Nat /\ cache.version \in Nat \cup {-1} /\ newest \in Nat
    /\ cache.version <= newest /\ newest <= version
    /\ \A r \in Requests : req[r].pc = "store" => req[r].version <= version

CacheInv == Versions /\ \E v \in 0..version : FreshFrom(v)

\* The tokens that are loaded are those there are.
LEMMA LoadedShow ==
    ASSUME TypeOK
    PROVE  Shows(LoadedTokens)
<1>1. /\ DOMAIN LoadedTokens = {t \in DOMAIN tokens : tokens[t].expiry = 0
                                                     \/ tokens[t].expiry > now}
      /\ \A t \in DOMAIN LoadedTokens :
            LoadedTokens[t].expiry = tokens[t].expiry
  BY DEF LoadedTokens
<1>2. now \in Nat /\ \A t \in DOMAIN tokens : tokens[t].expiry \in Nat
  BY DEF TypeOK
<1> HIDE DEF LoadedTokens
<1>3. QED BY <1>1, <1>2 DEF Shows

\* What was loaded stays fresh while no token is created or deleted and no
\* reload is stored.
LEMMA StaysFresh ==
    ASSUME TypeOK, CacheInv, UNCHANGED <<tokens, cache, newest>>,
           now' \in Nat, now <= now', version' \in Nat, version <= version',
           \A r \in Requests : req'[r].pc = "store" => req'[r] = req[r],
           \A r \in Requests : req[r].pc \in {"load", "store"} => req'[r] = req[r]
    PROVE  CacheInv'
<1>1. PICK v \in 0..version : FreshFrom(v)
  BY DEF CacheInv
<1>2. /\ version \in Nat /\ cache.version \in Nat \cup {-1} /\ newest \in Nat
      /\ cache.version <= newest /\ newest <= version
      /\ \A r \in Requests : req[r].pc = "store" => req[r].version <= version
  BY DEF CacheInv, Versions
<1>3. \A r \in Requests : req[r].pc = "store" => req[r].version \in Nat
  BY Shapes DEF TypeOK, IsStore
<1>4. Versions'
  BY <1>2, <1>3 DEF Versions
<1>5. now \in Nat /\ \A t \in DOMAIN tokens : tokens[t].expiry \in Nat
  BY DEF TypeOK
<1>6. FreshFrom(v)'
  <2>1. (cache.version >= v => Shows(cache.tokens))'
    BY <1>1, <1>5 DEF FreshFrom, Shows
  <2>2. ASSUME NEW r \in Requests, req'[r].pc = "store", req'[r].version >= v
        PROVE  Shows(req[r].tokens)'
    <3>1. req'[r] = req[r] /\ Shows(req[r].tokens)
      BY <1>1, <2>2 DEF FreshFrom
    <3>2. QED BY <1>5, <3>1 DEF Shows
  <2>3. \/ newest' >= v
        \/ \E r \in Requests : req'[r].pc = "load"
        \/ \E r \in Requests : req'[r].pc = "store" /\ req'[r].version >= v
    BY <1>1 DEF FreshFrom
  <2>4. QED BY <2>1, <2>2, <2>3 DEF FreshFrom
<1>7. v \in 0..version'
  BY <1>1, <1>2
<1>8. QED BY <1>4, <1>6, <1>7 DEF CacheInv

\* A change to the tokens is followed by a load.
LEMMA TokenChange ==
    ASSUME TypeOK, CacheInv, UNCHANGED <<cache, newest>>, version' = version + 1,
           NEW r \in Requests, req'[r].pc = "load",
           \A q \in Requests \ {r} : req'[q] = req[q]
    PROVE  CacheInv'
<1>1. /\ version \in Nat /\ cache.version \in Nat \cup {-1} /\ newest \in Nat
      /\ cache.version <= newest /\ newest <= version
      /\ \A q \in Requests : req[q].pc = "store" => req[q].version <= version
  BY DEF CacheInv, Versions
<1>2. \A q \in Requests : req[q].pc = "store" => req[q].version \in Nat
  BY Shapes DEF TypeOK, IsStore
<1>3. Versions'
  BY <1>1, <1>2 DEF Versions
<1>4. PICK v \in Nat : v = version + 1
  BY <1>1
<1>5. FreshFrom(v)'
  <2>1. ~(cache'.version >= v)
    BY <1>1, <1>4
  <2>2. \A q \in Requests : ~(req'[q].pc = "store" /\ req'[q].version >= v)
    BY <1>1, <1>2, <1>4
  <2>3. QED BY <2>1, <2>2 DEF FreshFrom
<1>6. v \in 0..version'
  BY <1>1, <1>4
<1>7. QED BY <1>3, <1>5, <1>6 DEF CacheInv

\* What is loaded is fresh.
LEMMA LoadStep ==
    ASSUME TypeOK, CacheInv, NEW r \in Requests, ReloadLoad(r)
    PROVE  CacheInv'
<1>1. PICK v \in 0..version : FreshFrom(v)
  BY DEF CacheInv
<1>2. Versions
  BY DEF CacheInv
<1>3. /\ req'[r].pc = "store" /\ req'[r].version = version
      /\ req'[r].tokens = LoadedTokens
      /\ \A q \in Requests \ {r} : req'[q] = req[q]
  BY DEF ReloadLoad, Goto, TypeOK
<1>4. UNCHANGED <<tokens, cache, now, version, newest>>
  BY DEF ReloadLoad
<1>5. Versions'
  BY <1>2, <1>3, <1>4 DEF Versions
<1>6. FreshFrom(v)'
  <2>1. (cache.version >= v => Shows(cache.tokens))'
    BY <1>1, <1>4 DEF FreshFrom, Shows
  <2>2. ASSUME NEW q \in Requests, req'[q].pc = "store", req'[q].version >= v
        PROVE  Shows(req[q].tokens)'
    <3>1. CASE q = r
      <4>1. Shows(LoadedTokens)
        BY LoadedShow
      <4>2. QED BY <1>3, <1>4, <3>1, <4>1 DEF Shows
    <3>2. CASE q # r
      <4>1. Shows(req[q].tokens) /\ req'[q] = req[q]
        BY <1>1, <1>3, <2>2, <3>2 DEF FreshFrom
      <4>2. QED BY <1>4, <4>1 DEF Shows
    <3>3. QED BY <3>1, <3>2
  <2>3. req'[r].pc = "store" /\ req'[r].version >= v
    BY <1>1, <1>2, <1>3 DEF Versions
  <2>4. QED BY <2>1, <2>2, <2>3 DEF FreshFrom
<1>7. QED BY <1>1, <1>4, <1>5, <1>6 DEF CacheInv

\* What is stored is fresh, unless a newer load is still to be stored or the
\* cache has shown one.
LEMMA StoreStep ==
    ASSUME TypeOK, CacheInv, NEW r \in Requests, ReloadStore(r)
    PROVE  CacheInv'
<1>1. PICK v \in 0..version : FreshFrom(v)
  BY DEF CacheInv
<1>2. Versions /\ IsStore(req[r]) /\ req[r].version \in Nat
  BY Shapes DEF CacheInv, ReloadStore, TypeOK, IsStore
<1>3. /\ req'[r].pc = "idle"
      /\ \A q \in Requests \ {r} : req'[q] = req[q]
  BY DEF ReloadStore, End, Goto, Idle, TypeOK
<1>4. /\ UNCHANGED <<tokens, now, version>>
      /\ cache'.tokens = req[r].tokens /\ cache'.version = req[r].version
      /\ newest' = IF newest < req[r].version THEN req[r].version ELSE newest
      /\ req[r].pc = "store"
  BY DEF ReloadStore
<1>5. Versions'
  BY <1>2, <1>3, <1>4 DEF Versions
<1>6. FreshFrom(v)'
  <2>1. ASSUME cache'.version >= v PROVE Shows(cache.tokens)'
    <3>1. Shows(req[r].tokens)
      BY <1>1, <1>4, <2>1 DEF FreshFrom
    <3>2. QED BY <1>4, <3>1 DEF Shows
  <2>2. ASSUME NEW q \in Requests, req'[q].pc = "store", req'[q].version >= v
        PROVE  Shows(req[q].tokens)'
    <3>1. Shows(req[q].tokens) /\ req'[q] = req[q]
      BY <1>1, <1>3, <2>2 DEF FreshFrom
    <3>2. QED BY <1>4, <3>1 DEF Shows
  <2>3. \/ newest' >= v
        \/ \E q \in Requests : req'[q].pc = "load"
        \/ \E q \in Requests : req'[q].pc = "store" /\ req'[q].version >= v
    <3>1. CASE req[r].version >= v \/ newest >= v
      BY <1>1, <1>2, <1>4, <3>1 DEF Versions
    <3>2. CASE ~(req[r].version >= v \/ newest >= v)
      BY <1>1, <1>3, <1>4, <3>2 DEF FreshFrom
    <3>3. QED BY <3>1, <3>2
  <2>4. QED BY <2>1, <2>2, <2>3 DEF FreshFrom
<1>7. QED BY <1>1, <1>4, <1>5, <1>6 DEF CacheInv

\* A load that fails leaves the cache as it is, older than the rows it should
\* have read unless it shows them already.
LEMMA FailStep ==
    ASSUME TypeOK, CacheInv, NEW r \in Requests, ReloadFails(r)
    PROVE  CacheInv'
<1>1. PICK v \in 0..version : FreshFrom(v)
  BY DEF CacheInv
<1>2. Versions
  BY DEF CacheInv
<1>3. /\ req'[r].pc = "idle"
      /\ \A q \in Requests \ {r} : req'[q] = req[q]
  BY DEF ReloadFails, End, Goto, Idle, TypeOK
<1>4. UNCHANGED <<tokens, now, version, cache>> /\ newest' = version
  BY DEF ReloadFails
<1>5. Versions'
  BY <1>2, <1>3, <1>4 DEF Versions
<1>6. FreshFrom(v)'
  <2>1. (cache.version >= v => Shows(cache.tokens))'
    BY <1>1, <1>4 DEF FreshFrom, Shows
  <2>2. ASSUME NEW q \in Requests, req'[q].pc = "store", req'[q].version >= v
        PROVE  Shows(req[q].tokens)'
    <3>1. Shows(req[q].tokens) /\ req'[q] = req[q]
      BY <1>1, <1>3, <2>2 DEF FreshFrom
    <3>2. QED BY <1>4, <3>1 DEF Shows
  <2>3. newest' >= v
    BY <1>1, <1>2, <1>4 DEF Versions
  <2>4. QED BY <2>1, <2>2, <2>3 DEF FreshFrom
<1>7. QED BY <1>1, <1>4, <1>5, <1>6 DEF CacheInv

\* A panel that starts loads the tokens or has none, and no reload is under way.
LEMMA RestartStep ==
    ASSUME TypeOK, CacheInv, Restart
    PROVE  CacheInv'
<1>1. version \in Nat
  BY DEF TypeOK
<1>2. \A q \in Requests : req'[q].pc # "store"
  BY Shapes DEF Restart, TypeOK, Idle
<1>3. /\ UNCHANGED <<tokens, now, version>> /\ newest' = version
      /\ \/ cache'.version = version /\ cache'.tokens = LoadedTokens
         \/ cache'.version = -1
  BY DEF Restart, NoTokens
<1>4. Shows(LoadedTokens)
  BY LoadedShow
<1>5. Versions'
  BY <1>1, <1>2, <1>3 DEF Versions
<1>6. (cache.version >= 0 => Shows(cache.tokens))'
  BY <1>3, <1>4 DEF Shows
<1>7. FreshFrom(0)'
  BY <1>1, <1>2, <1>3, <1>6 DEF FreshFrom
<1>8. QED BY <1>1, <1>3, <1>5, <1>7 DEF CacheInv

\* No step leaves a change to the tokens without a load.
LEMMA CacheStep ==
    ASSUME TypeOK, CacheInv, now' \in Nat, version' \in Nat, [Next]_vars
    PROVE  CacheInv'
<1>1. now \in Nat /\ version \in Nat
  BY DEF TypeOK
<1>2. ReqOK /\ DOMAIN req = Requests
  BY DEF TypeOK, ReqOK
<1>3. ASSUME NEW r \in Requests, req[r].pc \notin {"load", "store"}, NEW x,
             x.pc # "store", Goto(r, x), UNCHANGED <<now, tokens, cache, newest>>,
             version <= version'
      PROVE  CacheInv'
  <2>1. req'[r] = x /\ \A q \in Requests \ {r} : req'[q] = req[q]
    BY <1>2, <1>3 DEF Goto
  <2>2. QED BY <1>1, <1>3, <2>1, StaysFresh
<1>4. ASSUME NEW r \in Requests, NEW x, x.pc = "load", Goto(r, x),
             UNCHANGED <<cache, newest>>, version' = version + 1
      PROVE  CacheInv'
  <2>1. req'[r] = x /\ \A q \in Requests \ {r} : req'[q] = req[q]
    BY <1>2, <1>4 DEF Goto
  <2>2. QED BY <1>4, <2>1, TokenChange
<1>5. ASSUME NEW r \in Requests, Begin(r) PROVE CacheInv'
  <2>1. req[r].pc \notin {"load", "store"}
    BY <1>2, <1>5, BeginKind DEF Idle
  <2>2. CASE \E k \in {"login", "login3", "disable"}, n \in Names,
                pw \in Passwords, f \in Factors : CheckPassword(r, k, n, pw, f)
    <3>1. UNCHANGED <<now, tokens, cache, newest, version>>
      BY <2>2 DEF CheckPassword
    <3>2. QED BY <1>1, <1>3, <2>1, <2>2, <3>1 DEF CheckPassword
  <2>3. CASE \E n \in Names : LoadPending(r, n)
    <3>1. UNCHANGED <<now, tokens, cache, newest, version>>
      BY <2>3 DEF LoadPending
    <3>2. QED BY <1>1, <1>3, <2>1, <2>3, <3>1 DEF LoadPending
  <2>4. CASE \E i \in Ids, old \in Passwords, n \in Names, pw \in Passwords :
                ReadForChange(r, i, old, n, pw)
    <3>1. UNCHANGED <<now, tokens, cache, newest, version>>
      BY <2>4 DEF ReadForChange
    <3>2. QED BY <1>1, <1>3, <2>1, <2>4, <3>1 DEF ReadForChange
  <2>5. CASE \E n \in Names, pw \in Passwords : ReadForReset(r, n, pw)
    <3>1. UNCHANGED <<now, tokens, cache, newest, version>>
      BY <2>5 DEF ReadForReset
    <3>2. QED BY <1>1, <1>3, <2>1, <2>5, <3>1 DEF ReadForReset
  <2>6. CASE \/ \E n \in Names, d \in 0..1 : AddToken(r, n, d)
             \/ \E n \in Names, t \in 1..MaxTokens : DeleteToken(r, n, t)
    <3>1. /\ UNCHANGED <<cache, newest>> /\ version' = version + 1
          /\ Goto(r, [kind |-> "token", pc |-> "load"])
      BY <2>6 DEF AddToken, DeleteToken, NewToken, Changed
    <3>2. QED BY <1>4, <3>1
  <2>7. QED BY <1>5, <2>2, <2>3, <2>4, <2>5, <2>6 DEF Begin
<1>6. ASSUME NEW r \in Requests, Step(r) PROVE CacheInv'
  <2> DEFINE x == req[r]
  <2>1. x.pc \in {"upgrade", "factor", "lock", "codes"} => x \in Logins
    BY <1>2, Shapes DEF ReqOK
  <2>2. ASSUME x \in Logins
        PROVE  /\ [x EXCEPT !.pc = "factor", !.row.hashed = TRUE].pc = "factor"
               /\ [x EXCEPT !.pc = "factor"].pc = "factor"
               /\ [x EXCEPT !.pc = "granted"].pc = "granted"
               /\ [x EXCEPT !.pc = "lock"].pc = "lock"
               /\ [x EXCEPT !.pc = "codes", !.row = users[x.id]].pc = "codes"
    BY <2>2 DEF Logins
  <2>3. ASSUME NEW y, Goto(r, y), y.pc # "store", x.pc \notin {"load", "store"},
               UNCHANGED <<now, tokens, cache, newest, version>>
        PROVE  CacheInv'
    BY <1>1, <1>3, <2>3
  <2>4. ASSUME End(r), x.pc \notin {"load", "store"},
               UNCHANGED <<now, tokens, cache, newest, version>>
        PROVE  CacheInv'
    BY <2>3, <2>4 DEF End, Idle
  <2>5. CASE UpgradePassword(r)
    <3>1. UNCHANGED <<now, tokens, cache, newest, version>> /\ x.pc = "upgrade"
      BY <2>5 DEF UpgradePassword
    <3>2. \/ Goto(r, [x EXCEPT !.pc = "factor", !.row.hashed = TRUE])
          \/ Goto(r, [x EXCEPT !.pc = "factor"])
      BY <2>5 DEF UpgradePassword
    <3>3. QED BY <2>1, <2>2, <2>3, <3>1, <3>2
  <2>6. CASE VerifySecondFactor(r)
    <3>1. UNCHANGED <<now, tokens, cache, newest, version>> /\ x.pc = "factor"
      BY <2>6 DEF VerifySecondFactor
    <3>2. \/ Goto(r, [x EXCEPT !.pc = "granted"]) \/ End(r)
          \/ Goto(r, [x EXCEPT !.pc = "lock"])
      BY <2>6 DEF VerifySecondFactor
    <3>3. QED BY <2>1, <2>2, <2>3, <2>4, <3>1, <3>2
  <2>7. CASE LockAndReread(r)
    <3>1. UNCHANGED <<now, tokens, cache, newest, version>> /\ x.pc = "lock"
      BY <2>7 DEF LockAndReread
    <3>2. Goto(r, [x EXCEPT !.pc = "codes", !.row = users[x.id]])
      BY <2>7 DEF LockAndReread
    <3>3. QED BY <2>1, <2>2, <2>3, <3>1, <3>2
  <2>8. CASE UseCode(r)
    <3>1. UNCHANGED <<now, tokens, cache, newest, version>> /\ x.pc = "codes"
      BY <2>8 DEF UseCode
    <3>2. Goto(r, [x EXCEPT !.pc = "granted"]) \/ End(r)
      BY <2>8 DEF UseCode
    <3>3. QED BY <2>1, <2>2, <2>3, <2>4, <3>1, <3>2
  <2>9. CASE GrantSession(r) \/ ClearTOTP(r) \/ ForgetPending(r)
    BY <2>4, <2>9 DEF GrantSession, ClearTOTP, ForgetPending
  <2>10. CASE \E d \in 0..1 : GrantToken(r, d)
    <3>1. /\ UNCHANGED <<now, cache, newest>> /\ x.pc = "granted"
          /\ \/ /\ Goto(r, [kind |-> "login3", pc |-> "load"])
                /\ version' = version + 1
             \/ End(r) /\ UNCHANGED <<tokens, version>>
      BY <2>10 DEF GrantToken, NewToken, Changed
    <3>2. QED BY <1>4, <2>4, <3>1
  <2>11. CASE EnableTOTP(r)
    <3>1. x \in Enrolments /\ x.pc = "enrol"
      BY <1>2, <2>11, Shapes DEF EnableTOTP, ReqOK
    <3>2. [x EXCEPT !.pc = "forget"].pc = "forget"
      BY <3>1 DEF Enrolments
    <3>3. UNCHANGED <<now, tokens, cache, newest, version>>
      BY <2>11 DEF EnableTOTP
    <3>4. Goto(r, [x EXCEPT !.pc = "forget"])
      BY <2>11 DEF EnableTOTP
    <3>5. QED BY <2>3, <3>1, <3>2, <3>3, <3>4
  <2>12. CASE SaveRow(r)
    <3>1. UNCHANGED <<now, tokens, cache, newest>> /\ version <= version'
      BY <1>1, <2>12 DEF SaveRow, Changed
    <3>2. /\ x.pc = "save"
          /\ Goto(r, Idle) \/ Goto(r, [kind |-> x.kind, pc |-> "load"])
      BY <2>12 DEF SaveRow
    <3>3. Idle.pc # "store"
      BY DEF Idle
    <3>4. QED BY <1>3, <3>1, <3>2, <3>3
  <2>13. CASE ReloadLoad(r)
    BY <2>13, LoadStep
  <2>14. CASE ReloadStore(r)
    BY <2>14, StoreStep
  <2>15. CASE ReloadFails(r)
    BY <2>15, FailStep
  <2>16. QED BY <1>6, <2>5, <2>6, <2>7, <2>8, <2>9, <2>10, <2>11, <2>12, <2>13,
               <2>14, <2>15 DEF Step
<1>7. CASE Restart
  BY <1>7, RestartStep
<1>8. CASE UNCHANGED <<tokens, cache, newest, version, req>> /\ now <= now'
  BY <1>1, <1>8, StaysFresh
<1>9. CASE Tick \/ (\E n \in Names : BeginTOTP(n)) \/ UNCHANGED vars
  <2>1. UNCHANGED <<tokens, cache, newest, version, req>> /\ now <= now'
    BY <1>1, <1>9 DEF Tick, BeginTOTP, vars
  <2>2. QED BY <1>8, <2>1
<1>10. QED BY <1>5, <1>6, <1>7, <1>9 DEF Next

\* With no request under way, a cache that shows the newest rows that a reload
\* has read or failed to read answers for the tokens in the database: for any
\* number of administrators, requests, tokens and restarts, a deleted token is
\* refused and a new one accepted once ReloadTokens has run, unless the last
\* load of the rows failed or was overtaken by an earlier one.
THEOREM CacheFollows == Spec => []CacheFollowsTokens
<1>1. Init => CacheInv
  <2>1. SUFFICES ASSUME Init PROVE CacheInv
    OBVIOUS
  <2>2. \A r \in Requests : req[r].pc = "idle"
    BY <2>1 DEF Init, Idle
  <2>3. Versions
    BY <2>1, <2>2 DEF Init, Versions
  <2>4. FreshFrom(0)
    BY <2>1, <2>2 DEF Init, FreshFrom, Shows
  <2>5. 0 \in 0..version
    BY <2>1 DEF Init
  <2>6. QED BY <2>3, <2>4, <2>5 DEF CacheInv
<1>2. TypeOK /\ TypeOK' /\ CacheInv /\ [Next]_vars => CacheInv'
  BY CacheStep DEF TypeOK
<1>3. TypeOK /\ CacheInv => CacheFollowsTokens
  <2>1. SUFFICES ASSUME TypeOK, CacheInv, cache.version = newest,
                        \A r \in Requests : req[r].kind \in {"none", "cli"},
                        NEW t \in 1..MaxTokens
                 PROVE  LET valid == t \in DOMAIN tokens /\ ~Expired(tokens[t].expiry)
                        IN  (findUsernameByToken(t) # {}) # valid =>
                                valid /\ tokens[t].expiry = now
    BY DEF CacheFollowsTokens, CacheIsTable, NoRequest
  <2>2. PICK v \in 0..version : FreshFrom(v)
    BY <2>1 DEF CacheInv
  <2>3. \A r \in Requests : req[r].pc \notin {"load", "store"}
    BY <2>1, Shapes DEF TypeOK, Idle
  <2>4. cache.version >= v
    BY <2>1, <2>2, <2>3 DEF FreshFrom
  <2>5. Shows(cache.tokens)
    BY <2>2, <2>4 DEF FreshFrom
  <2>6. now \in Nat /\ \A u \in DOMAIN tokens : tokens[u].expiry \in Nat
    BY <2>1 DEF TypeOK
  <2>7. findUsernameByToken(t) # {} <=>
           t \in DOMAIN cache.tokens /\ ~Expired(cache.tokens[t].expiry)
    BY DEF findUsernameByToken
  <2>8. QED BY <2>5, <2>6, <2>7 DEF Shows, Expired
<1>4. QED BY <1>1, <1>2, <1>3, AuthTypes, PTL DEF Spec

=============================================================================
