------------------------------ MODULE AdminAuth ------------------------------
(***************************************************************************)
(* Administrators: password, TOTP and recovery codes (src/service/user.go),*)
(* the two password logins (Login of src/api/apiService.go, login of       *)
(* src/api/apiV3Handler.go), API tokens and the cache that answers for     *)
(* them (src/api/apiV2Handler.go).                                         *)
(*                                                                         *)
(* A request reads a row, works on its copy (bcrypt is slow) and writes    *)
(* columns or the whole row back.  An action is the code between two       *)
(* statements on the database, or between them and a lock.  A request      *)
(* that is refused before it has changed anything is left out.             *)
(***************************************************************************)
EXTENDS Integers, FiniteSets

CONSTANTS Ids,        \* administrators: 1 is the first row
          Names,      \* user names, numbers
          Passwords,
          Requests,   \* requests served at the same time
          Alone,      \* kinds of requests that overlap with no other
          BatchSize,  \* recovery codes for an enrolment: 10
          Window,     \* time an enrolment stays pending: 10 minutes
          MaxBatches, \* bound: enrolments begun and batches of codes drawn
          MaxTokens,  \* bound: tokens created
          MaxBegun,   \* bound: requests begun
          MaxTime     \* bound of the clock

Kinds == {"login", "login3", "disable", "changePass", "cli", "enable", "token"}

ASSUME AuthAssumption ==
    /\ Ids \subseteq Nat /\ 1 \in Ids /\ IsFiniteSet(Ids)
    /\ Names \subseteq Nat \ {0} /\ Ids \subseteq Names
    /\ Alone \subseteq Kinds
    /\ BatchSize \in Nat /\ Window \in Nat /\ MaxBatches \in Nat
    /\ MaxTokens \in Nat /\ MaxBegun \in Nat /\ MaxTime \in Nat

VARIABLES
    now,
    users,     \* the users table: name, pass, hashed, totp (0: disabled), codes
    tokens,    \* the tokens table: a function on the tokens: user_id, expiry
    cache,     \* APIv2Handler.tokens, and the version of the rows it shows
    pending,   \* pendingTOTP: secret and expiry by user name
    holder,    \* the request that holds recoveryCodeMu, or the set is empty
    req,       \* what each request is doing
    sessions,  \* user names a session cookie was given for
    secrets,   \* secrets drawn by BeginTOTP
    batches,   \* batches of recovery codes drawn by EnableTOTP
    made,      \* tokens created
    version,   \* history: number of changes to users and tokens
    newest,    \* history: the newest version that a reload has shown or has
               \* failed to read
    accepted,  \* history: how often each recovery code was accepted
    begun      \* requests begun

vars == <<now, users, tokens, cache, pending, holder, req, sessions, secrets,
          batches, made, version, newest, accepted, begun>>

Idle == [kind |-> "none", pc |-> "idle"]
Without(f, S) == [x \in DOMAIN f \ S |-> f[x]]
With(f, x, v) == [y \in DOMAIN f \cup {x} |-> IF y = x THEN v ELSE f[y]]
IdsNamed(n) == {i \in Ids : users[i].name = n}
Batch(b) == {b} \X (1..BatchSize)
Codes == (0..MaxBatches) \X (1..BatchSize)
IssuedCodes == UNION {Batch(b) : b \in 0..batches}

\* What a client may enter as a second factor: nothing, a TOTP code computed
\* from a secret, a recovery code.
Factors == {[by |-> "none"]} \cup [by : {"totp"}, secret : 1..secrets + 1]
           \cup [by : {"code"}, code : IssuedCodes]

-----------------------------------------------------------------------------
(* The token cache *)

Expired(e) == e > 0 /\ e < now

\* UserService.LoadTokens: the tokens that have not expired, with the names of
\* their users.
LoadedTokens ==
    [t \in {t \in DOMAIN tokens : tokens[t].expiry = 0 \/ tokens[t].expiry > now}
        |-> [name |-> users[tokens[t].user].name, expiry |-> tokens[t].expiry]]

\* findUsernameByToken: the user name a token stands for, {} if it is refused.
findUsernameByToken(t) ==
    IF t \in DOMAIN cache.tokens /\ ~Expired(cache.tokens[t].expiry)
    THEN {cache.tokens[t].name} ELSE {}

\* checkLogin and checkToken: the user names that requests come with.
Callers == sessions \cup UNION {findUsernameByToken(t) : t \in 1..MaxTokens}

-----------------------------------------------------------------------------
MayBegin(r, kind) ==
    /\ req[r] = Idle
    /\ begun < MaxBegun
    /\ begun' = begun + 1
    /\ \A q \in Requests : req[q] # Idle =>
          kind \notin Alone /\ req[q].kind \notin Alone

\* Requests of these kinds under way, for the bounds.
Under(K) == Cardinality({q \in Requests : req[q].kind \in K})

Goto(r, x) == req' = [req EXCEPT ![r] = x]
End(r) == Goto(r, Idle)
Changed == version' = version + 1

\* CheckPassword: the row is read by name and the password compared.
CheckPassword(r, kind, n, pw, factor) ==
    /\ MayBegin(r, kind)
    /\ kind = "disable" => n \in Callers
    /\ kind = "login3" => made + Under({"login3"}) < MaxTokens
    /\ \E i \in IdsNamed(n) :
          /\ users[i].pass = pw
          /\ Goto(r, [kind |-> kind, pc |-> "upgrade", id |-> i,
                      row |-> users[i], factor |-> factor])
    /\ UNCHANGED <<now, users, tokens, cache, pending, holder, sessions, secrets,
                   batches, made, version, newest, accepted>>

\* The rest of it: a password stored in plain text is replaced by its hash; an
\* error of the update is ignored.
UpgradePassword(r) ==
    /\ req[r].pc = "upgrade"
    /\ \/ /\ ~req[r].row.hashed
          /\ users' = [users EXCEPT ![req[r].id].pass = req[r].row.pass,
                                    ![req[r].id].hashed = TRUE]
          /\ Goto(r, [req[r] EXCEPT !.pc = "factor", !.row.hashed = TRUE])
       \/ UNCHANGED users /\ Goto(r, [req[r] EXCEPT !.pc = "factor"])
    /\ UNCHANGED <<now, tokens, cache, pending, holder, sessions, secrets, batches,
                   made, version, newest, accepted, begun>>

\* VerifySecondFactor as far as the row at hand decides; a login without a
\* code is told that one is needed.
VerifySecondFactor(r) ==
    /\ req[r].pc = "factor"
    /\ LET x == req[r]
           passes == x.row.totp = 0
                     \/ (x.factor.by = "totp" /\ x.factor.secret = x.row.totp)
       IN  \/ passes /\ Goto(r, [x EXCEPT !.pc = "granted"])
           \/ /\ ~passes
              /\ x.factor.by = "none" /\ x.kind # "disable"
              /\ End(r)
           \/ /\ ~passes
              /\ ~(x.factor.by = "none" /\ x.kind # "disable")
              /\ Goto(r, [x EXCEPT !.pc = "lock"])
    /\ UNCHANGED <<now, users, tokens, cache, pending, holder, sessions, secrets,
                   batches, made, version, newest, accepted, begun>>

\* Mutant: the codes of the row that was read with the password are used.
LockNoReread(r) ==
    /\ req[r].pc = "lock" /\ holder = {}
    /\ holder' = {r}
    /\ Goto(r, [req[r] EXCEPT !.pc = "codes"])
    /\ UNCHANGED <<now, users, tokens, cache, pending, sessions, secrets, batches,
                   made, version, newest, accepted, begun>>

\* recoveryCodeMu is taken and the row read again.
LockAndReread(r) ==
    /\ req[r].pc = "lock" /\ holder = {}
    /\ holder' = {r}
    /\ Goto(r, [req[r] EXCEPT !.pc = "codes", !.row = users[req[r].id]])
    /\ UNCHANGED <<now, users, tokens, cache, pending, sessions, secrets, batches,
                   made, version, newest, accepted, begun>>

\* Mutant: the mutex is kept when the code is not found.
UseCodeKeepsLock(r) ==
    /\ req[r].pc = "codes"
    /\ LET x == req[r]
           found == x.factor.by = "code" /\ x.factor.code \in x.row.codes
       IN  \/ /\ found
              /\ users' = [users EXCEPT ![x.id].codes = x.row.codes \ {x.factor.code}]
              /\ accepted' = [accepted EXCEPT ![x.factor.code] = @ + 1]
              /\ Goto(r, [x EXCEPT !.pc = "granted"])
              /\ holder' = {}
           \/ End(r) /\ UNCHANGED <<users, accepted, holder>>
    /\ UNCHANGED <<now, tokens, cache, pending, sessions, secrets, batches,
                   made, version, newest, begun>>

\* The code is looked up and the row written without it; the update may fail,
\* and the mutex is released either way.
UseCode(r) ==
    /\ req[r].pc = "codes"
    /\ holder' = {}
    /\ LET x == req[r]
           found == x.factor.by = "code" /\ x.factor.code \in x.row.codes
       IN  \/ /\ found
              /\ users' = [users EXCEPT ![x.id].codes = x.row.codes \ {x.factor.code}]
              /\ accepted' = [accepted EXCEPT ![x.factor.code] = @ + 1]
              /\ Goto(r, [x EXCEPT !.pc = "granted"])
           \/ End(r) /\ UNCHANGED <<users, accepted>>
    /\ UNCHANGED <<now, tokens, cache, pending, sessions, secrets, batches,
                   made, version, newest, begun>>

\* The web login ends with a session cookie.
GrantSession(r) ==
    /\ req[r].pc = "granted" /\ req[r].kind = "login"
    /\ sessions' = sessions \cup {req[r].row.name}
    /\ End(r)
    /\ UNCHANGED <<now, users, tokens, cache, pending, holder, secrets, batches,
                   made, version, newest, accepted, begun>>

\* AddToken: a row for the user who has the name now.
NewToken(n, days) ==
    /\ made' = made + 1
    /\ \E i \in IdsNamed(n) :
          tokens' = With(tokens, made + 1,
                         [user |-> i, expiry |-> IF days = 0 THEN 0 ELSE now + days])
    /\ Changed

\* The login of the mobile app ends with a token; a user renamed meanwhile
\* gets none.
GrantToken(r, days) ==
    /\ req[r].pc = "granted" /\ req[r].kind = "login3"
    /\ \/ NewToken(req[r].row.name, days)
          /\ Goto(r, [kind |-> "login3", pc |-> "load"])
       \/ /\ IdsNamed(req[r].row.name) = {}
          /\ End(r)
          /\ UNCHANGED <<tokens, made, version>>
    /\ UNCHANGED <<now, users, cache, pending, holder, sessions, secrets, batches,
                   newest, accepted, begun>>

\* DisableTOTP: the columns are cleared, by id.
ClearTOTP(r) ==
    /\ req[r].pc = "granted" /\ req[r].kind = "disable"
    /\ users' = [users EXCEPT ![req[r].id].totp = 0, ![req[r].id].codes = {}]
    /\ End(r)
    /\ UNCHANGED <<now, tokens, cache, pending, holder, sessions, secrets, batches,
                   made, version, newest, accepted, begun>>

-----------------------------------------------------------------------------
(* TOTP enrolment *)

\* BeginTOTP: a new secret replaces the pending one.
BeginTOTP(n) ==
    /\ n \in Callers
    /\ secrets < MaxBatches
    /\ secrets' = secrets + 1
    /\ pending' = With(pending, n, [secret |-> secrets + 2, expiry |-> now + Window])
    /\ UNCHANGED <<now, users, tokens, cache, holder, req, sessions, batches, made,
                   version, newest, accepted, begun>>

\* EnableTOTP until the code has been compared with the pending secret.
LoadPending(r, n) ==
    /\ MayBegin(r, "enable")
    /\ n \in Callers \cap DOMAIN pending
    /\ batches + Under({"enable"}) < MaxBatches
    /\ now <= pending[n].expiry
    /\ Goto(r, [kind |-> "enable", pc |-> "enrol", name |-> n,
                secret |-> pending[n].secret])
    /\ UNCHANGED <<now, users, tokens, cache, pending, holder, sessions, secrets,
                   batches, made, version, newest, accepted>>

\* New codes are drawn and the columns written, by name: a user renamed
\* meanwhile is not found, which is no error.
EnableTOTP(r) ==
    /\ req[r].pc = "enrol"
    /\ batches' = batches + 1
    /\ users' = [i \in Ids |->
                    IF users[i].name = req[r].name
                    THEN [users[i] EXCEPT !.totp = req[r].secret,
                                          !.codes = Batch(batches + 1)]
                    ELSE users[i]]
    /\ Goto(r, [req[r] EXCEPT !.pc = "forget"])
    /\ UNCHANGED <<now, tokens, cache, pending, holder, sessions, secrets, made,
                   version, newest, accepted, begun>>

\* The pending secret is deleted, also when it is a newer one.
ForgetPending(r) ==
    /\ req[r].pc = "forget"
    /\ pending' = Without(pending, {req[r].name})
    /\ End(r)
    /\ UNCHANGED <<now, users, tokens, cache, holder, sessions, secrets, batches,
                   made, version, newest, accepted, begun>>

-----------------------------------------------------------------------------
(* Names and passwords *)

\* ChangePass until the current password has been compared.
ReadForChange(r, i, old, n, pw) ==
    /\ MayBegin(r, "changePass")
    /\ Callers # {}
    /\ users[i].pass = old
    /\ Goto(r, [kind |-> "changePass", pc |-> "save", id |-> i,
                row |-> [users[i] EXCEPT !.name = n, !.pass = pw, !.hashed = TRUE]])
    /\ UNCHANGED <<now, users, tokens, cache, pending, holder, sessions, secrets,
                   batches, made, version, newest, accepted>>

\* UpdateFirstUser, from the command line: another process.
ReadForReset(r, n, pw) ==
    /\ MayBegin(r, "cli")
    /\ Goto(r, [kind |-> "cli", pc |-> "save", id |-> 1,
                row |-> [users[1] EXCEPT !.name = n, !.pass = pw, !.hashed = TRUE]])
    /\ UNCHANGED <<now, users, tokens, cache, pending, holder, sessions, secrets,
                   batches, made, version, newest, accepted>>

\* Save writes every column of the copy; a name that is taken is an error.
\* ChangePass is followed by ReloadTokens, the command line is not.
SaveRow(r) ==
    /\ req[r].pc = "save"
    /\ LET x == req[r]
           taken == \E j \in Ids \ {x.id} : users[j].name = x.row.name
       IN  /\ \/ ~taken /\ users' = [users EXCEPT ![x.id] = x.row] /\ Changed
              \/ taken /\ UNCHANGED <<users, version>>
           /\ Goto(r, IF x.kind = "cli" THEN Idle
                      ELSE [kind |-> x.kind, pc |-> "load"])
    /\ UNCHANGED <<now, tokens, cache, pending, holder, sessions, secrets, batches,
                   made, newest, accepted, begun>>

-----------------------------------------------------------------------------
(* Tokens *)

AddToken(r, n, days) ==
    /\ MayBegin(r, "token")
    /\ n \in Callers
    /\ made + Under({"login3"}) < MaxTokens
    /\ NewToken(n, days)
    /\ Goto(r, [kind |-> "token", pc |-> "load"])
    /\ UNCHANGED <<now, users, cache, pending, holder, sessions, secrets, batches,
                   newest, accepted>>

\* Mutant: the handler of the mobile API forgets to reload the cache.
DeleteTokenNoReload(r, n, t) ==
    /\ MayBegin(r, "token")
    /\ n \in Callers
    /\ t \in DOMAIN tokens /\ users[tokens[t].user].name = n
    /\ tokens' = Without(tokens, {t})
    /\ Changed
    /\ UNCHANGED <<now, users, cache, pending, holder, req, sessions, secrets,
                   batches, made, newest, accepted>>

\* DeleteUserToken, and DeleteTokenValue on logout: only tokens of the user.
DeleteToken(r, n, t) ==
    /\ MayBegin(r, "token")
    /\ n \in Callers
    /\ t \in DOMAIN tokens /\ users[tokens[t].user].name = n
    /\ tokens' = Without(tokens, {t})
    /\ Changed
    /\ Goto(r, [kind |-> "token", pc |-> "load"])
    /\ UNCHANGED <<now, users, cache, pending, holder, sessions, secrets, batches,
                   made, newest, accepted>>

NoTokens == [tokens |-> <<>>, version |-> -1]

\* ReloadTokens: the rows are not loaded.  The error is logged, and the cache
\* stays as it is.
ReloadFails(r) ==
    /\ req[r].pc = "load"
    /\ newest' = version
    /\ End(r)
    /\ UNCHANGED <<now, users, tokens, cache, pending, holder, sessions, secrets,
                   batches, made, version, accepted, begun>>

\* The rows are loaded ...
ReloadLoad(r) ==
    /\ req[r].pc = "load"
    /\ Goto(r, [kind |-> req[r].kind, pc |-> "store", version |-> version,
                tokens |-> LoadedTokens])
    /\ UNCHANGED <<now, users, tokens, cache, pending, holder, sessions, secrets,
                   batches, made, version, newest, accepted, begun>>

\* ... and stored under the lock, whatever another reload has stored meanwhile.
ReloadStore(r) ==
    /\ req[r].pc = "store"
    /\ cache' = [tokens |-> req[r].tokens, version |-> req[r].version]
    /\ newest' = IF newest < req[r].version THEN req[r].version ELSE newest
    /\ End(r)
    /\ UNCHANGED <<now, users, tokens, pending, holder, sessions, secrets, batches,
                   made, version, accepted, begun>>

-----------------------------------------------------------------------------
Tick ==
    /\ now < MaxTime
    /\ now' = now + 1
    /\ UNCHANGED <<users, tokens, cache, pending, holder, req, sessions, secrets,
                   batches, made, version, newest, accepted, begun>>

\* The panel ends and starts again: rows and cookies stay, NewAPIv2Handler
\* loads the tokens or fails to, and a command that runs beside it goes on.
Restart ==
    /\ req' = [r \in Requests |-> IF req[r].kind = "cli" THEN req[r] ELSE Idle]
    /\ holder' = {}
    /\ pending' = <<>>
    /\ cache' \in {[tokens |-> LoadedTokens, version |-> version], NoTokens}
    /\ newest' = version
    /\ UNCHANGED <<now, users, tokens, sessions, secrets, batches, made, version,
                   accepted, begun>>

\* The first administrator has TOTP, with the secret 1 and a batch of codes.
Init ==
    /\ now = 1
    /\ \E pw \in Passwords, h \in BOOLEAN :
          users = [i \in Ids |->
                      [name |-> i, pass |-> pw, hashed |-> h,
                       totp |-> IF i = 1 THEN 1 ELSE 0,
                       codes |-> IF i = 1 THEN Batch(0) ELSE {}]]
    /\ tokens = <<>>
    /\ cache = [tokens |-> <<>>, version |-> 0]
    /\ pending = <<>>
    /\ holder = {}
    /\ req = [r \in Requests |-> Idle]
    /\ sessions = Ids
    /\ secrets = 0 /\ batches = 0 /\ made = 0 /\ version = 0 /\ begun = 0
    /\ newest = 0
    /\ accepted = [c \in Codes |-> 0]

Step(r) ==
    \/ UpgradePassword(r) \/ VerifySecondFactor(r) \/ LockAndReread(r)
    \/ UseCode(r) \/ GrantSession(r) \/ (\E d \in 0..1 : GrantToken(r, d))
    \/ ClearTOTP(r) \/ EnableTOTP(r) \/ ForgetPending(r) \/ SaveRow(r)
    \/ ReloadFails(r) \/ ReloadLoad(r) \/ ReloadStore(r)

Begin(r) ==
    \/ \E k \in {"login", "login3", "disable"}, n \in Names, pw \in Passwords,
          f \in Factors : CheckPassword(r, k, n, pw, f)
    \/ \E n \in Names : LoadPending(r, n)
    \/ \E i \in Ids, old \in Passwords, n \in Names, pw \in Passwords :
          ReadForChange(r, i, old, n, pw)
    \/ \E n \in Names, pw \in Passwords : ReadForReset(r, n, pw)
    \/ \E n \in Names, d \in 0..1 : AddToken(r, n, d)
    \/ \E n \in Names, t \in 1..MaxTokens : DeleteToken(r, n, t)

Next ==
    \/ \E r \in Requests : Begin(r) \/ Step(r)
    \/ \E n \in Names : BeginTOTP(n)
    \/ Tick \/ Restart

Spec == Init /\ [][Next]_vars

-----------------------------------------------------------------------------
(* Properties *)

\* A recovery code is accepted at most once ("each code is valid once",
\* src/README.en.md:196), for two logins with the same code too.
EachCodeOnce == \A c \in Codes : accepted[c] <= 1

SpentCodes == {c \in Codes : accepted[c] > 0}

CodeVouchers == INSTANCE SingleUse WITH
    Vouchers <- Codes,
    live <- IssuedCodes \ SpentCodes,
    gone <- SpentCodes,
    accepted <- accepted

\* Recovery codes are single-use vouchers.
CodesAreVouchers == CodeVouchers!Spec

\* The cache answers for exactly the tokens in the database.  In the second in
\* which it expires a token may be refused or accepted.
CacheIsTable ==
    \A t \in 1..MaxTokens :
        LET valid == t \in DOMAIN tokens /\ ~Expired(tokens[t].expiry)
        IN  (findUsernameByToken(t) # {}) # valid =>
                valid /\ tokens[t].expiry = now

NoRequest == \A r \in Requests : req[r].kind \in {"none", "cli"}

\* With no request under way the cache answers for exactly the tokens in the
\* database, a deleted token is refused and a new one accepted, after any
\* changes that overlapped, unless the last reload to read the rows failed
\* or was overtaken by an earlier one (ReloadTokens).
CacheFollowsTokens == NoRequest /\ cache.version = newest => CacheIsTable

\* What a user who deletes a token expects, and the code does not give when
\* LoadTokens fails: with no request under way a deleted token is refused.
DeletedTokenRefused == NoRequest => CacheIsTable

\* recoveryCodeMu is held by the request that is between reading the codes
\* again and writing them, and by nobody else: every path of
\* VerifySecondFactor releases it.
CodeLockReleased ==
    holder = {r \in Requests : req[r].pc = "codes"} /\ Cardinality(holder) <= 1
=============================================================================
