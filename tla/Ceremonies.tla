----------------------------- MODULE Ceremonies -----------------------------
(***************************************************************************)
(* Logins that take two requests: OIDC and passkeys (src/service/auth.go,  *)
(* src/api/auth.go).  The first request leaves an entry in a bounded table *)
(* under a random key, the second takes it out under the table's mutex     *)
(* and goes on without a lock: it asks the provider or reads the rows,     *)
(* which other requests change meanwhile.                                  *)
(*                                                                         *)
(* Time is counted in whole units from 1; 0 is the zero time.Time.  What   *)
(* the libraries verify (ID token, nonce, signature) is a choice between   *)
(* success and failure; a passkey verifies only if it is among the         *)
(* credentials the code hands over.                                        *)
(***************************************************************************)
EXTENDS Integers, FiniteSets

CONSTANTS Ids,           \* administrators: 1 is the first row
          Names,         \* user names: a number above those in use is new
          Allowed,       \* identities of oidcAllowedUsers
          Strangers,     \* identities of nobody
          Creds,         \* passkeys
          Requests,      \* requests served at the same time
          MaxPending,    \* maxPendingAuthSessions
          CleanupPeriod, \* pendingCleanupPeriod
          OidcLife, PasskeyLife,
          MaxKeys,       \* bound: ceremonies begun
          MaxTime,       \* bound of the clock
          MaxToggles     \* bound: changes of the settings

ASSUME CeremonyAssumption ==
    /\ Ids \subseteq Nat /\ 1 \in Ids
    /\ Names \subseteq Nat /\ Ids \subseteq Names
    /\ MaxPending \in Nat \ {0} /\ CleanupPeriod \in Nat \ {0}
    /\ OidcLife \in Nat \ {0} /\ PasskeyLife \in Nat \ {0}
    /\ MaxKeys \in Nat /\ MaxTime \in Nat /\ MaxToggles \in Nat
    /\ Strangers \cap Names = {}

VARIABLES
    now,
    table,     \* oidcPendingStates, passkeyPendingSessions
    issued,    \* history: the keys handed out, by table
    accepted,  \* history: how often a request could go on with each key
    req,       \* what each request is doing
    name,      \* users.username
    owner,     \* passkey_credentials: user_id of each row
    gone,      \* history: passkeys that were deleted
    on,        \* settings oidcEnabled and passkeyEnabled
    toggles,
    sessions,  \* user names that a session cookie was given for
    refused    \* history: the table that refused an entry last

vars == <<now, table, issued, accepted, req, name, owner, gone, on, toggles,
          sessions, refused>>

Tables == {"oidc", "passkey"}
Idle == [pc |-> "idle"]
Without(f, S) == [x \in DOMAIN f \ S |-> f[x]]
With(f, x, v) == [y \in DOMAIN f \cup {x} |-> IF y = x THEN v ELSE f[y]]
IdsNamed(n) == {i \in Ids : name[i] = n}
CredsOf(i) == {c \in DOMAIN owner : owner[c] = i}
End(r) == req' = [req EXCEPT ![r] = Idle]

-----------------------------------------------------------------------------
(* The tables *)

\* Mutant: a full table waits for the next cleanup.
CleanupDueByTime(T, t) == T.cleaned = 0 \/ t - T.cleaned >= CleanupPeriod

CleanupDue(T, t) ==
    \/ T.cleaned = 0
    \/ t - T.cleaned >= CleanupPeriod
    \/ Cardinality(DOMAIN T.entries) >= MaxPending

Cleaned(T, t) ==
    IF CleanupDue(T, t)
    THEN [entries |-> Without(T.entries,
                          {k \in DOMAIN T.entries : t >= T.entries[k].expiry}),
          cleaned |-> t]
    ELSE T

\* Mutant: one entry more than the limit.
HasRoomLate(T) == Cardinality(DOMAIN T.entries) <= MaxPending

HasRoom(T) == Cardinality(DOMAIN T.entries) < MaxPending

\* The entry e is stored under a new random key, or refused.
StorePending(t, e) ==
    LET T == Cleaned(table[t], now)
        k == Cardinality(issued[t]) + 1
    IN  /\ Cardinality(issued["oidc"]) + Cardinality(issued["passkey"]) < MaxKeys
        /\ \/ /\ HasRoom(T)
              /\ table' = [table EXCEPT ![t] =
                              [T EXCEPT !.entries = With(@, k, e)]]
              /\ issued' = [issued EXCEPT ![t] = @ \cup {k}]
              /\ refused' = "none"
           \/ /\ ~HasRoom(T)
              /\ table' = [table EXCEPT ![t] = T]
              /\ refused' = t
              /\ UNCHANGED issued

StoreOIDCPending(e) == StorePending("oidc", e)
StorePasskeyPending(e) == StorePending("passkey", e)

InTime(t, k) == now <= table[t].entries[k].expiry

\* Mutant: the entry stays in the table.
PeekPending(t, k) ==
    /\ k \in DOMAIN table[t].entries
    /\ accepted' = [accepted EXCEPT ![t][k] = IF InTime(t, k) THEN @ + 1 ELSE @]
    /\ refused' = "none"
    /\ UNCHANGED table

\* A key that is not there changes nothing and is refused.
TakePending(t, k) ==
    /\ k \in DOMAIN table[t].entries
    /\ table' = [table EXCEPT ![t].entries = Without(@, {k})]
    /\ accepted' = [accepted EXCEPT ![t][k] = IF InTime(t, k) THEN @ + 1 ELSE @]
    /\ refused' = "none"

TakeOIDCPending(k) == TakePending("oidc", k)
TakePasskeyPending(k) == TakePending("passkey", k)

-----------------------------------------------------------------------------
(* OIDC *)

BeginOIDC ==
    /\ on.oidc
    /\ StoreOIDCPending([expiry |-> now + OidcLife])
    /\ UNCHANGED <<now, accepted, req, name, owner, gone, on, toggles, sessions>>

\* FinishOIDC until it has the entry.
TakeOIDC(r, k) ==
    /\ req[r] = Idle
    /\ TakeOIDCPending(k)
    /\ req' = [req EXCEPT ![r] =
                  IF InTime("oidc", k) THEN [pc |-> "exchange"] ELSE Idle]
    /\ UNCHANGED <<now, issued, name, owner, gone, on, toggles, sessions>>

\* The user an identity logs in as; {} if it is not allowed.
OIDCUser(i) ==
    IF IdsNamed(i) # {} THEN {i}
    ELSE IF i \in Allowed THEN {name[1]} ELSE {}

\* The rest of it: settings, exchange, ID token, identity, user; a failure of
\* any of them leaves the request without a session.
FinishOIDC(r) ==
    /\ req[r].pc = "exchange"
    /\ \/ /\ on.oidc
          /\ \E i \in Names \cup Strangers :
                sessions' = sessions \cup OIDCUser(i)
       \/ UNCHANGED sessions
    /\ End(r)
    /\ refused' = "none"
    /\ UNCHANGED <<now, table, issued, accepted, name, owner, gone, on, toggles>>

-----------------------------------------------------------------------------
(* Passkeys *)

\* webAuthn: switched on, and a relying party and an origin are known.
WebAuthn == on.passkey

\* BeginPasskeyRegistration of a logged-in user.
BeginRegistration(n) ==
    /\ WebAuthn
    /\ n \in sessions
    /\ IdsNamed(n) # {}
    /\ StorePasskeyPending([user |-> n, allow |-> {},
                            expiry |-> now + PasskeyLife])
    /\ UNCHANGED <<now, accepted, req, name, owner, gone, on, toggles, sessions>>

\* BeginPasskeyLogin: anybody may name a user who has a passkey.
BeginPasskeyLogin(n) ==
    /\ WebAuthn
    /\ \E i \in IdsNamed(n) :
          /\ CredsOf(i) # {}
          /\ StorePasskeyPending([user |-> n, allow |-> CredsOf(i),
                                  expiry |-> now + PasskeyLife])
    /\ UNCHANGED <<now, accepted, req, name, owner, gone, on, toggles, sessions>>

\* takePasskeySession and the comparison of the user names: caller is the
\* user name of a registration, 0 for a login.
TakePasskey(r, k, caller) ==
    /\ req[r] = Idle
    /\ caller \in sessions \cup {0}
    /\ TakePasskeyPending(k)
    /\ LET e == table["passkey"].entries[k]
       IN  req' = [req EXCEPT ![r] =
                      IF InTime("passkey", k) /\ caller \in {0, e.user}
                      THEN [pc |-> "load", user |-> e.user, allow |-> e.allow,
                            register |-> caller # 0]
                      ELSE Idle]
    /\ UNCHANGED <<now, issued, name, owner, gone, on, toggles, sessions>>

\* webAuthn and loadWebUser, by the name in the entry.
LoadWebUser(r) ==
    /\ req[r].pc = "load"
    /\ \/ /\ WebAuthn
          /\ \E i \in IdsNamed(req[r].user) :
                req' = [req EXCEPT ![r] =
                           [pc |-> "verify", user |-> @.user, allow |-> @.allow,
                            register |-> @.register, id |-> i,
                            creds |-> CredsOf(i)]]
       \/ /\ ~WebAuthn \/ IdsNamed(req[r].user) = {}
          /\ End(r)
    /\ refused' = "none"
    /\ UNCHANGED <<now, table, issued, accepted, name, owner, gone, on, toggles,
                   sessions>>

\* FinishRegistration of the library, the name of the passkey and the new row.
FinishRegistration(r) ==
    /\ req[r].pc = "verify" /\ req[r].register
    /\ \/ \E c \in Creds \ (DOMAIN owner \cup gone) :
             owner' = With(owner, c, req[r].id)
       \/ UNCHANGED owner
    /\ End(r)
    /\ refused' = "none"
    /\ UNCHANGED <<now, table, issued, accepted, name, gone, on, toggles, sessions>>

\* FinishLogin of the library: a signature by a passkey that was loaded and,
\* when the entry lists any, is listed.
VerifyLogin(r) ==
    /\ req[r].pc = "verify" /\ ~req[r].register
    /\ \/ \E c \in req[r].creds :
             /\ req[r].allow = {} \/ c \in req[r].allow
             /\ req' = [req EXCEPT ![r] =
                           [pc |-> "reread", user |-> @.user, id |-> @.id,
                            cred |-> c, gone |-> gone]]
       \/ End(r)
    /\ refused' = "none"
    /\ UNCHANGED <<now, table, issued, accepted, name, owner, gone, on, toggles,
                   sessions>>

\* Mutant: the row is not looked up again.
StillRegisteredNoRead(r) == TRUE

StillRegistered(r) == req[r].cred \in CredsOf(req[r].id)

\* The rows are read again; a passkey that is not among them is refused.
RereadRows(r) ==
    /\ req[r].pc = "reread"
    /\ req' = [req EXCEPT ![r] = IF StillRegistered(r)
                                 THEN [@ EXCEPT !.pc = "stamp"] ELSE Idle]
    /\ refused' = "none"
    /\ UNCHANGED <<now, table, issued, accepted, name, owner, gone, on, toggles,
                   sessions>>

\* The row is updated (last_used_at; a row deleted meanwhile is no error) and
\* the session is given to the user named in the entry.
FinishPasskeyLogin(r) ==
    /\ req[r].pc = "stamp"
    /\ sessions' = sessions \cup {req[r].user} \/ UNCHANGED sessions
    /\ End(r)
    /\ refused' = "none"
    /\ UNCHANGED <<now, table, issued, accepted, name, owner, gone, on, toggles>>

DeletePasskey(n, c) ==
    /\ n \in sessions
    /\ c \in DOMAIN owner /\ name[owner[c]] = n
    /\ owner' = Without(owner, {c})
    /\ gone' = gone \cup {c}
    /\ refused' = "none"
    /\ UNCHANGED <<now, table, issued, accepted, req, name, on, toggles, sessions>>

-----------------------------------------------------------------------------
(* What else changes under a ceremony *)

\* ChangePass gives an administrator a name that nobody had before.
Rename(i) ==
    /\ \E n \in Names :
          /\ \A j \in Ids : n > name[j]
          /\ \A s \in sessions : n > s
          /\ name' = [name EXCEPT ![i] = n]
    /\ refused' = "none"
    /\ UNCHANGED <<now, table, issued, accepted, req, owner, gone, on, toggles,
                   sessions>>

\* The settings are saved.
Switch(t) ==
    /\ toggles < MaxToggles
    /\ toggles' = toggles + 1
    /\ on' = [on EXCEPT ![t] = ~@]
    /\ refused' = "none"
    /\ UNCHANGED <<now, table, issued, accepted, req, name, owner, gone, sessions>>

Tick ==
    /\ now < MaxTime
    /\ now' = now + 1
    /\ refused' = "none"
    /\ UNCHANGED <<table, issued, accepted, req, name, owner, gone, on, toggles,
                   sessions>>

\* The process ends: the tables and the requests are gone, rows and cookies
\* stay.
Restart ==
    /\ table' = [t \in Tables |-> [entries |-> <<>>, cleaned |-> 0]]
    /\ req' = [r \in Requests |-> Idle]
    /\ refused' = "none"
    /\ UNCHANGED <<now, issued, accepted, name, owner, gone, on, toggles, sessions>>

Init ==
    /\ now = 1
    /\ table = [t \in Tables |-> [entries |-> <<>>, cleaned |-> 0]]
    /\ issued = [t \in Tables |-> {}]
    /\ accepted = [t \in Tables |-> [k \in 1..MaxKeys |-> 0]]
    /\ req = [r \in Requests |-> Idle]
    /\ name = [i \in Ids |-> i]
    /\ \E c \in Creds : owner = [d \in {c} |-> 1]
    /\ gone = {}
    /\ on = [oidc |-> TRUE, passkey |-> TRUE]
    /\ toggles = 0
    /\ sessions = {1}
    /\ refused = "none"

Next ==
    \/ BeginOIDC
    \/ \E n \in Names : BeginRegistration(n) \/ BeginPasskeyLogin(n)
    \/ \E r \in Requests :
          \/ \E k \in 1..MaxKeys : TakeOIDC(r, k)
          \/ \E k \in 1..MaxKeys, n \in Names \cup {0} : TakePasskey(r, k, n)
          \/ FinishOIDC(r) \/ LoadWebUser(r) \/ FinishRegistration(r)
          \/ VerifyLogin(r) \/ RereadRows(r) \/ FinishPasskeyLogin(r)
    \/ \E n \in Names, c \in Creds : DeletePasskey(n, c)
    \/ \E i \in Ids : Rename(i)
    \/ \E t \in Tables : Switch(t)
    \/ Tick \/ Restart

Spec == Init /\ [][Next]_vars

-----------------------------------------------------------------------------
(* Properties *)

\* Neither table of pending ceremonies holds more than maxPendingAuthSessions
\* entries, however many ceremonies are begun and never finished
\* (storeOIDCPending, storePasskeyPending).
PendingBounded ==
    \A t \in Tables : Cardinality(DOMAIN table[t].entries) <= MaxPending

\* A new ceremony is refused only while the table is full of ceremonies that
\* can still be finished: abandoned ones never lock anybody out for longer
\* than their lifetime.
RefusedOnlyWhenBusy ==
    [][refused' # "none" =>
          LET E == table'[refused'].entries
          IN  /\ Cardinality(DOMAIN E) = MaxPending
              /\ \A k \in DOMAIN E : now < E[k].expiry]_vars

\* A passkey that was deleted before the library had verified the signature
\* gives no session (FinishPasskeyLogin reads the rows again after it).
DeletedPasskeyRefused ==
    \A r \in Requests : req[r].pc = "stamp" => req[r].cred \notin req[r].gone

OidcVouchers == INSTANCE SingleUse WITH
    Vouchers <- 1..MaxKeys,
    live <- DOMAIN table["oidc"].entries,
    gone <- issued["oidc"] \ DOMAIN table["oidc"].entries,
    accepted <- accepted["oidc"]

PasskeyVouchers == INSTANCE SingleUse WITH
    Vouchers <- 1..MaxKeys,
    live <- DOMAIN table["passkey"].entries,
    gone <- issued["passkey"] \ DOMAIN table["passkey"].entries,
    accepted <- accepted["passkey"]

\* The states of OIDC logins and the sessions of passkey ceremonies are
\* single-use vouchers: each is accepted at most once, and never after the
\* cleanup has dropped it (takeOIDCPending, takePasskeyPending).
CeremoniesSingleUse == OidcVouchers!Spec /\ PasskeyVouchers!Spec
=============================================================================
