---------------------------- MODULE ClientLedger ----------------------------
(***************************************************************************)
(* What a client has used and whether it is served: the counters of the    *)
(* stats tracker, the stats job that moves them into the client rows, the  *)
(* deplete job that resets and disables clients, the request that saves a  *)
(* client, and the user list of the running inbound                        *)
(* (src/core/tracker_stats.go, src/service/stats.go, src/service/client.go,*)
(* src/service/inbounds.go, src/cronjob).                                  *)
(*                                                                         *)
(* All clients are on one inbound.  Upload and download are added up.  A   *)
(* client is its id; the tracker and the stats job know it by its name, of *)
(* which a row says only whether it ever changed.                          *)
(*                                                                         *)
(* The cron starts a job whether or not its last run has returned, so each *)
(* kind of job is a set of goroutines.  SQLite (WAL, deferred              *)
(* transactions) is modelled by its rule for writers: one at a time, and a *)
(* transaction that has read writes only if nothing was committed since.   *)
(***************************************************************************)
EXTENDS Integers, FiniteSets

CONSTANTS Clients, StatsJobs, DepleteJobs,
          InitRows,     \* rows a client may start with
          Volumes,      \* quotas an administrator sets; 0 is no quota
          Period,       \* ResetDays * 86400
          MaxSent,      \* bound: units of traffic of a client
          MaxTime,      \* bound of the clock
          Forms,        \* TRUE: clients are edited and deleted
          Overlap,      \* FALSE: an operation begins only when none is under way
          Faults        \* TRUE: the stores and the inbound may refuse

Row == [name : {"none", "own", "changed"},   \* none: no row, changed: at any time
        used : Nat, total : Nat, volume : Nat, expiry : Nat, next : Nat,
        enable : BOOLEAN, delay : BOOLEAN, auto : BOOLEAN]

ASSUME LedgerAssumption ==
    /\ Clients # {} /\ IsFiniteSet(StatsJobs) /\ InitRows \subseteq Row
    /\ Period \in Nat \ {0} /\ MaxSent \in Nat /\ MaxTime \in Nat \ {0}
    /\ Volumes \subseteq Nat
    /\ Forms \in BOOLEAN /\ Overlap \in BOOLEAN /\ Faults \in BOOLEAN

VARIABLES
    now,      \* the clock
    row,      \* the committed row of each client
    running,  \* Core.isRunning
    live,     \* the counter of each client in the tracker of the box
    served,   \* the users of the inbound of the box
    conn,     \* the connection of each client: none, accepted, tracked or late
    batch,    \* of each stats job: what GetStats returned, or NoBatch
    dep,      \* of each deplete job: its control point and locals
    form,     \* the client form of the administrator: a row read earlier
    tx,       \* the transaction of the save request
    sent,     \* history: what each client has sent through the counters
    lost,     \* history: what was counted and then dropped
    erased    \* history: what the saves of old forms took off the rows

vars == <<now, row, running, live, served, conn, batch, dep, form, tx, sent, lost, erased>>

Zero == [c \in Clients |-> 0]
NoBatch == [on |-> FALSE, n |-> Zero]
NoRow == [name |-> "none", used |-> 0, total |-> 0, volume |-> 0, expiry |-> 0, next |-> 0,
          enable |-> FALSE, delay |-> FALSE, auto |-> FALSE]
NoRows == [c \in Clients |-> NoRow]
NoDep == [pc |-> "idle", dt |-> 0, rows |-> NoRows, stale |-> FALSE, users |-> {}]
NoForm == [on |-> FALSE, of |-> CHOOSE c \in Clients : TRUE, r |-> NoRow]
NoTx == [pc |-> "idle", rows |-> NoRows, was |-> FALSE, users |-> {}]

Charged(r) == r.used + r.total
Stored(r) == r.name # "none"

\* fetchUsers: the users that addUsers gives to the inbound.
Enabled(rows) == {c \in Clients : rows[c].enable}

\* No transaction holds the write lock.
Unlocked == tx.pc \in {"idle", "begin"}

AllIdle ==
    /\ \A j \in StatsJobs : ~batch[j].on
    /\ \A j \in DepleteJobs : dep[j].pc = "idle"
    /\ tx.pc = "idle"
MayBegin == Overlap \/ AllIdle

\* A commit makes the snapshot of every transaction that has read stale.
Unsnap == [j \in DepleteJobs |->
              IF dep[j].pc = "read" THEN [dep[j] EXCEPT !.stale = TRUE] ELSE dep[j]]

\* What the stats jobs hold of client c: the units of each, counted.
Units(c) == UNION {{j} \X (1..batch[j].n[c]) : j \in StatsJobs}
Held(c) == Cardinality(Units(c))

-----------------------------------------------------------------------------
(* The box: traffic, restarts of the core. *)

\* The inbound lets a client in that is one of its users.
Connect(c) ==
    /\ running /\ c \in served /\ conn[c] = "none"
    /\ conn' = [conn EXCEPT ![c] = "accepted"]
    /\ UNCHANGED <<now, row, running, live, served, batch, dep, form, tx, sent, lost, erased>>

\* RoutedConnection: the connection is tracked as it is routed, some time after
\* it was let in; late: its inbound was restarted in between.
Route(c) ==
    /\ conn[c] = "accepted"
    /\ conn' = [conn EXCEPT ![c] = IF c \in served THEN "tracked" ELSE "late"]
    /\ UNCHANGED <<now, row, running, live, served, batch, dep, form, tx, sent, lost, erased>>

\* Either end closes the connection; wrappedConn untracks it.
Hangup(c) ==
    /\ conn[c] # "none"
    /\ conn' = [conn EXCEPT ![c] = "none"]
    /\ UNCHANGED <<now, row, running, live, served, batch, dep, form, tx, sent, lost, erased>>

NoConn == [c \in Clients |-> "none"]

\* Mutant: the connections are left open when their inbound is closed.
ConnsLeftOpen == conn

\* What CloseConnByInbound leaves: it closes the connections that are tracked.
CloseConnByInbound ==
    [c \in Clients |-> IF conn[c] = "accepted" THEN "accepted" ELSE "none"]

\* A connection carries traffic until it is closed, whoever is served by then.
Send(c) ==
    /\ running /\ conn[c] \in {"tracked", "late"} /\ sent[c] < MaxSent
    /\ sent' = [sent EXCEPT ![c] = @ + 1]
    /\ live' = [live EXCEPT ![c] = @ + 1]
    /\ UNCHANGED <<now, row, running, served, conn, batch, dep, form, tx, lost, erased>>

\* Box.Close ends with the Reset of both trackers.
StopBox ==
    /\ running /\ MayBegin
    /\ running' = FALSE
    /\ lost' = [c \in Clients |-> lost[c] + live[c]]
    /\ live' = Zero
    /\ served' = {} /\ conn' = NoConn
    /\ UNCHANGED <<now, row, batch, dep, form, tx, sent, erased>>

StartBox ==
    /\ ~running /\ MayBegin
    /\ running' = TRUE
    /\ served' = Enabled(row)
    /\ UNCHANGED <<now, row, live, conn, batch, dep, form, tx, sent, lost, erased>>

-----------------------------------------------------------------------------
(* StatsJob: SaveStats. *)

GetStats(j) ==
    /\ ~batch[j].on /\ MayBegin /\ running
    /\ live # Zero
    /\ batch' = [batch EXCEPT ![j] = [on |-> TRUE, n |-> live]]
    /\ live' = Zero
    /\ UNCHANGED <<now, row, running, served, conn, dep, form, tx, sent, lost, erased>>

\* What "WHERE name = ?" may find of n units of a client: all while its row has
\* the name they were counted under, none without a row.  After a rename some
\* are counted under the former name, found only if a form brought it back.
Found(r, n) == CASE r.name = "none" -> {0} [] r.name = "own" -> {n} [] OTHER -> 0..n

\* The transaction adds to the columns in place.
SaveStats(j) ==
    /\ batch[j].on /\ Unlocked
    /\ \E found \in [Clients -> UNION {Found(row[c], batch[j].n[c]) : c \in Clients}] :
         /\ \A c \in Clients : found[c] \in Found(row[c], batch[j].n[c])
         /\ row' = [c \in Clients |-> [row[c] EXCEPT !.used = @ + found[c]]]
         /\ lost' = [c \in Clients |-> lost[c] + batch[j].n[c] - found[c]]
    /\ dep' = Unsnap
    /\ batch' = [batch EXCEPT ![j] = NoBatch]
    /\ UNCHANGED <<now, running, live, served, conn, form, tx, sent, erased>>

\* Busy for 10 seconds, or an error: the job keeps nothing for the next run.
SaveStatsFails(j) ==
    /\ Faults /\ batch[j].on
    /\ lost' = [c \in Clients |-> lost[c] + batch[j].n[c]]
    /\ batch' = [batch EXCEPT ![j] = NoBatch]
    /\ UNCHANGED <<now, row, running, live, served, conn, dep, form, tx, sent, erased>>

-----------------------------------------------------------------------------
(* DepleteJob: DepleteClients (with ResetClients), then RestartInbounds.    *)

\* The first use of a client whose period starts with it.
DelayOver(r) == r.enable /\ r.delay /\ r.used > 0
ResetDue(r, dt) == ~r.delay /\ r.auto /\ r.next < dt

\* Mutant: the period's usage is added to the total and kept.
ResetClientsTwice(r, dt) ==
    CASE DelayOver(r) /\ ~r.auto -> [r EXCEPT !.expiry = dt + Period, !.delay = FALSE]
      [] DelayOver(r) /\ r.auto -> [r EXCEPT !.next = dt + Period, !.delay = FALSE]
      [] ResetDue(r, dt) -> [r EXCEPT !.next = dt + Period, !.enable = TRUE,
                                      !.total = @ + r.used]
      [] OTHER -> r

\* The three queries of ResetClients exclude each other.
ResetClients(r, dt) ==
    CASE DelayOver(r) /\ ~r.auto -> [r EXCEPT !.expiry = dt + Period, !.delay = FALSE]
      [] DelayOver(r) /\ r.auto -> [r EXCEPT !.next = dt + Period, !.delay = FALSE]
      [] ResetDue(r, dt) -> [r EXCEPT !.next = dt + Period, !.enable = TRUE,
                                      !.total = @ + r.used, !.used = 0]
      [] OTHER -> r

\* Mutant: misplaced parentheses, the expiry counts only for a client with a quota.
DepletedByQuota(r, dt) ==
    r.enable /\ r.volume > 0 /\ (r.used > r.volume \/ (r.expiry > 0 /\ r.expiry < dt))

Depleted(r, dt) ==
    /\ r.enable
    /\ \/ r.volume > 0 /\ r.used > r.volume
       \/ r.expiry > 0 /\ r.expiry < dt

Settled(r, dt) ==
    LET s == ResetClients(r, dt)
    IN  IF Depleted(s, dt) THEN [s EXCEPT !.enable = FALSE] ELSE s

\* The clients whose inbounds DepleteClients returns.
Touched(rows, dt) ==
    {c \in Clients : LET s == ResetClients(rows[c], dt)
                     IN  Depleted(s, dt) \/ s.enable # rows[c].enable}

DepleteRead(j) ==
    /\ dep[j].pc = "idle" /\ MayBegin
    /\ dep' = [dep EXCEPT ![j] = [NoDep EXCEPT !.pc = "read", !.dt = now, !.rows = row]]
    /\ UNCHANGED <<now, row, running, live, served, conn, batch, form, tx, sent, lost, erased>>

Others(j, next) == [k \in DepleteJobs |-> IF k = j THEN next ELSE Unsnap[k]]

\* Mutant: the rows are read and saved outside a transaction.
DepleteCommitNoTx(j) ==
    /\ dep[j].pc = "read" /\ Unlocked
    /\ LET d == dep[j]
           new == [c \in Clients |-> Settled(d.rows[c], d.dt)]
       IN  /\ row' = IF new = d.rows THEN row ELSE new
           /\ dep' = Others(j, IF Touched(d.rows, d.dt) = {} THEN NoDep
                               ELSE [NoDep EXCEPT !.pc = "restart"])
    /\ UNCHANGED <<now, running, live, served, conn, batch, form, tx, sent, lost, erased>>

\* A transaction that changes nothing takes no write lock.
DepleteCommit(j) ==
    /\ dep[j].pc = "read"
    /\ LET d == dep[j]
           new == [c \in Clients |-> Settled(d.rows[c], d.dt)]
           next == IF Touched(d.rows, d.dt) = {} THEN NoDep
                   ELSE [NoDep EXCEPT !.pc = "restart"]
       IN  \/ /\ new # d.rows /\ ~d.stale /\ Unlocked
              /\ row' = new
              /\ dep' = Others(j, next)
           \/ /\ new = d.rows
              /\ dep' = [dep EXCEPT ![j] = next]
              /\ UNCHANGED row
    /\ UNCHANGED <<now, running, live, served, conn, batch, form, tx, sent, lost, erased>>

DepleteFails(j) ==
    /\ dep[j].pc = "read" /\ (Faults \/ dep[j].stale)
    /\ dep' = [dep EXCEPT ![j] = NoDep]
    /\ UNCHANGED <<now, row, running, live, served, conn, batch, form, tx, sent, lost, erased>>

\* RestartInbounds: remove the inbound, close its connections, read its users.
RestartRemove(j) ==
    /\ dep[j].pc = "restart"
    /\ \/ /\ running
          /\ served' = {} /\ conn' = CloseConnByInbound
          /\ dep' = [dep EXCEPT ![j].pc = "add", ![j].users = Enabled(row)]
       \/ /\ ~running \/ Faults
          /\ dep' = [dep EXCEPT ![j] = NoDep]
          /\ UNCHANGED <<served, conn>>
    /\ UNCHANGED <<now, row, running, live, batch, form, tx, sent, lost, erased>>

\* Mutant: AddInbound does not look at isRunning.
RestartAddBlind(j) ==
    /\ dep[j].pc = "add"
    /\ served' = dep[j].users
    /\ dep' = [dep EXCEPT ![j] = NoDep]
    /\ UNCHANGED <<now, row, running, live, conn, batch, form, tx, sent, lost, erased>>

\* AddInbound refuses when the core was stopped in between.
RestartAdd(j) ==
    /\ dep[j].pc = "add"
    /\ \/ running /\ served' = dep[j].users
       \/ (~running \/ Faults) /\ UNCHANGED served
    /\ dep' = [dep EXCEPT ![j] = NoDep]
    /\ UNCHANGED <<now, row, running, live, conn, batch, form, tx, sent, lost, erased>>

-----------------------------------------------------------------------------
(* SaveWithApply("clients", "edit" or "del"): the form holds the whole row  *)
(* as it was read, the counters of the client included, and an edit saves   *)
(* all of it.                                                               *)

OpenForm(c) ==
    /\ Forms /\ tx.pc # "begin" /\ Stored(row[c])
    /\ form' = [on |-> TRUE, of |-> c, r |-> row[c]]
    /\ UNCHANGED <<now, row, running, live, served, conn, batch, dep, tx, sent, lost, erased>>

\* Mutant: the form is compared with itself.
InboundsChangeForm(c, e, rename) == form.r.enable # e \/ rename

\* findInboundsChanges, for a client whose inbounds stay: it is turned on or
\* off, or gets another name than it has, if only from a form from before a
\* rename.
findInboundsChanges(c, e, rename) ==
    row[c].enable # e \/ rename \/ row[c].name # form.r.name

\* The configuration before the request, taken before the transaction begins.
BeginSave ==
    /\ form.on /\ tx.pc = "idle" /\ MayBegin
    /\ tx' = [NoTx EXCEPT !.pc = "begin", !.was = running,
                          !.users = IF running THEN Enabled(row) ELSE {}]
    /\ UNCHANGED <<now, row, running, live, served, conn, batch, dep, form, sent, lost, erased>>

\* The rows that the transaction, which holds the write lock from here on, has
\* written, and whether the inbound is to be restarted.
Written(r, restart) ==
    /\ tx' = [tx EXCEPT !.pc = IF restart /\ running THEN "restart" ELSE "commit",
                        !.rows = [row EXCEPT ![form.of] = r]]
    /\ form' = NoForm
    /\ UNCHANGED <<now, row, running, live, served, conn, batch, dep, sent, lost, erased>>

\* ClientService.Save, "edit": with the name of the form or another one.
SaveClient(v, e, rename) ==
    /\ tx.pc = "begin" /\ Stored(row[form.of])
    /\ Written([form.r EXCEPT !.volume = v, !.enable = e,
                              !.name = IF rename THEN "changed" ELSE row[form.of].name],
               findInboundsChanges(form.of, e, rename))

\* "del" restarts the inbounds of the client.
DeleteClient ==
    /\ tx.pc = "begin" /\ Stored(row[form.of])
    /\ Written(NoRow, TRUE)

\* A failure rolls back and restarts a core that was running before.
RollBack ==
    /\ tx' = NoTx
    /\ \/ /\ tx.was                           \* restartCoreWithRaw
          /\ running' \in IF Faults THEN BOOLEAN ELSE {TRUE}
          /\ lost' = [c \in Clients |-> lost[c] + live[c]]
          /\ live' = Zero
          /\ served' = IF running' THEN tx.users ELSE {}
          /\ conn' = NoConn
       \/ ~tx.was /\ UNCHANGED <<running, live, served, conn, lost>>

\* Either finds no row to the id when the client was deleted in the meantime.
RecordNotFound ==
    /\ tx.pc = "begin" /\ ~Stored(row[form.of])
    /\ RollBack
    /\ form' = NoForm
    /\ UNCHANGED <<now, row, batch, dep, sent, erased>>

\* RestartInbounds reads the users inside the transaction.
SaveRestart ==
    /\ tx.pc = "restart"
    /\ \/ /\ running
          /\ served' = Enabled(tx.rows) /\ conn' = CloseConnByInbound
          /\ tx' = [tx EXCEPT !.pc = "commit"]
          /\ UNCHANGED <<running, live, lost>>
       \/ (~running \/ Faults) /\ RollBack
    /\ UNCHANGED <<now, row, batch, dep, form, sent, erased>>

\* The save ends with a StartCore, which may refuse, when no core runs.
SaveCommit ==
    /\ tx.pc = "commit"
    /\ \/ /\ row' = tx.rows
          /\ dep' = Unsnap
          /\ tx' = NoTx
          /\ \/ ~running /\ running' = TRUE /\ served' = Enabled(tx.rows)
             \/ UNCHANGED <<running, served>>
          /\ UNCHANGED conn
          /\ erased' = [c \in Clients |-> erased[c] + Charged(row[c]) - Charged(tx.rows[c])]
          /\ UNCHANGED <<live, lost>>
       \/ Faults /\ RollBack /\ UNCHANGED <<row, dep, erased>>
    /\ UNCHANGED <<now, batch, form, sent>>

-----------------------------------------------------------------------------
\* The process is killed, or a panic of a job ends it: what is only in memory
\* is gone and an open transaction is rolled back.
Kill ==
    /\ Faults
    /\ lost' = [c \in Clients |-> lost[c] + live[c] + Held(c)]
    /\ live' = Zero /\ served' = {} /\ conn' = NoConn /\ running' = FALSE
    /\ batch' = [j \in StatsJobs |-> NoBatch]
    /\ dep' = [j \in DepleteJobs |-> NoDep]
    /\ tx' = NoTx
    /\ UNCHANGED <<now, row, form, sent, erased>>

Tick ==
    /\ now < MaxTime
    /\ now' = now + 1
    /\ UNCHANGED <<row, running, live, served, conn, batch, dep, form, tx, sent, lost, erased>>

Init ==
    /\ now = 1
    /\ row \in [Clients -> InitRows]
    /\ running = FALSE
    /\ live = Zero /\ served = {} /\ conn = NoConn
    /\ batch = [j \in StatsJobs |-> NoBatch]
    /\ dep = [j \in DepleteJobs |-> NoDep]
    /\ form = NoForm /\ tx = NoTx
    /\ sent = [c \in Clients |-> Charged(row[c])]
    /\ lost = Zero /\ erased = Zero

StatsStep(j) == GetStats(j) \/ SaveStats(j) \/ SaveStatsFails(j)

DepleteStep(j) ==
    \/ DepleteCommit(j) \/ DepleteFails(j) \/ RestartRemove(j) \/ RestartAdd(j)

SaveStep ==
    \/ \E v \in Volumes, e, rename \in BOOLEAN : SaveClient(v, e, rename)
    \/ DeleteClient \/ RecordNotFound \/ SaveRestart \/ SaveCommit

Next ==
    \/ \E c \in Clients :
          Connect(c) \/ Route(c) \/ Hangup(c) \/ Send(c) \/ OpenForm(c)
    \/ StopBox \/ StartBox
    \/ \E j \in StatsJobs : StatsStep(j)
    \/ \E j \in DepleteJobs : DepleteRead(j) \/ DepleteStep(j)
    \/ BeginSave \/ SaveStep
    \/ Kill
    \/ Tick

Spec == Init /\ [][Next]_vars

\* The cron starts its jobs again and again, also between the requests, and a
\* goroutine that is in the middle of a function goes on.
FairSpec ==
    /\ Spec
    /\ \A j \in DepleteJobs : SF_vars(DepleteRead(j)) /\ WF_vars(DepleteStep(j))
    /\ \A j \in StatsJobs : SF_vars(GetStats(j)) /\ WF_vars(StatsStep(j))
    /\ WF_vars(SaveStep)

-----------------------------------------------------------------------------
(* Properties *)

\* Every variable has its type, and a box that is closed serves and counts
\* nobody (Core.AddInbound of src/core/endpoint.go, Box.Close).
TypeOK ==
    /\ now \in 1..MaxTime
    /\ row \in [Clients -> Row]
    /\ running \in BOOLEAN
    /\ live \in [Clients -> Nat] /\ sent \in [Clients -> Nat]
    /\ lost \in [Clients -> Nat] /\ erased \in [Clients -> Int]
    /\ served \subseteq Clients
    /\ \A j \in StatsJobs : batch[j].on \in BOOLEAN /\ batch[j].n \in [Clients -> Nat]
    /\ \A j \in DepleteJobs : /\ dep[j].pc \in {"idle", "read", "restart", "add"}
                              /\ dep[j].rows \in [Clients -> Row]
                              /\ dep[j].users \subseteq Clients
    /\ form.of \in Clients /\ form.r \in Row
    /\ tx.pc \in {"idle", "begin", "restart", "commit"} /\ tx.rows \in [Clients -> Row]
    /\ conn \in [Clients -> {"none", "accepted", "tracked", "late"}]
    /\ ~running => served = {} /\ live = Zero /\ conn = NoConn

\* No unit of traffic is forgotten or counted twice between the counters of
\* the tracker, the batches of the stats jobs and the rows, although the
\* deplete job reads whole rows and writes them back while stats jobs add to
\* them; what is missing was lost by a closed box, by a failed SaveStats or by
\* one that found no row of that name, or erased by the save of an old form or
\* with the row.
Conserved ==
    \A c \in Clients :
        Charged(row[c]) + live[c] + Held(c) + lost[c] + erased[c] = sent[c]

\* Whatever the order of stats jobs, resets, restarts and saves of old forms:
\* no client is charged for more than it sent.
NeverOvercharged == \A c \in Clients : Charged(row[c]) <= sent[c]

\* Between operations that do not overlap the inbound serves exactly the
\* clients whose committed row is enabled, also after the save of a form that
\* the deplete job made out of date.
EnabledIsServed == AllIdle /\ running => served = Enabled(row)

\* A disabled client keeps no connection that was routed while it was served:
\* whoever takes it off the inbound closes them (CloseConnByInbound).  One that
\* was routed later escapes, until the inbound is closed again.
NoLeftConnections ==
    AllIdle => \A c \in Clients : conn[c] = "tracked" => row[c].enable

\* What an enabled client may not be for long: past its quota or its expiry.
Beyond(r, t) ==
    /\ r.enable
    /\ (r.volume # 0 /\ r.used > r.volume) \/ (r.expiry # 0 /\ r.expiry < t)

\* A client beyond its quota or its expiry, also one that began with its first
\* use, does not stay served: a deplete job disables it and takes it off the
\* inbound.
QuotaEnforced ==
    \A c \in Clients :
        Beyond(row[c], now) ~> ~Beyond(row[c], now) /\ (c \in served => row[c].enable)

=============================================================================
