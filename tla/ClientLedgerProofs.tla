-------------------------- MODULE ClientLedgerProofs --------------------------
(***************************************************************************)
(* Proofs about ClientLedger: what a client is charged, whatever jobs,     *)
(* requests and crashes interleave, and who is served when operations do   *)
(* not overlap.                                                            *)
(***************************************************************************)
EXTENDS ClientLedger, FiniteSetTheorems, TLAPS

-----------------------------------------------------------------------------
(* Counting what the stats jobs hold *)

\* The units of the jobs of T, m[k] being what job k holds of a client.
Pile(T, m) == UNION {{k} \X (1..m[k]) : k \in T}

\* Finitely many jobs hold finitely many units.
LEMMA PileFinite ==
    ASSUME NEW T, IsFiniteSet(T), NEW m, \A k \in T : m[k] \in Nat
    PROVE  IsFiniteSet(Pile(T, m))
<1> DEFINE f == [k \in T |-> {k} \X (1..m[k])]
           R == {{k} \X (1..m[k]) : k \in T}
<1>1. f \in Surjection(T, R)
  BY DEF Surjection
<1>2. IsFiniteSet(R)
  BY <1>1, FS_Surjection
<1>3. ASSUME NEW s \in R PROVE IsFiniteSet(s)
  <2>1. PICK k \in T : s = {k} \X (1..m[k])
    OBVIOUS
  <2>2. IsFiniteSet(1..m[k])
    BY FS_Interval
  <2>3. IsFiniteSet({k})
    BY FS_Singleton
  <2> QED
    BY <2>1, <2>2, <2>3, FS_Product
<1> QED
  <2> HIDE DEF R
  <2>1. IsFiniteSet(UNION R)
    BY <1>2, <1>3, FS_UNION
  <2> QED
    BY <2>1 DEF R, Pile

\* What the jobs hold together is what one of them holds and the rest.
LEMMA PileSplit ==
    ASSUME NEW S, IsFiniteSet(S), NEW m, \A k \in S : m[k] \in Nat, NEW j \in S
    PROVE  /\ Cardinality(Pile(S \ {j}, m)) \in Nat
           /\ Cardinality(Pile(S, m)) = Cardinality(Pile(S \ {j}, m)) + m[j]
<1> DEFINE A == Pile(S \ {j}, m)
           B == {j} \X (1..m[j])
<1>1. IsFiniteSet(A)
  <2>1. IsFiniteSet(S \ {j})
    BY FS_RemoveElement
  <2> QED
    BY <2>1, PileFinite
<1>2. IsFiniteSet(B) /\ Cardinality(B) = m[j]
  <2>1. IsFiniteSet({j}) /\ Cardinality({j}) = 1
    BY FS_Singleton
  <2>2. IsFiniteSet(1..m[j]) /\ Cardinality(1..m[j]) = m[j]
    BY FS_Interval
  <2>3. IsFiniteSet(B) /\ Cardinality(B) = 1 * m[j]
    <3> DEFINE D == 1..m[j]
    <3>1. IsFiniteSet(D) /\ Cardinality(D) = m[j]
      BY <2>2
    <3> HIDE DEF D
    <3> SUFFICES IsFiniteSet({j} \X D) /\ Cardinality({j} \X D) = 1 * m[j]
      BY DEF D
    <3> QED
      BY <2>1, <3>1, FS_Product, SMTT(30)
  <2> QED
    BY <2>3
<1>3. Pile(S, m) = A \cup B
  BY DEF Pile
<1>4. A \cap B = {}
  BY DEF Pile
<1>5. Cardinality({}) = 0
  BY FS_EmptySet
<1>6. Cardinality(A) \in Nat
  BY <1>1, FS_CardinalityType
<1> HIDE DEF A, B
<1>7. Cardinality(A \cup B) = Cardinality(A) + Cardinality(B) - Cardinality(A \cap B)
  BY <1>1, <1>2, FS_Union
<1>8. Cardinality(A \cup B) = Cardinality(A) + m[j]
  <2>1. m[j] \in Nat
    OBVIOUS
  <2>2. Cardinality(A \cap B) = 0
    BY <1>4, <1>5, Zenon
  <2>3. Cardinality(B) = m[j]
    BY <1>2
  <2> DEFINE a == Cardinality(A)
             n == m[j]
  <2>4. Cardinality(A \cup B) = a + n - 0 /\ a \in Nat /\ n \in Nat
    BY <1>6, <1>7, <2>1, <2>2, <2>3, Zenon
  <2> HIDE DEF a, n
  <2>5. Cardinality(A \cup B) = a + n
    BY <2>4
  <2> QED
    BY <2>5 DEF a, n
<1>9. A = Pile(S \ {j}, m)
  BY DEF A
<1> QED
  BY <1>3, <1>6, <1>8, <1>9

-----------------------------------------------------------------------------
(* Types *)

Batch == [on : BOOLEAN, n : [Clients -> Nat]]
Dep == [pc : {"idle", "read", "restart", "add"}, dt : Nat, rows : [Clients -> Row],
        stale : BOOLEAN, users : SUBSET Clients]
Form == [on : BOOLEAN, of : Clients, r : Row]
Tx == [pc : {"idle", "begin", "restart", "commit"}, rows : [Clients -> Row],
       was : BOOLEAN, users : SUBSET Clients]

\* The types of the locals, and a box that is closed serves and counts nobody.
Types ==
    /\ now \in 1..MaxTime
    /\ row \in [Clients -> Row]
    /\ running \in BOOLEAN
    /\ live \in [Clients -> Nat] /\ sent \in [Clients -> Nat]
    /\ lost \in [Clients -> Nat] /\ erased \in [Clients -> Int]
    /\ served \subseteq Clients
    /\ batch \in [StatsJobs -> Batch]
    /\ dep \in [DepleteJobs -> Dep]
    /\ form \in Form
    /\ tx \in Tx
    /\ conn \in [Clients -> {"none", "accepted", "tracked", "late"}]
    /\ \A j \in StatsJobs : ~batch[j].on => batch[j].n = Zero
    /\ ~running => served = {} /\ live = Zero /\ conn = NoConn

\* What the stats jobs hold of a client is a number.
LEMMA HeldNat ==
    ASSUME batch \in [StatsJobs -> Batch], NEW c \in Clients
    PROVE  Held(c) \in Nat
<1> DEFINE m == [k \in StatsJobs |-> batch[k].n[c]]
<1>1. \A k \in StatsJobs : m[k] \in Nat
  BY DEF Batch
<1>2. Units(c) = Pile(StatsJobs, m)
  BY DEF Units, Pile
<1> HIDE DEF m
<1> QED
  BY <1>1, <1>2, PileFinite, FS_CardinalityType, LedgerAssumption DEF Held

\* When the batch of one job changes, what is held changes by as much.
LEMMA HeldMoves ==
    ASSUME batch \in [StatsJobs -> Batch], batch' \in [StatsJobs -> Batch],
           NEW c \in Clients, NEW j \in StatsJobs,
           \A k \in StatsJobs \ {j} : batch'[k] = batch[k]
    PROVE  /\ Held(c) \in Nat /\ Held(c)' \in Nat
           /\ Held(c)' + batch[j].n[c] = Held(c) + batch'[j].n[c]
<1> DEFINE m == [k \in StatsJobs |-> batch[k].n[c]]
           w == [k \in StatsJobs |-> batch'[k].n[c]]
<1>1. \A k \in StatsJobs : m[k] \in Nat /\ w[k] \in Nat
  BY DEF Batch
<1>2. Units(c) = Pile(StatsJobs, m) /\ Units(c)' = Pile(StatsJobs, w)
  BY DEF Units, Pile
<1>3. Pile(StatsJobs \ {j}, m) = Pile(StatsJobs \ {j}, w)
  BY DEF Pile
<1>4. m[j] = batch[j].n[c] /\ w[j] = batch'[j].n[c]
  OBVIOUS
<1> HIDE DEF m, w
<1>5. /\ Cardinality(Pile(StatsJobs \ {j}, m)) \in Nat
      /\ Cardinality(Pile(StatsJobs, m)) = Cardinality(Pile(StatsJobs \ {j}, m)) + m[j]
  BY <1>1, PileSplit, LedgerAssumption
<1>6. Cardinality(Pile(StatsJobs, w)) = Cardinality(Pile(StatsJobs \ {j}, w)) + w[j]
  BY <1>1, PileSplit, LedgerAssumption
<1> QED
  BY <1>1, <1>2, <1>3, <1>4, <1>5, <1>6 DEF Held

\* Jobs without a batch hold nothing.
LEMMA NothingHeld ==
    ASSUME NEW c \in Clients, \A j \in StatsJobs : batch[j].n[c] = 0
    PROVE  Held(c) = 0
<1>1. Units(c) = {}
  BY DEF Units
<1> QED
  BY <1>1, FS_EmptySet DEF Held

\* The reset and the disabling of a row leave a row that is charged as much.
LEMMA SettledRow ==
    ASSUME NEW r \in Row, NEW dt \in Nat
    PROVE  /\ Settled(r, dt) \in Row
           /\ Charged(Settled(r, dt)) = Charged(r)
<1> DEFINE s == ResetClients(r, dt)
<1>1. s \in Row /\ Charged(s) = Charged(r)
  <2>0. dt + Period \in Nat
    BY LedgerAssumption
  <2>1. CASE DelayOver(r)
    <3>1. s = IF r.auto THEN [r EXCEPT !.next = dt + Period, !.delay = FALSE]
              ELSE [r EXCEPT !.expiry = dt + Period, !.delay = FALSE]
      BY <2>1 DEF ResetClients, ResetDue, DelayOver, Row
    <3> HIDE DEF s
    <3>2. s \in Row /\ s.used = r.used /\ s.total = r.total
      BY <2>0, <3>1 DEF Row
    <3> QED
      BY <3>2 DEF Charged
  <2>2. CASE ~DelayOver(r) /\ ResetDue(r, dt)
    <3> DEFINE t == r.total + r.used
    <3>3. r.used \in Nat /\ r.total \in Nat /\ t \in Nat
      BY DEF Row
    <3>1. s = [r EXCEPT !.next = dt + Period, !.enable = TRUE, !.total = t, !.used = 0]
      BY <2>2 DEF ResetClients
    <3> HIDE DEF s
    <3>2. s \in Row /\ s.used = 0 /\ s.total = t
      <4> HIDE DEF t
      <4> QED
        BY <2>0, <3>1, <3>3 DEF Row
    <3> QED
      BY <3>2, <3>3 DEF Charged
  <2>3. CASE ~DelayOver(r) /\ ~ResetDue(r, dt)
    BY <2>3 DEF ResetClients
  <2> QED
    BY <2>1, <2>2, <2>3
<1>2. Settled(r, dt) = IF Depleted(s, dt) THEN [s EXCEPT !.enable = FALSE] ELSE s
  BY DEF Settled
<1> HIDE DEF s
<1>3. [s EXCEPT !.enable = FALSE] \in Row
      /\ Charged([s EXCEPT !.enable = FALSE]) = Charged(s)
  BY <1>1 DEF Row, Charged
<1> QED
  BY <1>1, <1>2, <1>3

\* The empty values have their types.
LEMMA Empties ==
    /\ Zero \in [Clients -> Nat] /\ \A c \in Clients : Zero[c] = 0
    /\ NoBatch \in Batch /\ NoBatch.n = Zero /\ ~NoBatch.on
    /\ NoRow \in Row /\ Charged(NoRow) = 0 /\ NoRows \in [Clients -> Row]
    /\ NoDep \in Dep /\ NoDep.pc = "idle"
    /\ NoForm \in Form /\ NoForm.r = NoRow /\ ~NoForm.on
    /\ NoTx \in Tx /\ NoTx.pc = "idle"
    /\ NoConn \in [Clients -> {"none", "accepted", "tracked", "late"}]
<1>1. NoRow \in Row /\ Charged(NoRow) = 0
  BY DEF NoRow, Row, Charged
<1>2. NoForm \in Form /\ NoForm.r = NoRow /\ ~NoForm.on
  BY <1>1, LedgerAssumption DEF NoForm, Form
<1> QED
  BY <1>1, <1>2 DEF Zero, NoBatch, Batch, NoRows, NoDep, Dep, NoTx, Tx, NoConn

\* The types of the locals imply the types the runs check.
LEMMA TypesTypeOK == Types => TypeOK
  BY DEF Types, TypeOK, Batch, Dep, Form, Tx

\* Marking snapshots as stale keeps the types and the control points.
LEMMA UnsnapTypes ==
    ASSUME dep \in [DepleteJobs -> Dep]
    PROVE  /\ Unsnap \in [DepleteJobs -> Dep]
           /\ \A j \in DepleteJobs :
                 /\ Unsnap[j].pc = dep[j].pc /\ Unsnap[j].rows = dep[j].rows
                 /\ Unsnap[j].dt = dep[j].dt /\ Unsnap[j].users = dep[j].users
                 /\ Unsnap[j].pc = "read" => Unsnap[j].stale
                 /\ dep[j].pc # "read" => Unsnap[j] = dep[j]
  BY ZenonT(60) DEF Unsnap, Dep

\* At the start every variable has its type.
LEMMA InitTypes == Init => Types
<1> SUFFICES ASSUME Init PROVE Types
  OBVIOUS
<1>1. row \in [Clients -> Row]
  BY LedgerAssumption DEF Init
<1>2. \A c \in Clients : Charged(row[c]) \in Nat
  BY <1>1 DEF Row, Charged
<1>3. sent \in [Clients -> Nat]
  BY <1>2 DEF Init
<1>4. lost \in [Clients -> Nat] /\ erased \in [Clients -> Int]
  BY DEF Init, Zero
<1>5. now \in 1..MaxTime
  BY LedgerAssumption DEF Init
<1>6. batch \in [StatsJobs -> Batch] /\ \A j \in StatsJobs : batch[j].n = Zero
  BY Empties DEF Init
<1> QED
  BY <1>1, <1>3, <1>4, <1>5, <1>6, Empties DEF Init, Types

\* RemoveInbound moves the depletion on to AddInbound, or ends it.
LEMMA RemoveFrame ==
    ASSUME NEW j \in DepleteJobs, RestartRemove(j)
    PROVE  \/ dep' = [dep EXCEPT ![j] = [dep[j] EXCEPT !.pc = "add", !.users = Enabled(row)]]
           \/ dep' = [dep EXCEPT ![j] = NoDep]
<1> DEFINE moved == [dep EXCEPT ![j].pc = "add", ![j].users = Enabled(row)]
<1>1. dep' = moved \/ dep' = [dep EXCEPT ![j] = NoDep]
  BY DEF RestartRemove
<1>2. moved = [dep EXCEPT ![j] = [dep[j] EXCEPT !.pc = "add", !.users = Enabled(row)]]
  OBVIOUS
<1> QED
  BY <1>1, <1>2

\* What SaveStats adds to a row is part of the batch; the rest is lost.
LEMMA SavedRow ==
    ASSUME Types, NEW j \in StatsJobs, SaveStats(j), NEW c \in Clients
    PROVE  \E k \in 0..batch[j].n[c] :
              /\ row'[c] = [row[c] EXCEPT !.used = row[c].used + k]
              /\ lost'[c] = lost[c] + batch[j].n[c] - k
<1>1. PICK found : /\ \A e \in Clients : found[e] \in Found(row[e], batch[j].n[e])
                   /\ row' = [e \in Clients |-> [row[e] EXCEPT !.used = row[e].used + found[e]]]
                   /\ lost' = [e \in Clients |-> lost[e] + batch[j].n[e] - found[e]]
  BY DEF SaveStats
<1>2. batch[j].n[c] \in Nat
  BY DEF Types, Batch
<1>3. found[c] \in Found(row[c], batch[j].n[c])
  BY <1>1
<1>4. found[c] \in 0..batch[j].n[c]
  BY <1>2, <1>3 DEF Found
<1> QED
  BY <1>1, <1>4

\* What the transaction of a save has written.
LEMMA WrittenRows ==
    ASSUME Types, NEW r \in Row, NEW restart, Written(r, restart)
    PROVE  /\ tx' \in Tx /\ tx'.rows = [row EXCEPT ![form.of] = r]
           /\ tx'.pc = IF restart /\ running THEN "restart" ELSE "commit"
           /\ UNCHANGED <<now, row, running, live, served, conn, batch, dep, sent, lost, erased>>
           /\ form' = NoForm
<1>1. [row EXCEPT ![form.of] = r] \in [Clients -> Row] /\ tx \in Tx
  BY DEF Types, Form
<1> DEFINE rows == [row EXCEPT ![form.of] = r]
           pc == IF restart /\ running THEN "restart" ELSE "commit"
<1>2. tx' = [tx EXCEPT !.pc = pc, !.rows = rows]
  BY DEF Written
<1>3. pc \in {"restart", "commit"}
  OBVIOUS
<1> HIDE DEF rows, pc
<1>4. tx' \in Tx /\ tx'.rows = rows /\ tx'.pc = pc
  BY <1>1, <1>2, <1>3 DEF Tx, rows
<1> QED
  BY <1>4 DEF Written, rows, pc

\* An edit saves the form with what it changes, which is a row.
LEMMA EditedRow ==
    ASSUME Types, NEW v \in Volumes, NEW e \in BOOLEAN, NEW rename \in BOOLEAN,
           SaveClient(v, e, rename)
    PROVE  \E r \in Row : /\ Written(r, findInboundsChanges(form.of, e, rename))
                          /\ Charged(r) = Charged(form.r) /\ r.enable = e
<1> DEFINE name == IF rename THEN "changed" ELSE row[form.of].name
           r == [form.r EXCEPT !.volume = v, !.enable = e, !.name = name]
<1>1. form.r \in Row /\ form.of \in Clients /\ v \in Nat
  BY LedgerAssumption DEF Types, Form
<1>2. name \in {"none", "own", "changed"}
  BY <1>1 DEF Types, Row
<1>3. Written(r, findInboundsChanges(form.of, e, rename))
  BY DEF SaveClient
<1> HIDE DEF name
<1>4. r \in Row /\ Charged(r) = Charged(form.r) /\ r.enable = e
  BY <1>1, <1>2 DEF Row, Charged
<1> QED
  BY <1>3, <1>4

\* Every step keeps the types.
LEMMA NextTypes == Types /\ [Next]_vars => Types'
<1> SUFFICES ASSUME Types, [Next]_vars PROVE Types'
  OBVIOUS
<1> USE DEF Types
<1>1. ASSUME NEW c \in Clients, Connect(c) PROVE Types'
  BY <1>1 DEF Connect
<1>2. ASSUME NEW c \in Clients, Route(c) PROVE Types'
  <2>1. running
    BY <1>2 DEF Route, NoConn
  <2> QED
    BY <1>2, <2>1 DEF Route
<1>3. ASSUME NEW c \in Clients, Hangup(c) PROVE Types'
  <2>1. running
    BY <1>3 DEF Hangup, NoConn
  <2> QED
    BY <1>3, <2>1 DEF Hangup
<1>4. ASSUME NEW c \in Clients, Send(c) PROVE Types'
  BY <1>4 DEF Send
<1>5. ASSUME NEW c \in Clients, OpenForm(c) PROVE Types'
  <2>1. form' \in Form
    BY <1>5 DEF OpenForm, Form
  <2> QED
    BY <1>5, <2>1 DEF OpenForm
<1>6. CASE StopBox
  <2>1. lost' \in [Clients -> Nat]
    BY <1>6 DEF StopBox
  <2> QED
    BY <1>6, <2>1, Empties DEF StopBox
<1>7. CASE StartBox
  BY <1>7 DEF StartBox, Enabled
<1>8. ASSUME NEW j \in StatsJobs, GetStats(j) PROVE Types'
  <2>1. [on |-> TRUE, n |-> live] \in Batch
    BY DEF Batch
  <2>2. batch' \in [StatsJobs -> Batch]
    BY <1>8, <2>1 DEF GetStats
  <2>3. \A k \in StatsJobs : ~batch'[k].on => batch'[k].n = Zero
    BY <1>8 DEF GetStats
  <2> QED
    BY <1>8, <2>2, <2>3, Empties DEF GetStats
<1>9. ASSUME NEW j \in StatsJobs, SaveStats(j) PROVE Types'
  <2>1. row' \in [Clients -> Row] /\ lost' \in [Clients -> Nat]
    <3>1. ASSUME NEW c \in Clients PROVE row'[c] \in Row /\ lost'[c] \in Nat
      <4>1. PICK k \in 0..batch[j].n[c] :
                /\ row'[c] = [row[c] EXCEPT !.used = row[c].used + k]
                /\ lost'[c] = lost[c] + batch[j].n[c] - k
        BY <1>9, SavedRow
      <4>2. batch[j].n[c] \in Nat /\ lost[c] \in Nat /\ row[c] \in Row
        BY DEF Batch
      <4>3. lost'[c] \in Nat
        BY <4>1, <4>2
      <4> DEFINE u == row[c].used + k
      <4>4. u \in Nat
        BY <4>2 DEF Row
      <4> HIDE DEF u, Types
      <4>5. [row[c] EXCEPT !.used = u] \in Row
        BY <4>2, <4>4 DEF Row
      <4> QED
        BY <4>1, <4>3, <4>5 DEF u
    <3>2. \E found : /\ row' = [c \in Clients |-> [row[c] EXCEPT !.used = row[c].used + found[c]]]
                     /\ lost' = [c \in Clients |-> lost[c] + batch[j].n[c] - found[c]]
      BY <1>9 DEF SaveStats
    <3> QED
      BY <3>1, <3>2
  <2>2. batch' \in [StatsJobs -> Batch]
        /\ \A k \in StatsJobs : ~batch'[k].on => batch'[k].n = Zero
    BY <1>9, Empties DEF SaveStats
  <2> QED
    BY <1>9, <2>1, <2>2, UnsnapTypes DEF SaveStats
<1>10. ASSUME NEW j \in StatsJobs, SaveStatsFails(j) PROVE Types'
  <2>1. lost' \in [Clients -> Nat]
    BY <1>10 DEF SaveStatsFails, Batch
  <2>2. batch' \in [StatsJobs -> Batch]
        /\ \A k \in StatsJobs : ~batch'[k].on => batch'[k].n = Zero
    BY <1>10, Empties DEF SaveStatsFails
  <2> QED
    BY <1>10, <2>1, <2>2 DEF SaveStatsFails
<1>11. ASSUME NEW j \in DepleteJobs, DepleteRead(j) PROVE Types'
  <2>0. now \in Nat
    BY LedgerAssumption
  <2>1. [NoDep EXCEPT !.pc = "read", !.dt = now, !.rows = row] \in Dep
    BY <2>0, Empties DEF Dep
  <2>2. dep' \in [DepleteJobs -> Dep]
    BY <1>11, <2>1 DEF DepleteRead
  <2> QED
    BY <1>11, <2>2 DEF DepleteRead
<1>12. ASSUME NEW j \in DepleteJobs, DepleteCommit(j) PROVE Types'
  <2> DEFINE d == dep[j]
             new == [c \in Clients |-> Settled(d.rows[c], d.dt)]
             next == IF Touched(d.rows, d.dt) = {} THEN NoDep
                     ELSE [NoDep EXCEPT !.pc = "restart"]
  <2>1. next \in Dep
    BY Empties DEF Dep
  <2>2. new \in [Clients -> Row]
    BY SettledRow DEF Dep
  <2>3. Others(j, next) \in [DepleteJobs -> Dep]
    BY <2>1, UnsnapTypes DEF Others
  <2>4. [dep EXCEPT ![j] = next] \in [DepleteJobs -> Dep]
    BY <2>1
  <2> HIDE DEF d, new, next
  <2>5. /\ \/ row' = new /\ dep' = Others(j, next)
           \/ dep' = [dep EXCEPT ![j] = next] /\ UNCHANGED row
        /\ UNCHANGED <<now, running, live, served, conn, batch, form, tx, sent, lost, erased>>
    BY <1>12 DEF DepleteCommit, d, new, next
  <2>6. dep' \in [DepleteJobs -> Dep] /\ row' \in [Clients -> Row]
    BY <2>2, <2>3, <2>4, <2>5
  <2> QED
    BY <2>5, <2>6
<1>13. ASSUME NEW j \in DepleteJobs, DepleteFails(j) PROVE Types'
  BY <1>13, Empties DEF DepleteFails
<1>14. ASSUME NEW j \in DepleteJobs, RestartRemove(j) PROVE Types'
  <2> DEFINE next == [dep[j] EXCEPT !.pc = "add", !.users = Enabled(row)]
  <2>0. dep[j] \in Dep /\ Enabled(row) \in SUBSET Clients
    BY DEF Enabled
  <2>1. next \in Dep
    <3> HIDE DEF Types, Enabled
    <3> QED
      BY <2>0 DEF Dep
  <2> HIDE DEF next
  <2>4. dep \in [DepleteJobs -> Dep]
    OBVIOUS
  <2>2. dep' \in [DepleteJobs -> Dep]
    <3> HIDE DEF Types
    <3>1. CASE dep' = [dep EXCEPT ![j] = next]
      BY <2>1, <2>4, <3>1
    <3>2. CASE dep' = [dep EXCEPT ![j] = NoDep]
      BY <2>4, <3>2, Empties
    <3> QED
      BY <1>14, <3>1, <3>2, RemoveFrame DEF next
  <2>3. conn' \in [Clients -> {"none", "accepted", "tracked", "late"}]
    BY <1>14 DEF RestartRemove, CloseConnByInbound
  <2> QED
    BY <1>14, <2>2, <2>3 DEF RestartRemove
<1>15. ASSUME NEW j \in DepleteJobs, RestartAdd(j) PROVE Types'
  <2>1. dep[j].users \subseteq Clients
    BY DEF Dep
  <2> QED
    BY <1>15, <2>1, Empties DEF RestartAdd
<1>16. CASE BeginSave
  <2>1. tx' \in Tx
    BY <1>16, Empties DEF BeginSave, Tx, Enabled
  <2> QED
    BY <1>16, <2>1 DEF BeginSave
<1>17. ASSUME NEW r \in Row, NEW restart, Written(r, restart) PROVE Types'
  <2> HIDE DEF Types
  <2>1. /\ tx' \in Tx /\ form' = NoForm
        /\ UNCHANGED <<now, row, running, live, served, conn, batch, dep, sent, lost, erased>>
    BY <1>17, WrittenRows
  <2> QED
    BY <2>1, Empties DEF Types
<1>24. ASSUME NEW v \in Volumes, NEW e \in BOOLEAN, NEW rename \in BOOLEAN,
              SaveClient(v, e, rename)
       PROVE  Types'
  <2> HIDE DEF Types
  <2> QED
    BY <1>17, <1>24, EditedRow
<1>25. CASE DeleteClient
  BY <1>17, <1>25, Empties DEF DeleteClient
<1>18. ASSUME RollBack, form' \in Form, UNCHANGED <<now, row, batch, dep, sent, erased>>
       PROVE  Types'
  <2>1. tx.users \subseteq Clients
    BY DEF Tx
  <2>2. CASE ~tx.was /\ UNCHANGED <<running, live, served, conn, lost>>
    BY <1>18, <2>2, Empties DEF RollBack
  <2>3. CASE /\ running' \in BOOLEAN
             /\ lost' = [c \in Clients |-> lost[c] + live[c]]
             /\ live' = Zero
             /\ served' = IF running' THEN tx.users ELSE {}
             /\ conn' = NoConn
    <3>1. lost' \in [Clients -> Nat]
      BY <2>3
    <3> QED
      BY <1>18, <2>1, <2>3, <3>1, Empties DEF RollBack
  <2> QED
    BY <1>18, <2>2, <2>3, LedgerAssumption DEF RollBack
<1>26. CASE RecordNotFound
  BY <1>18, <1>26, Empties DEF RecordNotFound
<1>19. CASE SaveRestart
  <2>1. CASE /\ running
             /\ served' = Enabled(tx.rows) /\ conn' = CloseConnByInbound
             /\ tx' = [tx EXCEPT !.pc = "commit"]
             /\ UNCHANGED <<running, live, lost>>
    <3>1. tx' \in Tx
      BY <2>1 DEF Tx
    <3>2. conn' \in [Clients -> {"none", "accepted", "tracked", "late"}]
      BY <2>1 DEF CloseConnByInbound
    <3> QED
      BY <1>19, <2>1, <3>1, <3>2 DEF SaveRestart, Enabled
  <2> QED
    BY <1>18, <1>19, <2>1 DEF SaveRestart
<1>20. CASE SaveCommit
  <2>1. CASE /\ row' = tx.rows
             /\ dep' = Unsnap
             /\ tx' = NoTx
             /\ \/ ~running /\ running' = TRUE /\ served' = Enabled(tx.rows)
                \/ UNCHANGED <<running, served>>
             /\ UNCHANGED conn
             /\ erased' = [c \in Clients |-> erased[c] + Charged(row[c]) - Charged(tx.rows[c])]
             /\ UNCHANGED <<live, lost>>
    <3>1. tx.rows \in [Clients -> Row]
      BY DEF Tx
    <3>2. \A c \in Clients : Charged(row[c]) \in Nat /\ Charged(tx.rows[c]) \in Nat
      BY <3>1 DEF Charged, Row
    <3>3. erased' \in [Clients -> Int]
      BY <2>1, <3>2
    <3>4. dep' \in [DepleteJobs -> Dep]
      BY <2>1, UnsnapTypes
    <3>5. served' \subseteq Clients /\ running' \in BOOLEAN
          /\ (~running' => served' = {} /\ live = Zero /\ conn = NoConn)
      BY <2>1 DEF Enabled
    <3>6. UNCHANGED <<now, batch, form, sent>>
      BY <1>20 DEF SaveCommit
    <3> QED
      BY <2>1, <3>1, <3>3, <3>4, <3>5, <3>6, Empties
  <2>2. CASE RollBack /\ UNCHANGED <<row, dep, erased>>
    BY <1>18, <1>20, <2>2 DEF SaveCommit
  <2> QED
    BY <1>20, <2>1, <2>2 DEF SaveCommit
<1>21. CASE Kill
  <2>1. lost' \in [Clients -> Nat]
    BY <1>21, HeldNat DEF Kill
  <2> QED
    BY <1>21, <2>1, Empties DEF Kill
<1>22. CASE Tick
  BY <1>22, LedgerAssumption DEF Tick
<1>23. CASE UNCHANGED vars
  BY <1>23 DEF vars
<1> QED
  <2> HIDE DEF Types
  <2> QED
    BY <1>1, <1>2, <1>3, <1>4, <1>5, <1>6, <1>7, <1>8, <1>9, <1>10, <1>11, <1>12, <1>13,
       <1>14, <1>15, <1>16, <1>24, <1>25, <1>26, <1>19, <1>20, <1>21, <1>22, <1>23
    DEF Next, StatsStep, DepleteStep, SaveStep

\* Every variable keeps its type and a closed box serves and counts nobody,
\* whatever jobs, requests and crashes interleave (Core.AddInbound, Box.Close).
THEOREM LedgerTypes == Spec => []TypeOK
<1>1. Init => Types
  BY InitTypes
<1>2. Types /\ [Next]_vars => Types'
  BY NextTypes
<1>3. Types => TypeOK
  BY TypesTypeOK
<1> QED
  BY <1>1, <1>2, <1>3, PTL DEF Spec

-----------------------------------------------------------------------------
(* The ledger *)

\* A deplete job that has read, and whose snapshot nobody overtook, holds the
\* committed rows: the transaction either sees them or does not write.
FreshReads ==
    \A j \in DepleteJobs : dep[j].pc = "read" /\ ~dep[j].stale => dep[j].rows = row

\* A commit makes every other snapshot stale and no step revives one.
LEMMA FreshReadsKept == Types /\ FreshReads /\ [Next]_vars => FreshReads'
<1> SUFFICES ASSUME Types, FreshReads, [Next]_vars PROVE FreshReads'
  OBVIOUS
<1>0. dep \in [DepleteJobs -> Dep]
  BY DEF Types
<1> USE DEF FreshReads
<1>1. ASSUME row' = row, dep' = dep PROVE FreshReads'
  BY <1>1
<1>2. ASSUME dep' = Unsnap PROVE FreshReads'
  BY <1>0, <1>2, UnsnapTypes
<1>3. ASSUME NEW j \in DepleteJobs, NEW next, next.pc # "read", dep' = Others(j, next)
      PROVE  FreshReads'
  BY <1>0, <1>3, UnsnapTypes DEF Others
<1>4. ASSUME NEW j \in DepleteJobs, NEW next, next.pc # "read",
             dep' = [dep EXCEPT ![j] = next], row' = row
      PROVE  FreshReads'
  BY <1>0, <1>4
<1>5. ASSUME NEW j \in StatsJobs, StatsStep(j) PROVE FreshReads'
  BY <1>1, <1>2, <1>5 DEF StatsStep, GetStats, SaveStats, SaveStatsFails
<1>6. ASSUME NEW j \in DepleteJobs, DepleteRead(j) PROVE FreshReads'
  <2>1. [NoDep EXCEPT !.pc = "read", !.dt = now, !.rows = row].rows = row
    BY DEF NoDep
  <2> QED
    BY <1>0, <1>6, <2>1 DEF DepleteRead
<1>7. ASSUME NEW j \in DepleteJobs, DepleteCommit(j) PROVE FreshReads'
  <2> DEFINE next == IF Touched(dep[j].rows, dep[j].dt) = {} THEN NoDep
                     ELSE [NoDep EXCEPT !.pc = "restart"]
  <2>1. next.pc # "read"
    BY DEF NoDep
  <2>2. dep' = Others(j, next) \/ (dep' = [dep EXCEPT ![j] = next] /\ row' = row)
    BY <1>7 DEF DepleteCommit
  <2> HIDE DEF next, FreshReads
  <2>3. CASE dep' = Others(j, next)
    BY <1>3, <2>1, <2>3
  <2>4. CASE dep' = [dep EXCEPT ![j] = next] /\ row' = row
    BY <1>4, <2>1, <2>4
  <2> QED
    BY <2>2, <2>3, <2>4
<1>8. ASSUME NEW j \in DepleteJobs, DepleteFails(j) \/ RestartAdd(j) PROVE FreshReads'
  BY <1>4, <1>8, Empties DEF DepleteFails, RestartAdd
<1>9. ASSUME NEW j \in DepleteJobs, RestartRemove(j) PROVE FreshReads'
  <2>1. [dep[j] EXCEPT !.pc = "add", !.users = Enabled(row)].pc # "read"
    BY <1>0 DEF Dep
  <2>2. NoDep.pc # "read" /\ row' = row
    BY <1>9 DEF NoDep, RestartRemove
  <2> HIDE DEF FreshReads
  <2>3. CASE dep' = [dep EXCEPT ![j] = [dep[j] EXCEPT !.pc = "add", !.users = Enabled(row)]]
    BY <1>4, <2>1, <2>2, <2>3
  <2>4. CASE dep' = [dep EXCEPT ![j] = NoDep]
    BY <1>4, <2>2, <2>4
  <2> QED
    BY <1>9, <2>3, <2>4, RemoveFrame
<1>10. CASE SaveStep
  BY <1>1, <1>2, <1>10
  DEF SaveStep, SaveClient, DeleteClient, Written, RecordNotFound, SaveRestart, SaveCommit
<1>11. CASE Kill
  BY <1>11, Empties DEF Kill
<1>12. CASE \E c \in Clients :
                Connect(c) \/ Route(c) \/ Hangup(c) \/ Send(c) \/ OpenForm(c)
  BY <1>1, <1>12 DEF Connect, Route, Hangup, Send, OpenForm
<1>13. CASE StopBox \/ StartBox \/ BeginSave \/ Tick \/ UNCHANGED vars
  BY <1>1, <1>13 DEF StopBox, StartBox, BeginSave, Tick, vars
<1> QED
  BY <1>5, <1>6, <1>7, <1>8, <1>9, <1>10, <1>11, <1>12, <1>13 DEF Next, DepleteStep

\* What a client is charged, what is counted and what is held are numbers.
LEMMA Numbers ==
    ASSUME Types, NEW c \in Clients
    PROVE  /\ Charged(row[c]) \in Nat /\ live[c] \in Nat /\ Held(c) \in Nat
           /\ lost[c] \in Nat /\ erased[c] \in Int /\ sent[c] \in Nat
           /\ Charged(form.r) \in Nat /\ Charged(tx.rows[c]) \in Nat
<1>1. row[c] \in Row /\ form.r \in Row /\ tx.rows[c] \in Row
  BY DEF Types, Form, Tx
<1>2. \A r \in Row : Charged(r) \in Nat
  BY DEF Row, Charged
<1> QED
  BY <1>1, <1>2, HeldNat DEF Types

\* The same of the next state.
AllNumbers ==
    \A c \in Clients :
        /\ Charged(row[c]) \in Nat /\ live[c] \in Nat /\ Held(c) \in Nat
        /\ lost[c] \in Nat /\ erased[c] \in Int /\ sent[c] \in Nat

\* What follows from the types follows from them in every state.
LEMMA NumbersNow == Types => AllNumbers
  BY Numbers DEF AllNumbers

\* What the books hold after a step are numbers.
LEMMA NumbersNext ==
    ASSUME Types', NEW c \in Clients
    PROVE  /\ Charged(row[c])' \in Nat /\ live'[c] \in Nat /\ Held(c)' \in Nat
           /\ lost'[c] \in Nat /\ erased'[c] \in Int /\ sent'[c] \in Nat
<1>1. AllNumbers'
  BY NumbersNow, PTL
<1> QED
  BY <1>1 DEF AllNumbers

\* One step in the books of client c: what is added on one side is taken from
\* another, what is on its way never grows by more than what was sent, and
\* only the save of a form sets what the row is charged.
Flow(c) ==
    /\ Charged(row[c])' + live'[c] + Held(c)' + lost'[c] + erased'[c] - sent'[c]
         = Charged(row[c]) + live[c] + Held(c) + lost[c] + erased[c] - sent[c]
    /\ live'[c] + Held(c)' - sent'[c] <= live[c] + Held(c) - sent[c]
    /\ \/ Charged(row[c])' + live'[c] + Held(c)' - sent'[c]
            <= Charged(row[c]) + live[c] + Held(c) - sent[c]
       \/ tx.pc = "commit" /\ row' = tx.rows

\* Arithmetic: what a job held is charged or lost.
LEMMA SavedArithmetic ==
    ASSUME NEW r \in Nat, NEW l \in Nat, NEW h \in Nat, NEW o \in Nat, NEW e \in Int,
           NEW s \in Nat, NEW r1 \in Nat, NEW h1 \in Nat, NEW o1 \in Nat,
           r1 + o1 + h1 = r + o + h, r1 + h1 <= r + h, h1 <= h
    PROVE  /\ r1 + l + h1 + o1 + e - s = r + l + h + o + e - s
           /\ l + h1 - s <= l + h - s
           /\ r1 + l + h1 - s <= r + l + h - s
  OBVIOUS

\* Every step keeps the books.
LEMMA EveryStepFlows ==
    ASSUME Types, FreshReads, [Next]_vars, NEW c \in Clients
    PROVE  Flow(c)
<1>1. Types'
  BY NextTypes
<1>2. /\ Charged(row[c]) \in Nat /\ live[c] \in Nat /\ Held(c) \in Nat
      /\ lost[c] \in Nat /\ erased[c] \in Int /\ sent[c] \in Nat
      /\ Charged(tx.rows[c]) \in Nat
  BY Numbers
<1>3. ASSUME batch' = batch PROVE Held(c)' = Held(c)
  BY <1>3 DEF Held, Units
<1>4. ASSUME row' = row PROVE Charged(row[c])' = Charged(row[c])
  BY <1>4
<1>5. ASSUME UNCHANGED <<row, live, batch, lost, erased, sent>> PROVE Flow(c)
  BY <1>2, <1>3, <1>5 DEF Flow
<1>6. ASSUME NEW d \in Clients, Send(d) PROVE Flow(c)
  <2>1. UNCHANGED <<row, batch, lost, erased>>
    BY <1>6 DEF Send
  <2>2. live'[c] - live[c] = sent'[c] - sent[c]
    BY <1>2, <1>6 DEF Send, Types
  <2>3. live'[c] \in Nat /\ sent'[c] \in Nat
    BY <1>1 DEF Types
  <2> QED
    BY <1>2, <1>3, <1>4, <2>1, <2>2, <2>3 DEF Flow
<1>7. ASSUME UNCHANGED <<row, batch, erased, sent>>, live' = Zero,
             lost' = [d \in Clients |-> lost[d] + live[d]]
      PROVE  Flow(c)
  <2>1. live'[c] = 0 /\ lost'[c] = lost[c] + live[c]
    BY <1>7, Empties
  <2> QED
    BY <1>2, <1>3, <1>4, <1>7, <2>1 DEF Flow
<1>8. ASSUME NEW j \in StatsJobs, GetStats(j) PROVE Flow(c)
  <2>1. Held(c)' + batch[j].n[c] = Held(c) + batch'[j].n[c] /\ Held(c)' \in Nat
    BY <1>1, <1>8, HeldMoves DEF GetStats, Types
  <2>2. batch[j].n[c] = 0 /\ batch'[j].n[c] = live[c] /\ live'[c] = 0
    BY <1>8, Empties DEF GetStats, Types
  <2>3. UNCHANGED <<row, sent, lost, erased>>
    BY <1>8 DEF GetStats
  <2> QED
    BY <1>2, <1>4, <2>1, <2>2, <2>3 DEF Flow
<1>9. ASSUME NEW j \in StatsJobs, SaveStats(j) \/ SaveStatsFails(j) PROVE Flow(c)
  <2>1. Held(c)' + batch[j].n[c] = Held(c) + batch'[j].n[c] /\ Held(c)' \in Nat
    BY <1>1, <1>9, HeldMoves DEF SaveStats, SaveStatsFails, Types
  <2>2. batch[j].n[c] \in Nat /\ batch'[j].n[c] = 0
    BY <1>9, Empties DEF SaveStats, SaveStatsFails, Types, Batch
  <2>3. CASE SaveStats(j)
    <3>1. PICK k \in 0..batch[j].n[c] :
              /\ row'[c] = [row[c] EXCEPT !.used = row[c].used + k]
              /\ lost'[c] = lost[c] + batch[j].n[c] - k
      BY <2>3, SavedRow
    <3>2. row[c] \in Row /\ k \in Nat /\ k <= batch[j].n[c]
      BY <2>2 DEF Types
    <3>3. Charged(row'[c]) = Charged(row[c]) + k
      BY <3>1, <3>2 DEF Row, Charged
    <3>4. Charged(row[c])' = Charged(row'[c])
      BY DEF Charged
    <3>5. UNCHANGED <<live, sent, erased>>
      BY <2>3 DEF SaveStats
    <3> QED
      <4>1. Charged(row[c])' + lost'[c] + Held(c)' = Charged(row[c]) + lost[c] + Held(c)
        BY <1>2, <2>1, <2>2, <3>1, <3>2, <3>3, <3>4
      <4>2. Charged(row[c])' + Held(c)' <= Charged(row[c]) + Held(c) /\ Held(c)' <= Held(c)
        BY <1>2, <2>1, <2>2, <3>2, <3>3, <3>4
      <4>3. live' = live /\ sent' = sent /\ erased' = erased
        BY <3>5
      <4>4. Charged(row[c])' \in Nat /\ lost'[c] \in Nat /\ Held(c)' \in Nat
        BY <1>1, NumbersNext
      <4>5. /\ Charged(row[c])' + live[c] + Held(c)' + lost'[c] + erased[c] - sent[c]
                 = Charged(row[c]) + live[c] + Held(c) + lost[c] + erased[c] - sent[c]
            /\ live[c] + Held(c)' - sent[c] <= live[c] + Held(c) - sent[c]
            /\ Charged(row[c])' + live[c] + Held(c)' - sent[c]
                 <= Charged(row[c]) + live[c] + Held(c) - sent[c]
        BY <1>2, <4>1, <4>2, <4>4, SavedArithmetic
      <4> QED
        BY <4>3, <4>5 DEF Flow
  <2>4. CASE SaveStatsFails(j)
    <3>1. lost'[c] = lost[c] + batch[j].n[c]
      BY <2>4 DEF SaveStatsFails
    <3>2. UNCHANGED <<row, live, sent, erased>>
      BY <2>4 DEF SaveStatsFails
    <3> QED
      BY <1>2, <1>4, <2>1, <2>2, <3>1, <3>2 DEF Flow
  <2> QED
    BY <1>9, <2>3, <2>4
<1>10. ASSUME NEW j \in DepleteJobs, DepleteCommit(j) PROVE Flow(c)
  <2>1. UNCHANGED <<live, batch, sent, lost, erased>>
    BY <1>10 DEF DepleteCommit
  <2>2. CASE row' = row
    BY <1>5, <2>1, <2>2
  <2>3. CASE row' = [e \in Clients |-> Settled(dep[j].rows[e], dep[j].dt)]
              /\ dep[j].pc = "read" /\ ~dep[j].stale
    <3>1. row'[c] = Settled(row[c], dep[j].dt)
      BY <2>3 DEF FreshReads
    <3>2. Charged(row[c])' = Charged(row[c])
      <4>1. row[c] \in Row /\ dep[j].dt \in Nat
        BY DEF Types, Dep
      <4>2. Charged(row[c])' = Charged(row'[c])
        BY DEF Charged
      <4> QED
        BY <3>1, <4>1, <4>2, SettledRow
    <3> QED
      BY <1>2, <1>3, <2>1, <3>2 DEF Flow
  <2> QED
    BY <1>10, <2>2, <2>3 DEF DepleteCommit
<1>11. ASSUME NEW j \in DepleteJobs,
              DepleteRead(j) \/ DepleteFails(j) \/ RestartRemove(j) \/ RestartAdd(j)
       PROVE  Flow(c)
  BY <1>5, <1>11 DEF DepleteRead, DepleteFails, RestartRemove, RestartAdd
<1>12. ASSUME RollBack, UNCHANGED <<row, batch, sent, erased>> PROVE Flow(c)
  BY <1>5, <1>7, <1>12 DEF RollBack
<1>13. CASE SaveStep
  <2>1. ASSUME NEW v \in Volumes, NEW e \in BOOLEAN, NEW rename \in BOOLEAN,
               SaveClient(v, e, rename)
        PROVE  Flow(c)
    BY <1>5, <2>1 DEF SaveClient, Written
  <2>5. CASE DeleteClient
    BY <1>5, <2>5 DEF DeleteClient, Written
  <2>4. CASE RecordNotFound
    BY <1>12, <2>4 DEF RecordNotFound
  <2>2. CASE SaveRestart
    <3>1. UNCHANGED <<row, batch, sent, erased>>
      BY <2>2 DEF SaveRestart
    <3>2. RollBack \/ UNCHANGED <<live, lost>>
      BY <2>2 DEF SaveRestart
    <3> QED
      BY <1>5, <1>12, <3>1, <3>2
  <2>3. CASE SaveCommit
    <3>1. CASE RollBack /\ UNCHANGED <<row, dep, erased>>
      BY <1>12, <2>3, <3>1 DEF SaveCommit
    <3>2. CASE /\ tx.pc = "commit" /\ row' = tx.rows
               /\ erased' = [d \in Clients |-> erased[d] + Charged(row[d]) - Charged(tx.rows[d])]
               /\ UNCHANGED <<live, lost, batch, sent>>
      <4>1. Charged(row[c])' = Charged(tx.rows[c])
        BY <3>2 DEF Charged
      <4>2. erased'[c] = erased[c] + Charged(row[c]) - Charged(tx.rows[c])
        BY <3>2
      <4> QED
        BY <1>2, <1>3, <3>2, <4>1, <4>2 DEF Flow
    <3> QED
      BY <2>3, <3>1, <3>2 DEF SaveCommit
  <2> QED
    BY <1>13, <2>1, <2>2, <2>3, <2>4, <2>5 DEF SaveStep
<1>14. CASE Kill
  <2>1. lost'[c] = lost[c] + live[c] + Held(c) /\ live'[c] = 0
    BY <1>14, Empties DEF Kill
  <2>2. Held(c)' = 0
    <3>1. \A j \in StatsJobs : batch'[j].n[c] = 0
      BY <1>14, Empties DEF Kill
    <3>2. Units(c)' = {}
      BY <3>1 DEF Units
    <3> QED
      BY <3>2, FS_EmptySet DEF Held
  <2>3. UNCHANGED <<row, sent, erased>>
    BY <1>14 DEF Kill
  <2> QED
    BY <1>2, <1>4, <2>1, <2>2, <2>3 DEF Flow
<1>15. CASE \E d \in Clients : Connect(d) \/ Route(d) \/ Hangup(d) \/ OpenForm(d)
  BY <1>5, <1>15 DEF Connect, Route, Hangup, OpenForm
<1>16. CASE StopBox
  BY <1>7, <1>16 DEF StopBox
<1>17. CASE StartBox \/ BeginSave \/ Tick \/ UNCHANGED vars
  BY <1>5, <1>17 DEF StartBox, BeginSave, Tick, vars
<1> QED
  BY <1>6, <1>8, <1>9, <1>10, <1>11, <1>13, <1>14, <1>15, <1>16, <1>17
  DEF Next, StatsStep, DepleteStep

\* At the start nothing is counted, held, lost or erased.
LEMMA InitBooks ==
    ASSUME Init, NEW c \in Clients
    PROVE  /\ live[c] = 0 /\ Held(c) = 0 /\ lost[c] = 0 /\ erased[c] = 0
           /\ sent[c] = Charged(row[c]) /\ Charged(form.r) = 0 /\ tx.pc = "idle"
<1>1. \A j \in StatsJobs : batch[j].n[c] = 0
  BY Empties DEF Init
<1>2. Held(c) = 0
  BY <1>1, NothingHeld
<1>3. live[c] = 0 /\ lost[c] = 0 /\ erased[c] = 0 /\ sent[c] = Charged(row[c])
  BY Empties DEF Init
<1> QED
  BY <1>2, <1>3, Empties DEF Init

\* Arithmetic: books that balance before a step that keeps them balance after it.
LEMMA StillBalanced ==
    ASSUME NEW r \in Int, NEW l \in Int, NEW h \in Int, NEW o \in Int, NEW e \in Int,
           NEW s \in Int, NEW r1 \in Int, NEW l1 \in Int, NEW h1 \in Int,
           NEW o1 \in Int, NEW e1 \in Int, NEW s1 \in Int,
           r1 + l1 + h1 + o1 + e1 - s1 = r + l + h + o + e - s,
           r + l + h + o + e = s
    PROVE  r1 + l1 + h1 + o1 + e1 = s1
  OBVIOUS

\* No unit of traffic is forgotten or counted twice between the tracker, the
\* batches and the rows, whatever jobs, saves, restarts and crashes interleave:
\* SaveStats adds in place, ResetClients moves and loses nothing, and a deplete
\* transaction writes only the rows it read if nobody has written since.
THEOREM TrafficConserved == Spec => []Conserved
<1>1. Init => Types /\ FreshReads /\ Conserved
  <2> SUFFICES ASSUME Init PROVE Types /\ FreshReads /\ Conserved
    OBVIOUS
  <2>1. Types
    BY InitTypes
  <2>2. FreshReads
    BY Empties DEF Init, FreshReads
  <2>3. Conserved
    BY <2>1, Numbers, InitBooks DEF Conserved
  <2> QED
    BY <2>1, <2>2, <2>3
<1>2. Types /\ FreshReads /\ Conserved /\ [Next]_vars => Types' /\ FreshReads' /\ Conserved'
  <2> SUFFICES ASSUME Types, FreshReads, Conserved, [Next]_vars
               PROVE  Types' /\ FreshReads' /\ Conserved'
    OBVIOUS
  <2>1. Types'
    BY NextTypes
  <2>2. FreshReads'
    BY FreshReadsKept
  <2>3. ASSUME NEW c \in Clients
        PROVE  Charged(row[c])' + live'[c] + Held(c)' + lost'[c] + erased'[c] = sent'[c]
    <3>1. Flow(c)
      BY EveryStepFlows
    <3>2. /\ Charged(row[c])' \in Nat /\ live'[c] \in Nat /\ Held(c)' \in Nat
          /\ lost'[c] \in Nat /\ erased'[c] \in Int /\ sent'[c] \in Nat
      BY <2>1, NumbersNext
    <3>3. Charged(row[c]) + live[c] + Held(c) + lost[c] + erased[c] = sent[c]
      BY DEF Conserved
    <3>4. /\ Charged(row[c]) \in Nat /\ live[c] \in Nat /\ Held(c) \in Nat
          /\ lost[c] \in Nat /\ erased[c] \in Int /\ sent[c] \in Nat
      BY Numbers
    <3>5. Charged(row[c])' + live'[c] + Held(c)' + lost'[c] + erased'[c] - sent'[c]
            = Charged(row[c]) + live[c] + Held(c) + lost[c] + erased[c] - sent[c]
      BY <3>1 DEF Flow
    <3> QED
      BY <3>2, <3>3, <3>4, <3>5, StillBalanced
  <2>4. Conserved'
    BY <2>3 DEF Conserved
  <2> QED
    BY <2>1, <2>2, <2>4
<1> QED
  BY <1>1, <1>2, PTL DEF Spec

\* What row r of client c would be charged, with what is on its way to it.
Within(r, c) == Charged(r) + live[c] + Held(c) <= sent[c]

\* The form and the transaction of an administrator hold rows of earlier times:
\* they too were never charged with more than what was sent.
NoCopyOvercharged ==
    /\ \A c \in Clients : Within(row[c], c)
    /\ Within(form.r, form.of)
    /\ tx.pc \in {"restart", "commit"} => \A c \in Clients : Within(tx.rows[c], c)

\* A copy stays within what was sent when it stays as it is.
LEMMA WithinKept ==
    ASSUME Types, FreshReads, [Next]_vars, NEW c \in Clients,
           NEW r \in Row, Within(r, c)
    PROVE  Charged(r) + live'[c] + Held(c)' <= sent'[c]
<1>1. Flow(c)
  BY EveryStepFlows
<1>2. Types'
  BY NextTypes
<1>3. live'[c] \in Nat /\ sent'[c] \in Nat
  BY <1>2 DEF Types
<1>4. Held(c)' \in Nat
  BY <1>2, NumbersNext
<1>5. live[c] \in Nat /\ sent[c] \in Nat /\ Held(c) \in Nat
  BY Numbers
<1>6. Charged(r) \in Nat
  BY DEF Charged, Row
<1> QED
  BY <1>1, <1>3, <1>4, <1>5, <1>6 DEF Flow, Within

\* Every step keeps the rows and their copies within what was sent.
LEMMA NoCopyOverchargedKept ==
    Types /\ FreshReads /\ NoCopyOvercharged /\ [Next]_vars => NoCopyOvercharged'
<1> SUFFICES ASSUME Types, FreshReads, NoCopyOvercharged, [Next]_vars
             PROVE  NoCopyOvercharged'
  OBVIOUS
<1>0. Types'
  BY NextTypes
<1>1. /\ \A c \in Clients : row[c] \in Row /\ row'[c] \in Row /\ tx.rows[c] \in Row
      /\ form.r \in Row /\ form.of \in Clients /\ NoRow \in Row /\ Charged(NoRow) = 0
  BY <1>0, Empties DEF Types, Form, Tx
<1>2. ASSUME NEW c \in Clients PROVE Within(row[c], c)'
  <2>1. Charged(row[c]) + live'[c] + Held(c)' <= sent'[c]
    BY <1>1, WithinKept DEF NoCopyOvercharged
  <2>2. CASE tx.pc = "commit" /\ row' = tx.rows
    <3>1. Charged(tx.rows[c]) + live'[c] + Held(c)' <= sent'[c]
      BY <1>1, <2>2, WithinKept DEF NoCopyOvercharged
    <3>2. Charged(row[c])' = Charged(tx.rows[c])
      BY <2>2 DEF Charged
    <3> QED
      BY <3>1, <3>2 DEF Within, Charged
  <2>3. CASE Charged(row[c])' + live'[c] + Held(c)' - sent'[c]
                <= Charged(row[c]) + live[c] + Held(c) - sent[c]
    <3>1. /\ Charged(row[c]) \in Nat /\ live[c] \in Nat
          /\ Held(c) \in Nat /\ sent[c] \in Nat
      BY Numbers
    <3>2. /\ Charged(row[c])' \in Nat /\ live'[c] \in Nat
          /\ Held(c)' \in Nat /\ sent'[c] \in Nat
      BY <1>0, NumbersNext
    <3>3. Charged(row[c]) + live[c] + Held(c) <= sent[c]
      BY DEF NoCopyOvercharged, Within
    <3>4. Charged(row[c])' + live'[c] + Held(c)' <= sent'[c]
      BY <2>3, <3>1, <3>2, <3>3
    <3> QED
      BY <3>4 DEF Within, Charged
  <2>4. Flow(c)
    BY EveryStepFlows
  <2> QED
    BY <2>2, <2>3, <2>4 DEF Flow
<1>3. Within(form.r, form.of)'
  <2>1. CASE form' = form
    <3>1. Charged(form.r) + live'[form.of] + Held(form.of)' <= sent'[form.of]
      <4>1. PICK c \in Clients : c = form.of
        BY <1>1
      <4>2. Charged(form.r) + live'[c] + Held(c)' <= sent'[c]
        BY <1>1, <4>1, WithinKept DEF NoCopyOvercharged
      <4>3. Held(form.of)' = Held(c)'
        BY <2>1, <4>1 DEF Held, Units
      <4> QED
        BY <4>1, <4>2, <4>3
    <3> QED
      BY <2>1, <3>1 DEF Within, Charged
  <2>2. CASE \E c \in Clients : /\ form'.of = c /\ form'.r = row[c]
    <3>1. PICK c \in Clients : form'.of = c /\ form'.r = row[c]
      BY <2>2
    <3>2. Charged(row[c]) + live'[c] + Held(c)' <= sent'[c]
      BY <1>1, WithinKept DEF NoCopyOvercharged
    <3>3. Held(form.of)' = Held(c)'
      BY <3>1 DEF Held, Units
    <3> QED
      BY <3>1, <3>2, <3>3 DEF Within, Charged
  <2>3. CASE form'.r = NoRow
    <3>1. PICK c \in Clients : c = form'.of
      BY <1>0 DEF Types, Form
    <3>2. Within(row[c], c)'
      BY <1>2
    <3>3. /\ Charged(row[c])' \in Nat /\ live'[c] \in Nat
          /\ Held(c)' \in Nat /\ sent'[c] \in Nat
      BY <1>0, NumbersNext
    <3>4. Charged(row[c])' + live'[c] + Held(c)' <= sent'[c]
      BY <3>2 DEF Within, Charged
    <3>5. live'[c] + Held(c)' <= sent'[c]
      BY <3>3, <3>4
    <3>6. Held(form.of)' = Held(c)'
      BY <3>1 DEF Held, Units
    <3>7. Charged(form.r)' = 0
      BY <1>1, <2>3 DEF Charged
    <3> QED
      BY <3>1, <3>3, <3>5, <3>6, <3>7 DEF Within
  <2>4. ASSUME NEW c \in Clients, OpenForm(c) PROVE form'.of = c /\ form'.r = row[c]
    BY <2>4 DEF OpenForm
  <2>5. ASSUME form' = NoForm PROVE form'.r = NoRow
    BY <2>5, Empties
  <2>6. \/ form' = form
        \/ \E c \in Clients : OpenForm(c)
        \/ form' = NoForm
    <3>1. CASE SaveStep
      BY <3>1 DEF SaveStep, SaveClient, DeleteClient, Written, RecordNotFound, SaveRestart,
                  SaveCommit
    <3>2. ASSUME NEW j \in DepleteJobs, DepleteRead(j) \/ DepleteStep(j) PROVE form' = form
      BY <3>2 DEF DepleteRead, DepleteStep, DepleteCommit, DepleteFails, RestartRemove, RestartAdd
    <3>3. ASSUME NEW j \in StatsJobs, StatsStep(j) PROVE form' = form
      BY <3>3 DEF StatsStep, GetStats, SaveStats, SaveStatsFails
    <3>4. ASSUME NEW c \in Clients, Connect(c) \/ Route(c) \/ Hangup(c) \/ Send(c)
          PROVE  form' = form
      BY <3>4 DEF Connect, Route, Hangup, Send
    <3>5. CASE StopBox \/ StartBox \/ BeginSave \/ Kill \/ Tick \/ UNCHANGED vars
      BY <3>5 DEF StopBox, StartBox, BeginSave, Kill, Tick, vars
    <3> QED
      BY <3>1, <3>2, <3>3, <3>4, <3>5 DEF Next
  <2> QED
    BY <2>1, <2>2, <2>3, <2>4, <2>5, <2>6
<1>4. ASSUME tx'.pc \in {"restart", "commit"}, NEW c \in Clients
      PROVE  Within(tx.rows[c], c)'
  <2>1. CASE tx.pc \in {"restart", "commit"} /\ tx'.rows = tx.rows
    <3>1. Charged(tx.rows[c]) + live'[c] + Held(c)' <= sent'[c]
      BY <1>1, <2>1, WithinKept DEF NoCopyOvercharged
    <3> QED
      BY <2>1, <3>1 DEF Within, Charged
  <2>2. ASSUME NEW r \in Row, NEW restart, Written(r, restart),
               Charged(r) = Charged(form.r) \/ Charged(r) = 0
        PROVE  Within(tx.rows[c], c)'
    <3>1. Charged(r) <= Charged(form.r)
      BY <1>1, <2>2 DEF Row, Charged
    <3>2. tx'.rows = [row EXCEPT ![form.of] = r]
      BY <2>2, WrittenRows
    <3>3. CASE c = form.of
      <4>1. Charged(form.r) + live'[c] + Held(c)' <= sent'[c]
        BY <1>1, <3>3, WithinKept DEF NoCopyOvercharged
      <4>2. tx'.rows[c] = r
        BY <3>2, <3>3 DEF Types
      <4>3. /\ live'[c] \in Nat /\ Held(c)' \in Nat /\ sent'[c] \in Nat
            /\ Charged(form.r) \in Nat /\ Charged(r) \in Nat
        BY <1>0, <1>1, NumbersNext DEF Row, Charged
      <4>4. Charged(r) + live'[c] + Held(c)' <= sent'[c]
        BY <3>1, <4>1, <4>3
      <4> QED
        BY <4>2, <4>4 DEF Within, Charged
    <3>4. CASE c # form.of
      <4>1. Charged(row[c]) + live'[c] + Held(c)' <= sent'[c]
        BY <1>1, WithinKept DEF NoCopyOvercharged
      <4>2. tx'.rows[c] = row[c]
        BY <3>2, <3>4 DEF Types
      <4> QED
        BY <4>1, <4>2 DEF Within, Charged
    <3> QED
      BY <3>3, <3>4
  <2>4. ASSUME NEW v \in Volumes, NEW e \in BOOLEAN, NEW rename \in BOOLEAN,
               SaveClient(v, e, rename)
        PROVE  Within(tx.rows[c], c)'
    BY <2>2, <2>4, EditedRow
  <2>5. CASE DeleteClient
    BY <1>1, <2>2, <2>5 DEF DeleteClient
  <2>3. \/ tx' = tx \/ tx'.pc \in {"idle", "begin"}
        \/ DeleteClient
        \/ \E v \in Volumes, e, rename \in BOOLEAN : SaveClient(v, e, rename)
        \/ tx.pc = "restart" /\ tx'.rows = tx.rows
    <3>1. CASE SaveStep
      BY <3>1, Empties
      DEF SaveStep, RecordNotFound, SaveRestart, SaveCommit, RollBack, Types, Tx
    <3>2. CASE BeginSave \/ Kill
      BY <3>2, Empties DEF BeginSave, Kill, NoTx
    <3> QED
      BY <3>1, <3>2 DEF Next, Connect, Route, Hangup, Send, OpenForm, StopBox, StartBox,
           StatsStep, GetStats, SaveStats, SaveStatsFails, DepleteRead, DepleteStep,
           DepleteCommit, DepleteFails, RestartRemove, RestartAdd, Tick, vars
  <2> QED
    BY <1>4, <2>1, <2>3, <2>4, <2>5
<1> QED
  BY <1>2, <1>3, <1>4 DEF NoCopyOvercharged

\* No client is charged for more than it sent, although the save of a form
\* brings a row back that was read before other saves took traffic off it.
THEOREM NobodyOvercharged == Spec => []NeverOvercharged
<1>1. Init => Types /\ FreshReads /\ NoCopyOvercharged
  <2> SUFFICES ASSUME Init PROVE Types /\ FreshReads /\ NoCopyOvercharged
    OBVIOUS
  <2>1. Types
    BY InitTypes
  <2>2. FreshReads
    BY Empties DEF Init, FreshReads
  <2>3. \A c \in Clients : Within(row[c], c)
    BY <2>1, Numbers, InitBooks DEF Within
  <2>4. Within(form.r, form.of)
    <3>1. form.of \in Clients
      BY <2>1 DEF Types, Form
    <3> QED
      BY <2>1, <3>1, Numbers, InitBooks DEF Within
  <2>5. tx.pc = "idle"
    BY Empties DEF Init
  <2> QED
    BY <2>1, <2>2, <2>3, <2>4, <2>5 DEF NoCopyOvercharged
<1>2. Types /\ FreshReads /\ NoCopyOvercharged /\ [Next]_vars
        => Types' /\ FreshReads' /\ NoCopyOvercharged'
  BY NextTypes, FreshReadsKept, NoCopyOverchargedKept
<1>3. Types /\ NoCopyOvercharged => NeverOvercharged
  <2> SUFFICES ASSUME Types, NoCopyOvercharged, NEW c \in Clients
               PROVE  Charged(row[c]) <= sent[c]
    BY DEF NeverOvercharged
  <2>1. Charged(row[c]) + live[c] + Held(c) <= sent[c]
    BY DEF NoCopyOvercharged, Within
  <2> QED
    BY <2>1, Numbers
<1> QED
  BY <1>1, <1>2, <1>3, PTL DEF Spec

-----------------------------------------------------------------------------
(* Who is served, when operations do not overlap and nothing fails *)

\* The hypothesis of the two theorems below: the sharper claim is false when
\* jobs and requests overlap, or when an inbound cannot be restarted.
Sequential == ~Overlap /\ ~Faults

\* An operation that is under way is the only one.
OneAtATime ==
    /\ \A j \in StatsJobs : batch[j].on =>
          /\ tx.pc = "idle" /\ \A k \in DepleteJobs : dep[k].pc = "idle"
          /\ \A k \in StatsJobs \ {j} : ~batch[k].on
    /\ \A j \in DepleteJobs : dep[j].pc # "idle" =>
          /\ tx.pc = "idle" /\ \A k \in DepleteJobs \ {j} : dep[k].pc = "idle"
          /\ \A k \in StatsJobs : ~batch[k].on

\* Between two steps of an operation the inbound serves the enabled clients,
\* or the operation holds the users it will be given; and a connection that was
\* routed while its client was served is open only as long as it is served.
Serving ==
    /\ running /\ tx.pc \in {"idle", "begin"}
          /\ (\A j \in DepleteJobs : dep[j].pc \in {"idle", "read"})
       => served = Enabled(row)
    /\ \A j \in DepleteJobs :
          /\ dep[j].pc = "read" => ~dep[j].stale
          /\ dep[j].pc = "add" => running /\ served = {} /\ dep[j].users = Enabled(row)
    /\ tx.pc = "begin" /\ tx.was => running /\ tx.users = Enabled(row)
    /\ tx.pc = "restart" => running
    /\ tx.pc = "commit" /\ running => served = Enabled(tx.rows)
    /\ \A c \in Clients : conn[c] = "tracked" => c \in served

\* What is proved inductive under Sequential.
ServedInv == Types /\ FreshReads /\ OneAtATime /\ Serving

\* An operation begins when none is under way, and goes on alone.
LEMMA OneAtATimeKept ==
    Sequential /\ Types /\ OneAtATime /\ [Next]_vars => OneAtATime'
<1> SUFFICES ASSUME Sequential, Types, OneAtATime, [Next]_vars PROVE OneAtATime'
  OBVIOUS
<1>0. dep \in [DepleteJobs -> Dep] /\ batch \in [StatsJobs -> Batch] /\ tx \in Tx
  BY DEF Types
<1> USE DEF OneAtATime
<1>1. ASSUME UNCHANGED <<batch, dep>>, tx'.pc = tx.pc \/ tx.pc # "idle" PROVE OneAtATime'
  BY <1>1
<1>2. ASSUME NEW j \in StatsJobs, GetStats(j) PROVE OneAtATime'
  BY <1>0, <1>2 DEF GetStats, MayBegin, AllIdle, Sequential
<1>3. ASSUME NEW j \in StatsJobs, SaveStats(j) \/ SaveStatsFails(j) PROVE OneAtATime'
  <2>1. \A k \in DepleteJobs : dep'[k].pc = dep[k].pc
    BY <1>0, <1>3, UnsnapTypes DEF SaveStats, SaveStatsFails
  <2>2. tx' = tx /\ batch' = [batch EXCEPT ![j] = NoBatch] /\ ~NoBatch.on
    BY <1>3, Empties DEF SaveStats, SaveStatsFails
  <2> QED
    BY <1>0, <2>1, <2>2
<1>4. ASSUME NEW j \in DepleteJobs, DepleteRead(j) PROVE OneAtATime'
  <2>1. AllIdle
    BY <1>4 DEF DepleteRead, MayBegin, Sequential
  <2>2. UNCHANGED <<batch, tx>> /\ \A k \in DepleteJobs \ {j} : dep'[k] = dep[k]
    BY <1>0, <1>4 DEF DepleteRead
  <2> QED
    BY <2>1, <2>2 DEF AllIdle
<1>5. ASSUME NEW j \in DepleteJobs, dep[j].pc # "idle", UNCHANGED <<batch, tx>>,
             \A k \in DepleteJobs \ {j} : dep'[k].pc = dep[k].pc
      PROVE  OneAtATime'
  BY <1>5
<1>6. ASSUME NEW j \in DepleteJobs, DepleteStep(j) PROVE OneAtATime'
  <2>1. dep[j].pc # "idle" /\ UNCHANGED <<batch, tx>>
    BY <1>6 DEF DepleteStep, DepleteCommit, DepleteFails, RestartRemove, RestartAdd
  <2>2. ASSUME NEW k \in DepleteJobs \ {j} PROVE dep'[k].pc = dep[k].pc
    BY <1>0, <1>6, UnsnapTypes
    DEF DepleteStep, DepleteCommit, DepleteFails, RestartRemove, RestartAdd, Others
  <2> QED
    BY <1>5, <2>1, <2>2
<1>7. CASE BeginSave
  <2>1. AllIdle /\ UNCHANGED <<batch, dep>>
    BY <1>7 DEF BeginSave, MayBegin, Sequential
  <2> QED
    BY <2>1 DEF AllIdle
<1>8. CASE SaveStep
  <2>1. tx.pc # "idle" /\ batch' = batch
    BY <1>8
    DEF SaveStep, SaveClient, DeleteClient, Written, RecordNotFound, SaveRestart, SaveCommit
  <2>2. \A k \in DepleteJobs : dep'[k].pc = dep[k].pc
    <3>1. dep' = dep \/ dep' = Unsnap
      BY <1>8
      DEF SaveStep, SaveClient, DeleteClient, Written, RecordNotFound, SaveRestart, SaveCommit
    <3> QED
      BY <1>0, <3>1, UnsnapTypes
  <2> QED
    BY <2>1, <2>2
<1>9. ~Kill
  BY DEF Kill, Sequential
<1>10. CASE \/ \E c \in Clients :
                  Connect(c) \/ Route(c) \/ Hangup(c) \/ Send(c) \/ OpenForm(c)
            \/ StopBox \/ StartBox \/ Tick \/ UNCHANGED vars
  BY <1>1, <1>10
  DEF Connect, Route, Hangup, Send, OpenForm, StopBox, StartBox, Tick, vars
<1> QED
  BY <1>2, <1>3, <1>4, <1>6, <1>7, <1>8, <1>9, <1>10 DEF Next, StatsStep

\* A deplete job that touches nobody leaves the same clients enabled.
LEMMA UntouchedEnabled ==
    ASSUME NEW rows \in [Clients -> Row], NEW dt \in Nat, Touched(rows, dt) = {}
    PROVE  Enabled([c \in Clients |-> Settled(rows[c], dt)]) = Enabled(rows)
<1>1. ASSUME NEW c \in Clients PROVE Settled(rows[c], dt).enable = rows[c].enable
  <2> DEFINE s == ResetClients(rows[c], dt)
  <2>1. ~Depleted(s, dt) /\ s.enable = rows[c].enable
    BY DEF Touched
  <2> HIDE DEF s
  <2>2. Settled(rows[c], dt) = IF Depleted(s, dt) THEN [s EXCEPT !.enable = FALSE] ELSE s
    BY DEF Settled, s
  <2> QED
    BY <2>1, <2>2
<1> QED
  BY <1>1 DEF Enabled

\* Every step keeps who is served in order.
LEMMA ServingKept ==
    Sequential /\ ServedInv /\ [Next]_vars => Serving'
<1> SUFFICES ASSUME Sequential, ServedInv, [Next]_vars PROVE Serving'
  OBVIOUS
<1>0. /\ dep \in [DepleteJobs -> Dep] /\ batch \in [StatsJobs -> Batch] /\ tx \in Tx
      /\ row \in [Clients -> Row]
      /\ conn \in [Clients -> {"none", "accepted", "tracked", "late"}]
      /\ running \in BOOLEAN
      /\ ~running => served = {} /\ conn = NoConn
      /\ \A c \in Clients : NoConn[c] # "tracked" /\ CloseConnByInbound[c] # "tracked"
  BY DEF ServedInv, Types, NoConn, CloseConnByInbound
<1>00. Serving /\ OneAtATime /\ FreshReads
  BY DEF ServedInv
<1> USE DEF Serving
<1>1. ASSUME UNCHANGED <<row, running, served, dep, tx>>,
             \A c \in Clients : conn'[c] = "tracked" => conn[c] = "tracked" \/ c \in served
      PROVE  Serving'
  BY <1>00, <1>1 DEF Enabled
<1>2. ASSUME NEW c \in Clients, Connect(c) \/ Route(c) \/ Hangup(c) \/ Send(c) \/ OpenForm(c)
      PROVE  Serving'
  <2>1. UNCHANGED <<row, running, served, dep, tx>>
    BY <1>2 DEF Connect, Route, Hangup, Send, OpenForm
  <2>2. ASSUME NEW d \in Clients, conn'[d] = "tracked", conn[d] # "tracked"
        PROVE  d \in served
    BY <1>0, <1>2, <2>2 DEF Connect, Route, Hangup, Send, OpenForm
  <2> QED
    BY <1>1, <2>1, <2>2
<1>3. CASE StopBox
  <2>1. AllIdle /\ UNCHANGED <<dep, tx>> /\ ~running' /\ conn' = NoConn
    BY <1>3 DEF StopBox, MayBegin, Sequential
  <2> QED
    BY <1>0, <2>1 DEF AllIdle
<1>4. CASE StartBox
  <2>1. AllIdle /\ UNCHANGED <<dep, tx, row, conn>> /\ served' = Enabled(row) /\ conn = NoConn
    BY <1>0, <1>4 DEF StartBox, MayBegin, Sequential
  <2> QED
    BY <1>0, <2>1 DEF AllIdle, Enabled
<1>5. ASSUME NEW j \in StatsJobs, GetStats(j) PROVE Serving'
  BY <1>1, <1>5 DEF GetStats
<1>6. ASSUME NEW j \in StatsJobs, SaveStats(j) PROVE Serving'
  <2>1. /\ tx.pc = "idle" /\ \A k \in DepleteJobs : dep[k].pc = "idle" /\ dep'[k] = dep[k]
        /\ UNCHANGED <<running, served, conn, tx>>
    BY <1>0, <1>00, <1>6, UnsnapTypes DEF OneAtATime, SaveStats
  <2>2. Enabled(row)' = Enabled(row)
    <3>1. \A c \in Clients : row'[c].enable = row[c].enable
      <4>1. ASSUME NEW c \in Clients PROVE row'[c].enable = row[c].enable
        <5>1. PICK k : row'[c] = [row[c] EXCEPT !.used = row[c].used + k]
          BY <1>6, SavedRow DEF ServedInv
        <5> QED
          BY <1>0, <5>1 DEF Row
      <4> QED
        BY <4>1
    <3> QED
      BY <3>1 DEF Enabled
  <2> QED
    BY <1>00, <2>1, <2>2
<1>7. ~Kill /\ \A j \in StatsJobs : ~SaveStatsFails(j)
  BY DEF Kill, SaveStatsFails, Sequential
<1>8. ASSUME NEW j \in DepleteJobs, DepleteRead(j) PROVE Serving'
  <2> DEFINE d == [NoDep EXCEPT !.pc = "read", !.dt = now, !.rows = row]
  <2>1. d.pc = "read" /\ ~d.stale
    BY DEF NoDep
  <2> HIDE DEF d
  <2>2. AllIdle /\ dep' = [dep EXCEPT ![j] = d] /\ UNCHANGED <<row, running, served, conn, tx>>
    BY <1>8 DEF DepleteRead, MayBegin, Sequential, d
  <2> QED
    BY <1>0, <1>00, <2>1, <2>2 DEF AllIdle, Enabled
<1>9. ASSUME NEW j \in DepleteJobs, DepleteCommit(j) PROVE Serving'
  <2>1. /\ dep[j].pc = "read" /\ dep[j].rows = row /\ tx.pc = "idle"
        /\ \A k \in DepleteJobs \ {j} : dep[k].pc = "idle"
        /\ UNCHANGED <<running, served, conn, tx>>
    BY <1>00, <1>9 DEF DepleteCommit, OneAtATime, FreshReads
  <2>2. \A k \in DepleteJobs \ {j} : dep'[k].pc = "idle"
    BY <1>0, <1>9, <2>1, UnsnapTypes DEF DepleteCommit, Others
  <2>3. running => served = Enabled(row)
    BY <1>00, <2>1
  <2> DEFINE new == [c \in Clients |-> Settled(dep[j].rows[c], dep[j].dt)]
             next == IF Touched(dep[j].rows, dep[j].dt) = {} THEN NoDep
                     ELSE [NoDep EXCEPT !.pc = "restart"]
  <2>4. Touched(dep[j].rows, dep[j].dt) # {} => next.pc = "restart"
    BY DEF NoDep
  <2>5. Touched(dep[j].rows, dep[j].dt) = {} =>
            next.pc = "idle" /\ Enabled(new) = Enabled(row)
    <3>1. dep[j].dt \in Nat
      BY <1>0 DEF Dep
    <3> QED
      BY <1>0, <2>1, <3>1, Empties, UntouchedEnabled
  <2>6. dep'[j] = next /\ (row' = new \/ row' = row)
    BY <1>0, <1>9 DEF DepleteCommit, Others
  <2> HIDE DEF new, next
  <2>7. Enabled(row)' = Enabled(row')
    BY DEF Enabled
  <2>8. CASE Touched(dep[j].rows, dep[j].dt) # {}
    BY <1>00, <2>1, <2>2, <2>4, <2>6, <2>8
  <2>9. CASE Touched(dep[j].rows, dep[j].dt) = {}
    BY <1>00, <2>1, <2>2, <2>3, <2>5, <2>6, <2>7, <2>9
  <2> QED
    BY <2>8, <2>9
<1>10. ASSUME NEW j \in DepleteJobs PROVE ~DepleteFails(j)
  BY <1>00 DEF DepleteFails, Sequential
<1>11. ASSUME NEW j \in DepleteJobs, RestartRemove(j) PROVE Serving'
  <2>1. /\ tx.pc = "idle" /\ \A k \in DepleteJobs \ {j} : dep[k].pc = "idle" /\ dep'[k] = dep[k]
        /\ UNCHANGED <<row, running, tx>>
    BY <1>0, <1>00, <1>11 DEF RestartRemove, OneAtATime
  <2>2. CASE running
    <3> DEFINE d == [dep[j] EXCEPT !.pc = "add", !.users = Enabled(row)]
    <3>1. d.pc = "add" /\ d.users = Enabled(row)
      BY <1>0 DEF Dep
    <3>2. dep'[j] = d
      BY <1>0, <1>11, <2>2 DEF RestartRemove, Sequential
    <3> HIDE DEF d
    <3>3. served' = {} /\ conn' = CloseConnByInbound
      BY <1>11, <2>2 DEF RestartRemove, Sequential
    <3> QED
      BY <1>0, <1>00, <2>1, <2>2, <3>1, <3>2, <3>3 DEF Enabled
  <2>3. CASE ~running
    <3>1. dep'[j].pc = "idle" /\ UNCHANGED <<served, conn>>
      BY <1>0, <1>11, <2>3, Empties DEF RestartRemove
    <3> QED
      BY <1>0, <1>00, <2>1, <2>3, <3>1
  <2> QED
    BY <1>0, <2>2, <2>3
<1>12. ASSUME NEW j \in DepleteJobs, RestartAdd(j) PROVE Serving'
  <2>1. /\ tx.pc = "idle" /\ \A k \in DepleteJobs \ {j} : dep[k].pc = "idle" /\ dep'[k] = dep[k]
        /\ UNCHANGED <<row, running, conn, tx>>
    BY <1>0, <1>00, <1>12 DEF RestartAdd, OneAtATime
  <2>2. running /\ served = {} /\ dep[j].users = Enabled(row)
    BY <1>00, <1>12 DEF RestartAdd
  <2>3. served' = Enabled(row) /\ dep'[j].pc = "idle"
    BY <1>0, <1>12, <2>2, Empties DEF RestartAdd, Sequential
  <2> QED
    BY <1>0, <1>00, <2>1, <2>2, <2>3 DEF Enabled
<1>13. CASE BeginSave
  <2> DEFINE t == [NoTx EXCEPT !.pc = "begin", !.was = running,
                               !.users = IF running THEN Enabled(row) ELSE {}]
  <2>1. t.pc = "begin" /\ t.was = running /\ (running => t.users = Enabled(row))
    BY DEF NoTx
  <2> HIDE DEF t
  <2>2. UNCHANGED <<row, running, served, conn, dep>> /\ tx' = t /\ tx.pc = "idle"
    BY <1>13 DEF BeginSave, t
  <2> QED
    BY <1>00, <2>1, <2>2 DEF Enabled
<1>14. ASSUME NEW r \in Row, NEW restart, tx.pc = "begin", Written(r, restart),
              ~restart => row[form.of].enable = r.enable
       PROVE  Serving'
  <2>1. /\ UNCHANGED <<row, running, served, conn, dep>>
        /\ tx'.pc = IF restart /\ running THEN "restart" ELSE "commit"
        /\ tx'.rows = [row EXCEPT ![form.of] = r]
    BY <1>14, WrittenRows DEF ServedInv
  <2>2. \A k \in DepleteJobs : dep[k].pc = "idle"
    BY <1>00, <1>14 DEF OneAtATime
  <2>3. row[form.of].enable = r.enable => Enabled(tx.rows)' = Enabled(row)
    BY <1>0, <2>1 DEF Enabled
  <2> QED
    BY <1>00, <1>14, <2>1, <2>2, <2>3
<1>18. ASSUME NEW v \in Volumes, NEW e \in BOOLEAN, NEW rename \in BOOLEAN,
              SaveClient(v, e, rename)
       PROVE  Serving'
  <2>1. PICK r \in Row : /\ Written(r, findInboundsChanges(form.of, e, rename))
                         /\ r.enable = e
    BY <1>18, EditedRow DEF ServedInv
  <2>2. tx.pc = "begin"
    BY <1>18 DEF SaveClient
  <2>3. ~findInboundsChanges(form.of, e, rename) => row[form.of].enable = r.enable
    BY <2>1 DEF findInboundsChanges
  <2> HIDE DEF Serving
  <2> QED
    BY <1>14, <2>1, <2>2, <2>3
<1>19. CASE DeleteClient
  BY <1>14, <1>19, Empties DEF DeleteClient
<1>20. CASE RecordNotFound
  <2>1. tx.pc = "begin" /\ UNCHANGED <<row, dep>> /\ tx'.pc = "idle"
    BY <1>20, Empties DEF RecordNotFound, RollBack
  <2>2. \A k \in DepleteJobs : dep[k].pc = "idle"
    BY <1>00, <2>1 DEF OneAtATime
  <2>3. \/ tx.was /\ running' /\ served' = tx.users /\ conn' = NoConn
        \/ UNCHANGED <<running, served, conn>>
    BY <1>20 DEF RecordNotFound, RollBack, Sequential
  <2>4. tx.was => tx.users = Enabled(row)
    BY <1>00, <2>1
  <2> QED
    BY <1>0, <1>00, <2>1, <2>2, <2>3, <2>4 DEF Enabled
<1>15. CASE SaveRestart
  <2>1. /\ tx.pc = "restart" /\ running /\ UNCHANGED <<row, dep, running>>
        /\ served' = Enabled(tx.rows) /\ conn' = CloseConnByInbound
        /\ tx' = [tx EXCEPT !.pc = "commit"]
    BY <1>00, <1>15 DEF SaveRestart, Sequential
  <2>2. tx'.pc = "commit" /\ tx'.rows = tx.rows
    BY <1>0, <2>1 DEF Tx
  <2>3. \A k \in DepleteJobs : dep[k].pc = "idle"
    BY <1>00, <2>1 DEF OneAtATime
  <2> QED
    BY <1>0, <2>1, <2>2, <2>3 DEF Enabled
<1>16. CASE SaveCommit
  <2>1. /\ tx.pc = "commit" /\ row' = tx.rows /\ tx'.pc = "idle" /\ conn' = conn
        /\ \A k \in DepleteJobs : dep'[k].pc = dep[k].pc
        /\ \/ ~running /\ running' = TRUE /\ served' = Enabled(tx.rows)
           \/ UNCHANGED <<running, served>>
    BY <1>0, <1>16, Empties, UnsnapTypes DEF SaveCommit, Sequential
  <2>2. \A k \in DepleteJobs : dep[k].pc = "idle"
    BY <1>00, <2>1 DEF OneAtATime
  <2>3. Enabled(row)' = Enabled(tx.rows)
    BY <2>1 DEF Enabled
  <2> QED
    BY <1>0, <1>00, <2>1, <2>2, <2>3
<1>17. CASE Tick \/ UNCHANGED vars
  BY <1>1, <1>17 DEF Tick, vars
<1> QED
  BY <1>2, <1>3, <1>4, <1>5, <1>6, <1>7, <1>8, <1>9, <1>10, <1>11, <1>12, <1>13,
     <1>15, <1>16, <1>17, <1>18, <1>19, <1>20 DEF Next, StatsStep, DepleteStep, SaveStep

\* Who is served stays in order through every run of operations one by one.
LEMMA ServedInvariant == Sequential => (Spec => []ServedInv)
<1> SUFFICES ASSUME Sequential PROVE Spec => []ServedInv
  OBVIOUS
<1>1. Init => ServedInv
  <2> SUFFICES ASSUME Init PROVE ServedInv
    OBVIOUS
  <2>1. Types
    BY InitTypes
  <2>2. FreshReads /\ OneAtATime /\ Serving
    BY Empties DEF Init, FreshReads, OneAtATime, Serving, NoConn
  <2> QED
    BY <2>1, <2>2 DEF ServedInv
<1>2. ServedInv /\ [Next]_vars => ServedInv'
  BY NextTypes, FreshReadsKept, OneAtATimeKept, ServingKept DEF ServedInv
<1> QED
  BY <1>1, <1>2, PTL DEF Spec

\* When no operation is under way, the inbound serves exactly the clients whose
\* committed row is enabled: RestartInbounds adds the users of the rows that are
\* committed, and a save that changes no user restarts nothing.
THEOREM ServedAreEnabled == Sequential => (Spec => []EnabledIsServed)
<1> SUFFICES ASSUME Sequential PROVE Spec => []EnabledIsServed
  OBVIOUS
<1>1. Spec => []ServedInv
  BY ServedInvariant
<1>2. ServedInv => EnabledIsServed
  BY DEF ServedInv, Serving, EnabledIsServed, AllIdle
<1> QED
  BY <1>1, <1>2, PTL

\* A disabled client keeps no connection that was routed while it was served:
\* whoever takes a client off the inbound closes those (CloseConnByInbound).
THEOREM DisabledAreDisconnected == Sequential => (Spec => []NoLeftConnections)
<1> SUFFICES ASSUME Sequential PROVE Spec => []NoLeftConnections
  OBVIOUS
<1>1. Spec => []ServedInv
  BY ServedInvariant
<1>2. ServedInv => NoLeftConnections
  <2> SUFFICES ASSUME ServedInv, AllIdle, NEW c \in Clients, conn[c] = "tracked"
               PROVE  row[c].enable
    BY DEF NoLeftConnections
  <2>1. c \in served
    BY DEF ServedInv, Serving
  <2>2. running
    BY <2>1 DEF ServedInv, Types
  <2> QED
    BY <2>1, <2>2 DEF ServedInv, Serving, AllIdle, Enabled
<1> QED
  BY <1>1, <1>2, PTL

=============================================================================
