-------------------------- MODULE CeremoniesProofs --------------------------
(* Proofs about Ceremonies for any administrators, requests, lifetimes and  *)
(* limits.                                                                  *)
EXTENDS Ceremonies, FiniteSetTheorems, TLAPS

-----------------------------------------------------------------------------
(* The tables *)

Entries(t) == DOMAIN table[t].entries

\* A table holds keys that were issued, each with a time at which it expires,
\* and is within its limit.
TableOK(T, I) ==
    /\ T = [entries |-> T.entries, cleaned |-> T.cleaned]
    /\ T.cleaned \in Nat
    /\ DOMAIN T.entries \subseteq I
    /\ \A k \in DOMAIN T.entries : T.entries[k].expiry \in Nat
    /\ IsFiniteSet(DOMAIN T.entries)
    /\ Cardinality(DOMAIN T.entries) <= MaxPending

\* Keys are numbered in the order they are issued.
Numbered(I) == \E n \in Nat : I = 1..n

TablesInv ==
    /\ now \in Nat
    /\ DOMAIN table = Tables /\ DOMAIN issued = Tables
    /\ \A t \in Tables : Numbered(issued[t]) /\ TableOK(table[t], issued[t])
    /\ Cardinality(issued["oidc"]) + Cardinality(issued["passkey"]) <= MaxKeys
    /\ accepted \in [Tables -> [1..MaxKeys -> Nat]]

\* Dropping entries keeps a table in order.
LEMMA DropOK ==
    ASSUME NEW T, NEW I, TableOK(T, I), NEW S, NEW c \in Nat
    PROVE  LET D == [entries |-> Without(T.entries, S), cleaned |-> c]
           IN  TableOK(D, I) /\ DOMAIN D.entries = DOMAIN T.entries \ S
<1> DEFINE D == [entries |-> Without(T.entries, S), cleaned |-> c]
<1>1. /\ DOMAIN D.entries = DOMAIN T.entries \ S
      /\ \A k \in DOMAIN D.entries : D.entries[k] = T.entries[k]
  BY DEF Without
<1>2. /\ IsFiniteSet(DOMAIN D.entries)
      /\ Cardinality(DOMAIN D.entries) <= Cardinality(DOMAIN T.entries)
      /\ Cardinality(DOMAIN D.entries) \in Nat
      /\ Cardinality(DOMAIN T.entries) \in Nat
  <2>1. DOMAIN D.entries \subseteq DOMAIN T.entries /\ IsFiniteSet(DOMAIN T.entries)
    BY <1>1 DEF TableOK
  <2>2. QED BY <2>1, FS_Subset, FS_CardinalityType
<1>3. D = [entries |-> D.entries, cleaned |-> D.cleaned] /\ D.cleaned \in Nat
  OBVIOUS
<1> HIDE DEF D
<1>4. TableOK(D, I)
  BY <1>1, <1>2, <1>3, CeremonyAssumption DEF TableOK
<1>5. QED BY <1>1, <1>4 DEF D

\* So does the cleanup, which a full table is always due for.
LEMMA CleanedOK ==
    ASSUME NEW T, NEW I, TableOK(T, I), NEW t \in Nat
    PROVE  /\ TableOK(Cleaned(T, t), I)
           /\ DOMAIN Cleaned(T, t).entries \subseteq DOMAIN T.entries
           /\ ~HasRoom(Cleaned(T, t)) =>
                 LET E == Cleaned(T, t).entries
                 IN  /\ Cardinality(DOMAIN E) = MaxPending
                     /\ \A k \in DOMAIN E : t < E[k].expiry
<1>1. CASE CleanupDue(T, t)
  <2> DEFINE S == {k \in DOMAIN T.entries : t >= T.entries[k].expiry}
  <2>1. Cleaned(T, t) = [entries |-> Without(T.entries, S), cleaned |-> t]
    BY <1>1 DEF Cleaned
  <2>2. /\ TableOK(Cleaned(T, t), I)
        /\ DOMAIN Cleaned(T, t).entries = DOMAIN T.entries \ S
    <3> HIDE DEF S
    <3>1. QED BY <2>1, DropOK
  <2>3. \A k \in DOMAIN T.entries \ S :
            /\ Cleaned(T, t).entries[k] = T.entries[k]
            /\ t < T.entries[k].expiry
    BY <2>1 DEF Without, TableOK
  <2>4. ~HasRoom(Cleaned(T, t)) =>
            Cardinality(DOMAIN Cleaned(T, t).entries) = MaxPending
    <3>1. /\ Cardinality(DOMAIN Cleaned(T, t).entries) <= MaxPending
          /\ Cardinality(DOMAIN Cleaned(T, t).entries) \in Nat
      BY <2>2, FS_CardinalityType DEF TableOK
    <3>2. QED BY <3>1, CeremonyAssumption DEF HasRoom
  <2>5. QED BY <2>2, <2>3, <2>4
<1>2. CASE ~CleanupDue(T, t)
  <2>1. Cleaned(T, t) = T
    BY <1>2 DEF Cleaned
  <2>2. HasRoom(T)
    <3>1. Cardinality(DOMAIN T.entries) \in Nat
      BY FS_CardinalityType DEF TableOK
    <3>2. QED BY <1>2, <3>1, CeremonyAssumption DEF CleanupDue, HasRoom
  <2>3. QED BY <2>1, <2>2
<1>3. QED BY <1>1, <1>2

\* An entry more is within the limit when there is room.
LEMMA AddOK ==
    ASSUME NEW T, NEW I, TableOK(T, I), HasRoom(T), NEW k, NEW e,
           e.expiry \in Nat
    PROVE  LET A == [T EXCEPT !.entries = With(@, k, e)]
           IN  TableOK(A, I \cup {k}) /\ DOMAIN A.entries = DOMAIN T.entries \cup {k}
<1> DEFINE A == [T EXCEPT !.entries = With(@, k, e)]
<1>1. A = [entries |-> With(T.entries, k, e), cleaned |-> T.cleaned]
  BY DEF TableOK
<1>2. /\ DOMAIN A.entries = DOMAIN T.entries \cup {k}
      /\ \A x \in DOMAIN A.entries : A.entries[x].expiry \in Nat
      /\ A = [entries |-> A.entries, cleaned |-> A.cleaned]
      /\ A.cleaned \in Nat
  BY <1>1 DEF TableOK, With
<1>3. Cardinality(DOMAIN T.entries) \in Nat /\ IsFiniteSet(DOMAIN T.entries)
  BY FS_CardinalityType DEF TableOK
<1>4. /\ IsFiniteSet(DOMAIN T.entries \cup {k})
      /\ Cardinality(DOMAIN T.entries \cup {k}) <= MaxPending
  <2>1. CASE k \in DOMAIN T.entries
    <3>1. DOMAIN T.entries \cup {k} = DOMAIN T.entries
      BY <2>1
    <3>2. QED BY <1>3, <3>1 DEF TableOK
  <2>2. CASE k \notin DOMAIN T.entries
    <3>1. /\ IsFiniteSet(DOMAIN T.entries \cup {k})
          /\ Cardinality(DOMAIN T.entries \cup {k}) = Cardinality(DOMAIN T.entries) + 1
      BY <1>3, <2>2, FS_AddElement
    <3>2. QED BY <1>3, <3>1, CeremonyAssumption DEF HasRoom
  <2>3. QED BY <2>1, <2>2
<1> HIDE DEF A
<1>5. TableOK(A, I \cup {k})
  BY <1>2, <1>4 DEF TableOK
<1>6. QED BY <1>2, <1>5 DEF A

\* The key a ceremony gets is new.
LEMMA NextKey ==
    ASSUME NEW I, Numbered(I)
    PROVE  /\ Cardinality(I) \in Nat
           /\ I = 1..Cardinality(I)
           /\ Cardinality(I) + 1 \notin I
           /\ Numbered(I \cup {Cardinality(I) + 1})
           /\ Cardinality(I \cup {Cardinality(I) + 1}) = Cardinality(I) + 1
<1>1. PICK n \in Nat : I = 1..n
  BY DEF Numbered
<1>2. Cardinality(I) = n
  BY <1>1, FS_Interval
<1>3. I \cup {n + 1} = 1..(n + 1)
  BY <1>1
<1>4. Cardinality(1..(n + 1)) = n + 1
  BY FS_Interval
<1>5. Numbered(1..(n + 1)) /\ n + 1 \notin 1..n
  BY DEF Numbered
<1>6. QED BY <1>1, <1>2, <1>3, <1>4, <1>5

\* A key is between the first and the last.
LEMMA KeyInRange ==
    ASSUME TablesInv, NEW t \in Tables
    PROVE  issued[t] \in SUBSET (1..MaxKeys)
<1>1. /\ issued["oidc"] = 1..Cardinality(issued["oidc"])
      /\ issued["passkey"] = 1..Cardinality(issued["passkey"])
      /\ Cardinality(issued["oidc"]) \in Nat
      /\ Cardinality(issued["passkey"]) \in Nat
  BY NextKey DEF TablesInv, Tables
<1>2. /\ Cardinality(issued["oidc"]) <= MaxKeys
      /\ Cardinality(issued["passkey"]) <= MaxKeys
  BY <1>1, CeremonyAssumption DEF TablesInv
<1>3. QED BY <1>1, <1>2, CeremonyAssumption DEF Tables

-----------------------------------------------------------------------------
(* Steps of a table *)

\* What a step may do to the entries, the keys issued and the keys accepted.
TableStep(t) ==
    \/ Entries(t)' = Entries(t) /\ issued'[t] = issued[t] /\ accepted'[t] = accepted[t]
    \/ \E New \in SUBSET ((1..MaxKeys) \ issued[t]), Old \in SUBSET Entries(t) :
          /\ Entries(t)' = (Entries(t) \ Old) \cup New
          /\ issued'[t] = issued[t] \cup New
          /\ accepted'[t] = accepted[t]
    \/ \E k \in Entries(t) :
          /\ Entries(t)' = Entries(t) \ {k}
          /\ issued'[t] = issued[t]
          /\ accepted'[t] = [accepted[t] EXCEPT ![k] = @ + 1]

\* What a step that refuses a ceremony leaves.
RefusedBusy ==
    refused' # "none" =>
        LET E == table'[refused'].entries
        IN  /\ Cardinality(DOMAIN E) = MaxPending
            /\ \A k \in DOMAIN E : now < E[k].expiry

\* A ceremony that begins gets a key nobody had, or is refused by a table that
\* is full of entries that can still be taken.
LEMMA StoreStep ==
    ASSUME TablesInv, NEW t \in Tables, NEW e, e.expiry \in Nat,
           StorePending(t, e), UNCHANGED <<now, accepted>>
    PROVE  /\ TablesInv'
           /\ \A u \in Tables : TableStep(u)
           /\ RefusedBusy
<1> DEFINE T == Cleaned(table[t], now)
           k == Cardinality(issued[t]) + 1
<1>1. /\ now \in Nat /\ TableOK(table[t], issued[t]) /\ Numbered(issued[t])
      /\ DOMAIN table = Tables /\ DOMAIN issued = Tables
  BY DEF TablesInv
<1>2. /\ TableOK(T, issued[t]) /\ DOMAIN T.entries \subseteq Entries(t)
      /\ ~HasRoom(T) => /\ Cardinality(DOMAIN T.entries) = MaxPending
                        /\ \A x \in DOMAIN T.entries : now < T.entries[x].expiry
  BY <1>1, CleanedOK DEF Entries
<1>3. Cardinality(issued["oidc"]) + Cardinality(issued["passkey"]) < MaxKeys
  BY DEF StorePending
<1>4. /\ \A u \in Tables \ {t} : Entries(u)' = Entries(u)
      /\ \A u \in Tables \ {t} : table'[u] = table[u] /\ issued'[u] = issued[u]
      /\ DOMAIN table' = Tables /\ DOMAIN issued' = Tables
  BY <1>1 DEF StorePending, Entries
<1>5. \A u \in Tables \ {t} : TableStep(u)
  BY <1>4 DEF TableStep
<1>6. CASE /\ HasRoom(T)
           /\ table' = [table EXCEPT ![t] = [T EXCEPT !.entries = With(@, k, e)]]
           /\ issued' = [issued EXCEPT ![t] = @ \cup {k}]
           /\ refused' = "none"
  <2>1. /\ table'[t] = [T EXCEPT !.entries = With(@, k, e)]
        /\ issued'[t] = issued[t] \cup {k}
    BY <1>1, <1>6
  <2>2. /\ TableOK([T EXCEPT !.entries = With(@, k, e)], issued[t] \cup {k})
        /\ DOMAIN [T EXCEPT !.entries = With(@, k, e)].entries
              = DOMAIN T.entries \cup {k}
    <3> HIDE DEF T, k
    <3>1. QED BY <1>2, <1>6, AddOK
  <2>3. /\ Cardinality(issued[t]) \in Nat
        /\ k \notin issued[t] /\ Numbered(issued[t] \cup {k})
        /\ Cardinality(issued[t] \cup {k}) = Cardinality(issued[t]) + 1
    BY <1>1, NextKey
  <2>4. \A u \in Tables : Cardinality(issued[u]) \in Nat
    BY NextKey DEF TablesInv
  <2>5. Cardinality(issued'["oidc"]) + Cardinality(issued'["passkey"]) <= MaxKeys
    BY <1>3, <1>4, <2>1, <2>3, <2>4, CeremonyAssumption DEF Tables
  <2>6. TablesInv'
    BY <1>4, <2>1, <2>2, <2>3, <2>5 DEF TablesInv
  <2>7. k \in 1..MaxKeys
    BY <1>3, <2>4, CeremonyAssumption DEF Tables
  <2>8. TableStep(t)
    <3> DEFINE Old == Entries(t) \ DOMAIN T.entries
    <3>1. Entries(t)' = DOMAIN T.entries \cup {k}
      BY <2>1, <2>2 DEF Entries
    <3> HIDE DEF T, k
    <3>2. Entries(t)' = (Entries(t) \ Old) \cup {k}
      BY <1>2, <3>1
    <3>3. {k} \in SUBSET ((1..MaxKeys) \ issued[t]) /\ Old \in SUBSET Entries(t)
      BY <2>3, <2>7
    <3>4. accepted'[t] = accepted[t]
      OBVIOUS
    <3> HIDE DEF Old
    <3>5. QED BY <2>1, <3>2, <3>3, <3>4 DEF TableStep
  <2>9. QED BY <1>5, <1>6, <2>6, <2>8 DEF RefusedBusy
<1>7. CASE /\ ~HasRoom(T)
           /\ table' = [table EXCEPT ![t] = T]
           /\ refused' = t
           /\ UNCHANGED issued
  <2>1. table'[t] = T
    BY <1>1, <1>7
  <2>2. TablesInv'
    BY <1>1, <1>2, <1>4, <1>7, <2>1 DEF TablesInv
  <2>3. TableStep(t)
    <3> DEFINE Old == Entries(t) \ DOMAIN T.entries
    <3>1. Entries(t)' = DOMAIN T.entries
      BY <2>1 DEF Entries
    <3> HIDE DEF T
    <3>2. /\ Entries(t)' = (Entries(t) \ Old) \cup {}
          /\ Old \in SUBSET Entries(t)
          /\ issued'[t] = issued[t] \cup {}
      BY <1>2, <1>7, <3>1
    <3>3. {} \in SUBSET ((1..MaxKeys) \ issued[t]) /\ accepted'[t] = accepted[t]
      OBVIOUS
    <3> HIDE DEF Old
    <3>4. QED BY <3>2, <3>3 DEF TableStep
  <2>4. RefusedBusy
    BY <1>2, <1>7, <2>1 DEF RefusedBusy
  <2>5. QED BY <1>5, <2>2, <2>3, <2>4
<1>8. QED BY <1>6, <1>7 DEF StorePending

\* A key is taken out, and is accepted when it is in time.
LEMMA TakeStep ==
    ASSUME TablesInv, NEW t \in Tables, NEW k, TakePending(t, k),
           UNCHANGED <<now, issued>>
    PROVE  TablesInv' /\ \A u \in Tables : TableStep(u)
<1> DEFINE D == [entries |-> Without(table[t].entries, {k}),
                 cleaned |-> table[t].cleaned]
<1>1. /\ TableOK(table[t], issued[t]) /\ DOMAIN table = Tables
      /\ k \in Entries(t) /\ k \in 1..MaxKeys
      /\ accepted \in [Tables -> [1..MaxKeys -> Nat]]
  BY KeyInRange DEF TablesInv, TakePending, Entries, TableOK
<1>2. /\ table'[t] = D
      /\ \A u \in Tables \ {t} : table'[u] = table[u]
      /\ DOMAIN table' = Tables
  BY <1>1 DEF TakePending, TableOK
<1>3. TableOK(D, issued[t]) /\ DOMAIN D.entries = Entries(t) \ {k}
  <2>1. table[t].cleaned \in Nat
    BY <1>1 DEF TableOK
  <2>2. QED BY <1>1, <2>1, DropOK DEF Entries
<1> HIDE DEF D
<1>4. /\ accepted' \in [Tables -> [1..MaxKeys -> Nat]]
      /\ \A u \in Tables \ {t} : accepted'[u] = accepted[u]
      /\ accepted'[t] = accepted[t]
            \/ accepted'[t] = [accepted[t] EXCEPT ![k] = @ + 1]
  <2>1. accepted' = [accepted EXCEPT ![t][k] = IF InTime(t, k) THEN @ + 1 ELSE @]
    BY DEF TakePending
  <2>2. accepted'[t] = [accepted[t] EXCEPT ![k] = IF InTime(t, k) THEN @ + 1 ELSE @]
    BY <1>1, <2>1
  <2>3. [accepted[t] EXCEPT ![k] = @] = accepted[t]
    BY <1>1
  <2>4. \A u \in Tables \ {t} : accepted'[u] = accepted[u]
    BY <1>1, <2>1
  <2>5. CASE InTime(t, k)
    <3>1. accepted'[t] = [accepted[t] EXCEPT ![k] = @ + 1]
      BY <2>2, <2>5
    <3>2. [accepted[t] EXCEPT ![k] = @ + 1] \in [1..MaxKeys -> Nat]
      <4>1. \A f \in [1..MaxKeys -> Nat] :
                [f EXCEPT ![k] = @ + 1] \in [1..MaxKeys -> Nat]
        BY <1>1
      <4>2. accepted[t] \in [1..MaxKeys -> Nat]
        BY <1>1
      <4>3. QED BY <4>1, <4>2
    <3>3. QED BY <1>1, <2>1, <2>4, <3>1, <3>2
  <2>6. CASE ~InTime(t, k)
    <3>1. accepted'[t] = accepted[t]
      BY <2>2, <2>3, <2>6
    <3>2. QED BY <1>1, <2>1, <2>4, <3>1
  <2>7. QED BY <2>5, <2>6
<1>5. TablesInv'
  BY <1>2, <1>3, <1>4 DEF TablesInv
<1>6. \A u \in Tables \ {t} : TableStep(u)
  BY <1>2, <1>4 DEF TableStep, Entries
<1>7. TableStep(t)
  <2>1. Entries(t)' = Entries(t) \ {k} /\ issued'[t] = issued[t]
    BY <1>2, <1>3 DEF Entries
  <2>2. CASE accepted'[t] = [accepted[t] EXCEPT ![k] = @ + 1]
    BY <1>1, <2>1, <2>2 DEF TableStep
  <2>3. CASE accepted'[t] = accepted[t]
    <3>1. /\ Entries(t)' = (Entries(t) \ {k}) \cup {}
          /\ issued'[t] = issued[t] \cup {}
          /\ {k} \in SUBSET Entries(t)
          /\ {} \in SUBSET ((1..MaxKeys) \ issued[t])
      BY <1>1, <2>1
    <3>2. QED BY <2>3, <3>1 DEF TableStep
  <2>4. QED BY <1>4, <2>2, <2>3
<1>8. QED BY <1>5, <1>6, <1>7

\* A restart drops every entry.
LEMMA DropAllStep ==
    ASSUME TablesInv, Restart
    PROVE  TablesInv' /\ \A u \in Tables : TableStep(u)
<1>1. /\ DOMAIN table' = Tables /\ UNCHANGED <<now, issued, accepted>>
      /\ \A t \in Tables : table'[t] = [entries |-> <<>>, cleaned |-> 0]
  BY DEF Restart
<1>2. \A t \in Tables : Entries(t)' = {}
  BY <1>1 DEF Entries
<1>3. \A t \in Tables : TableOK(table'[t], issued[t])
  BY <1>1, FS_EmptySet, CeremonyAssumption DEF TableOK
<1>4. TablesInv'
  BY <1>1, <1>3 DEF TablesInv
<1>5. ASSUME NEW t \in Tables PROVE TableStep(t)
  <2>1. /\ Entries(t)' = (Entries(t) \ Entries(t)) \cup {}
        /\ Entries(t) \in SUBSET Entries(t)
        /\ issued'[t] = issued[t] \cup {}
        /\ {} \in SUBSET ((1..MaxKeys) \ issued[t])
        /\ accepted'[t] = accepted[t]
    BY <1>1, <1>2
  <2>2. QED BY <2>1 DEF TableStep
<1>6. QED BY <1>4, <1>5

\* Whatever the step, a table is used as a table of vouchers, and refuses only
\* while it is full of entries that can still be taken.
LEMMA TablesStep ==
    ASSUME TablesInv, [Next]_vars
    PROVE  /\ TablesInv'
           /\ \A t \in Tables : TableStep(t)
           /\ RefusedBusy \/ UNCHANGED vars
<1> DEFINE Goal ==
        /\ TablesInv'
        /\ \A t \in Tables : TableStep(t)
        /\ RefusedBusy \/ UNCHANGED vars
<1>1. now \in Nat
  BY DEF TablesInv
<1>2. ASSUME NEW t \in Tables, NEW e, e.expiry \in Nat, StorePending(t, e),
             UNCHANGED <<now, accepted>>
      PROVE  Goal
  BY <1>2, StoreStep
<1>3. ASSUME NEW t \in Tables, NEW k, TakePending(t, k), UNCHANGED <<now, issued>>
      PROVE  Goal
  <2>1. refused' = "none"
    BY <1>3 DEF TakePending
  <2>2. QED BY <1>3, <2>1, TakeStep DEF RefusedBusy
<1>4. ASSUME UNCHANGED <<table, issued, accepted>>, now' \in Nat,
             refused' = "none" \/ UNCHANGED vars
      PROVE  Goal
  <2>1. TablesInv'
    BY <1>4 DEF TablesInv
  <2>2. \A t \in Tables : TableStep(t)
    BY <1>4 DEF TableStep, Entries
  <2>3. QED BY <1>4, <2>1, <2>2 DEF RefusedBusy
<1>5. CASE BeginOIDC
  <2>1. now + OidcLife \in Nat
    BY <1>1, CeremonyAssumption
  <2>2. QED BY <1>2, <1>5, <2>1 DEF BeginOIDC, StoreOIDCPending, Tables
<1>6. now + PasskeyLife \in Nat
  BY <1>1, CeremonyAssumption
<1>7. ASSUME NEW n \in Names, BeginRegistration(n) PROVE Goal
  BY <1>2, <1>6, <1>7 DEF BeginRegistration, StorePasskeyPending, Tables
<1>8. ASSUME NEW n \in Names, BeginPasskeyLogin(n) PROVE Goal
  BY <1>2, <1>6, <1>8 DEF BeginPasskeyLogin, StorePasskeyPending, Tables
<1>9. ASSUME NEW r \in Requests, NEW k \in 1..MaxKeys, TakeOIDC(r, k) PROVE Goal
  BY <1>3, <1>9 DEF TakeOIDC, TakeOIDCPending, Tables
<1>10. ASSUME NEW r \in Requests, NEW k \in 1..MaxKeys, NEW n \in Names \cup {0},
              TakePasskey(r, k, n)
       PROVE  Goal
  BY <1>3, <1>10 DEF TakePasskey, TakePasskeyPending, Tables
<1>11. ASSUME NEW r \in Requests,
              \/ FinishOIDC(r) \/ LoadWebUser(r) \/ FinishRegistration(r)
              \/ VerifyLogin(r) \/ RereadRows(r) \/ FinishPasskeyLogin(r)
       PROVE  Goal
  <2>1. UNCHANGED <<table, issued, accepted, now>> /\ refused' = "none"
    BY <1>11 DEF FinishOIDC, LoadWebUser, FinishRegistration, VerifyLogin,
                 RereadRows, FinishPasskeyLogin
  <2>2. QED BY <1>1, <1>4, <2>1
<1>12. CASE \/ \E n \in Names, c \in Creds : DeletePasskey(n, c)
            \/ \E i \in Ids : Rename(i)
            \/ \E t \in Tables : Switch(t)
            \/ Tick \/ UNCHANGED vars
  <2>1. /\ UNCHANGED <<table, issued, accepted>> /\ now' \in {now, now + 1}
        /\ refused' = "none" \/ UNCHANGED vars
    BY <1>12 DEF DeletePasskey, Rename, Switch, Tick, vars
  <2>2. QED BY <1>1, <1>4, <2>1
<1>13. CASE Restart
  <2>1. refused' = "none"
    BY <1>13 DEF Restart
  <2>2. QED BY <1>13, <2>1, DropAllStep DEF RefusedBusy
<1>14. QED BY <1>5, <1>7, <1>8, <1>9, <1>10, <1>11, <1>12, <1>13 DEF Next

\* Initially the tables are empty.
LEMMA TablesInit == Init => TablesInv
<1>1. SUFFICES ASSUME Init PROVE TablesInv
  OBVIOUS
<1>2. \A t \in Tables : /\ table[t] = [entries |-> <<>>, cleaned |-> 0]
                        /\ issued[t] = {}
  BY <1>1 DEF Init
<1>3. \A t \in Tables : TableOK(table[t], issued[t])
  BY <1>2, FS_EmptySet, CeremonyAssumption DEF TableOK
<1>4. Numbered({}) /\ Cardinality({}) = 0
  <2>1. {} = 1..0
    OBVIOUS
  <2>2. QED BY <2>1, FS_EmptySet DEF Numbered
<1>5. QED
  BY <1>1, <1>2, <1>3, <1>4, CeremonyAssumption DEF Init, TablesInv, Tables

\* The tables of pending ceremonies are in order in every reachable state.
THEOREM TablesInOrder == Spec => []TablesInv
<1>1. TablesInv /\ [Next]_vars => TablesInv'
  BY TablesStep
<1>2. QED BY <1>1, TablesInit, PTL DEF Spec

\* Neither table ever holds more than maxPendingAuthSessions entries, for any
\* number of ceremonies, lifetimes and restarts (storeOIDCPending,
\* storePasskeyPending).
THEOREM BoundedPending == Spec => []PendingBounded
<1>1. TablesInv => PendingBounded
  BY DEF TablesInv, TableOK, PendingBounded
<1>2. QED BY <1>1, TablesInOrder, PTL

\* A ceremony is refused only while its table is full of ceremonies that can
\* still be finished: a full table is always cleaned first.
THEOREM RefusalsJustified == Spec => RefusedOnlyWhenBusy
<1>1. TablesInv /\ [Next]_vars => [RefusedBusy]_vars
  BY TablesStep
<1>2. QED BY <1>1, TablesInOrder, PTL DEF Spec, RefusedOnlyWhenBusy, RefusedBusy

-----------------------------------------------------------------------------
(* Vouchers *)

\* What a table does is what a set of single-use vouchers may do.
LEMMA TableVouchers ==
    ASSUME TablesInv, TablesInv', NEW t \in Tables, TableStep(t)
    PROVE  LET live == Entries(t)
               spent == issued[t] \ Entries(t)
           IN  \/ UNCHANGED <<live, spent, accepted[t]>>
               \/ \E New \in SUBSET ((1..MaxKeys) \ (live \cup spent)),
                     Old \in SUBSET live :
                     /\ live' = (live \ Old) \cup New
                     /\ spent' = spent \cup Old
                     /\ UNCHANGED accepted[t]
               \/ \E v \in live :
                     /\ live' = live \ {v}
                     /\ spent' = spent \cup {v}
                     /\ accepted[t]' = [accepted[t] EXCEPT ![v] = @ + 1]
<1>1. Entries(t) \subseteq issued[t]
  BY DEF TablesInv, TableOK, Entries
<1>2. CASE /\ Entries(t)' = Entries(t) /\ issued'[t] = issued[t]
           /\ accepted'[t] = accepted[t]
  BY <1>2
<1>3. ASSUME NEW New \in SUBSET ((1..MaxKeys) \ issued[t]),
             NEW Old \in SUBSET Entries(t),
             Entries(t)' = (Entries(t) \ Old) \cup New,
             issued'[t] = issued[t] \cup New, accepted'[t] = accepted[t]
      PROVE  /\ New \in SUBSET ((1..MaxKeys)
                                  \ (Entries(t) \cup (issued[t] \ Entries(t))))
             /\ (issued[t] \ Entries(t))' = (issued[t] \ Entries(t)) \cup Old
  BY <1>1, <1>3
<1>4. ASSUME NEW k \in Entries(t), Entries(t)' = Entries(t) \ {k},
             issued'[t] = issued[t]
      PROVE  (issued[t] \ Entries(t))' = (issued[t] \ Entries(t)) \cup {k}
  BY <1>1, <1>4
<1>5. CASE \E New \in SUBSET ((1..MaxKeys) \ issued[t]), Old \in SUBSET Entries(t) :
              /\ Entries(t)' = (Entries(t) \ Old) \cup New
              /\ issued'[t] = issued[t] \cup New
              /\ accepted'[t] = accepted[t]
  BY <1>3, <1>5
<1>6. CASE \E k \in Entries(t) :
              /\ Entries(t)' = Entries(t) \ {k}
              /\ issued'[t] = issued[t]
              /\ accepted'[t] = [accepted[t] EXCEPT ![k] = @ + 1]
  BY <1>4, <1>6
<1>7. QED BY <1>2, <1>5, <1>6 DEF TableStep

\* OIDC logins and passkey ceremonies are single-use vouchers: however requests,
\* cleanups and restarts interleave, a state or session is accepted at most
\* once, and never after it was dropped.
THEOREM CeremoniesOnce == Spec => CeremoniesSingleUse
<1>1. Init => OidcVouchers!Init /\ PasskeyVouchers!Init
  BY DEF Init, OidcVouchers!Init, PasskeyVouchers!Init, Tables
<1>2. ASSUME TablesInv, TablesInv', [Next]_vars
      PROVE  [OidcVouchers!Next]_<<DOMAIN table["oidc"].entries,
                 issued["oidc"] \ DOMAIN table["oidc"].entries, accepted["oidc"]>>
  <2>1. TableStep("oidc")
    BY <1>2, TablesStep DEF Tables
  <2>2. QED
    BY <1>2, <2>1, TableVouchers
       DEF OidcVouchers!Next, OidcVouchers!Turnover, OidcVouchers!Accept, Entries,
           Tables
<1>3. ASSUME TablesInv, TablesInv', [Next]_vars
      PROVE  [PasskeyVouchers!Next]_<<DOMAIN table["passkey"].entries,
                 issued["passkey"] \ DOMAIN table["passkey"].entries,
                 accepted["passkey"]>>
  <2>1. TableStep("passkey")
    BY <1>3, TablesStep DEF Tables
  <2>2. QED
    BY <1>3, <2>1, TableVouchers
       DEF PasskeyVouchers!Next, PasskeyVouchers!Turnover, PasskeyVouchers!Accept,
           Entries, Tables
<1>4. QED
  BY <1>1, <1>2, <1>3, TablesInOrder, PTL
     DEF Spec, CeremoniesSingleUse, OidcVouchers!Spec, PasskeyVouchers!Spec

-----------------------------------------------------------------------------
(* Deleted passkeys *)

\* A deleted passkey has no row, and what a login remembers of the passkeys
\* deleted before it verified is still deleted.
GoneInv ==
    /\ DOMAIN req = Requests
    /\ DOMAIN owner \cap gone = {}
    /\ \A r \in Requests : req[r].pc \in {"reread", "stamp"} =>
          /\ req[r] = [pc |-> req[r].pc, user |-> req[r].user, id |-> req[r].id,
                       cred |-> req[r].cred, gone |-> req[r].gone]
          /\ req[r].gone \subseteq gone
    /\ DeletedPasskeyRefused

\* Steps of requests that are not past the verification.
LEMMA EarlyStep ==
    ASSUME GoneInv, NEW r \in Requests, NEW x, req' = [req EXCEPT ![r] = x],
           x.pc \notin {"reread", "stamp"},
           DOMAIN owner' \cap gone' = {}, gone \subseteq gone'
    PROVE  GoneInv'
<1>1. /\ DOMAIN req' = Requests /\ req'[r] = x
      /\ \A q \in Requests \ {r} : req'[q] = req[q]
  BY DEF GoneInv
<1>2. QED BY <1>1 DEF GoneInv, DeletedPasskeyRefused

\* Every step keeps it: the row is looked up after the signature was verified.
LEMMA GoneStep ==
    ASSUME GoneInv, [Next]_vars
    PROVE  GoneInv'
<1>1. DOMAIN req = Requests /\ DOMAIN owner \cap gone = {}
  BY DEF GoneInv
<1>2. Idle.pc = "idle"
  BY DEF Idle
<1>3. ASSUME NEW r \in Requests, NEW x, req' = [req EXCEPT ![r] = x],
             x.pc \notin {"reread", "stamp"}, UNCHANGED <<owner, gone>>
      PROVE  GoneInv'
  BY <1>1, <1>3, EarlyStep
<1>4. ASSUME NEW r \in Requests, NEW k, TakeOIDC(r, k)
      PROVE  GoneInv'
  <2> DEFINE x == IF InTime("oidc", k) THEN [pc |-> "exchange"] ELSE Idle
  <2>1. /\ x.pc \notin {"reread", "stamp"} /\ req' = [req EXCEPT ![r] = x]
        /\ UNCHANGED <<owner, gone>>
    BY <1>2, <1>4 DEF TakeOIDC
  <2>2. QED BY <1>3, <2>1
<1>5. ASSUME NEW r \in Requests, NEW k, NEW n, TakePasskey(r, k, n)
      PROVE  GoneInv'
  <2> DEFINE e == table["passkey"].entries[k]
             x == IF InTime("passkey", k) /\ n \in {0, e.user}
                  THEN [pc |-> "load", user |-> e.user, allow |-> e.allow,
                        register |-> n # 0]
                  ELSE Idle
  <2>1. /\ x.pc \notin {"reread", "stamp"} /\ req' = [req EXCEPT ![r] = x]
        /\ UNCHANGED <<owner, gone>>
    BY <1>2, <1>5 DEF TakePasskey
  <2>2. QED BY <1>3, <2>1
<1>6. ASSUME NEW r \in Requests, End(r), UNCHANGED <<owner, gone>>
      PROVE  GoneInv'
  BY <1>2, <1>3, <1>6 DEF End
<1>7. ASSUME NEW r \in Requests, FinishOIDC(r) \/ FinishPasskeyLogin(r)
      PROVE  GoneInv'
  BY <1>6, <1>7 DEF FinishOIDC, FinishPasskeyLogin
<1>8. ASSUME NEW r \in Requests, LoadWebUser(r)
      PROVE  GoneInv'
  <2>1. UNCHANGED <<owner, gone>>
    BY <1>8 DEF LoadWebUser
  <2>2. CASE End(r)
    BY <1>6, <2>1, <2>2
  <2>3. CASE \E i \in IdsNamed(req[r].user) :
                req' = [req EXCEPT ![r] =
                           [pc |-> "verify", user |-> @.user, allow |-> @.allow,
                            register |-> @.register, id |-> i,
                            creds |-> CredsOf(i)]]
    BY <1>3, <2>1, <2>3
  <2>4. QED BY <1>8, <2>2, <2>3 DEF LoadWebUser
<1>9. ASSUME NEW r \in Requests, FinishRegistration(r)
      PROVE  GoneInv'
  <2>1. DOMAIN owner' \cap gone = {} /\ gone' = gone
    BY <1>1, <1>9 DEF FinishRegistration, With
  <2>2. req' = [req EXCEPT ![r] = Idle]
    BY <1>9 DEF FinishRegistration, End
  <2>3. QED BY <1>2, <2>1, <2>2, EarlyStep
<1>10. ASSUME NEW r \in Requests, VerifyLogin(r)
       PROVE  GoneInv'
  <2>1. UNCHANGED <<owner, gone>>
    BY <1>10 DEF VerifyLogin
  <2>2. CASE End(r)
    BY <1>6, <2>1, <2>2
  <2>3. ASSUME NEW c, req' = [req EXCEPT ![r] =
                           [pc |-> "reread", user |-> @.user, id |-> @.id,
                            cred |-> c, gone |-> gone]]
        PROVE  GoneInv'
    <3>1. /\ DOMAIN req' = Requests
          /\ req'[r] = [pc |-> "reread", user |-> req[r].user, id |-> req[r].id,
                        cred |-> c, gone |-> gone]
          /\ \A q \in Requests \ {r} : req'[q] = req[q]
      BY <1>1, <2>3
    <3>2. QED BY <2>1, <3>1 DEF GoneInv, DeletedPasskeyRefused
  <2>4. QED BY <1>10, <2>2, <2>3 DEF VerifyLogin
<1>11. ASSUME NEW r \in Requests, RereadRows(r)
       PROVE  GoneInv'
  <2>1. UNCHANGED <<owner, gone>> /\ req[r].pc = "reread"
    BY <1>11 DEF RereadRows
  <2>2. CASE StillRegistered(r)
    <3>1. /\ req[r] = [pc |-> req[r].pc, user |-> req[r].user, id |-> req[r].id,
                       cred |-> req[r].cred, gone |-> req[r].gone]
          /\ req[r].gone \subseteq gone
      BY <2>1 DEF GoneInv
    <3>2. req' = [req EXCEPT ![r] = [req[r] EXCEPT !.pc = "stamp"]]
      BY <1>11, <2>2 DEF RereadRows
    <3>3. [req[r] EXCEPT !.pc = "stamp"]
             = [pc |-> "stamp", user |-> req[r].user, id |-> req[r].id,
                cred |-> req[r].cred, gone |-> req[r].gone]
      BY <3>1
    <3>4. /\ DOMAIN req' = Requests
          /\ req'[r] = [pc |-> "stamp", user |-> req[r].user, id |-> req[r].id,
                        cred |-> req[r].cred, gone |-> req[r].gone]
          /\ \A q \in Requests \ {r} : req'[q] = req[q]
      BY <1>1, <3>2, <3>3
    <3>5. req[r].cred \notin req[r].gone
      BY <1>1, <2>2, <3>1 DEF StillRegistered, CredsOf
    <3>6. QED BY <2>1, <3>1, <3>4, <3>5 DEF GoneInv, DeletedPasskeyRefused
  <2>3. CASE ~StillRegistered(r)
    BY <1>6, <1>11, <2>1, <2>3 DEF RereadRows, End
  <2>4. QED BY <2>2, <2>3
<1>12. ASSUME NEW n, NEW c, DeletePasskey(n, c)
       PROVE  GoneInv'
  <2>1. /\ DOMAIN owner' \cap gone' = {} /\ gone \subseteq gone'
        /\ UNCHANGED req
    BY <1>1, <1>12 DEF DeletePasskey, Without
  <2>2. QED BY <2>1 DEF GoneInv, DeletedPasskeyRefused
<1>13. CASE Restart
  <2>1. /\ UNCHANGED <<owner, gone>> /\ DOMAIN req' = Requests
        /\ \A q \in Requests : req'[q].pc = "idle"
    BY <1>2, <1>13 DEF Restart
  <2>2. QED BY <1>1, <2>1 DEF GoneInv, DeletedPasskeyRefused
<1>14. CASE UNCHANGED <<req, owner, gone>>
  BY <1>14 DEF GoneInv, DeletedPasskeyRefused
<1>15. QED
  BY <1>4, <1>5, <1>7, <1>8, <1>9, <1>10, <1>11, <1>12, <1>13, <1>14
     DEF Next, vars, BeginOIDC, BeginRegistration, BeginPasskeyLogin, Rename,
         Switch, Tick

\* A passkey that was deleted before the signature was verified gives no
\* session, whatever other requests do to the rows meanwhile: FinishPasskeyLogin
\* reads them again.
THEOREM DeletedRefused == Spec => []DeletedPasskeyRefused
<1>1. Init => GoneInv
  BY DEF Init, GoneInv, DeletedPasskeyRefused, Idle
<1>2. GoneInv /\ [Next]_vars => GoneInv'
  BY GoneStep
<1>3. GoneInv => DeletedPasskeyRefused
  BY DEF GoneInv
<1>4. QED BY <1>1, <1>2, <1>3, PTL DEF Spec
=============================================================================
