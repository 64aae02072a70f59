---------------------------- MODULE ObjectsProofs ----------------------------
(***************************************************************************)
(* Proofs about Objects: a running core is the one that the rows describe, *)
(* and what subscriptions offer is what it serves, for any tags, clients,  *)
(* credentials and templates, and any forms that were opened long before.  *)
(***************************************************************************)
EXTENDS Objects, FiniteSetTheorems, TLAPS

-----------------------------------------------------------------------------
(* The inductive invariant *)

InboundFields == {"tag", "type", "tls", "out"}
ClientFields == {"enable", "config", "inbounds", "links"}

InboundRows(d, l) ==
    \A i \in DOMAIN d.inbounds :
        /\ i \in 1 .. l.inbound
        /\ DOMAIN d.inbounds[i] = InboundFields
        /\ d.inbounds[i].tag \in Tags /\ d.inbounds[i].type \in Types
        /\ d.inbounds[i].tls \in {0} \cup DOMAIN d.tls
ClientRows(d, l) ==
    \A c \in DOMAIN d.clients :
        /\ c \in 1 .. l.client
        /\ DOMAIN d.clients[c] = ClientFields
        /\ d.clients[c].inbounds \subseteq 1 .. l.inbound

\* Tables and rows have their fields, rows have ids that were given out, and
\* an inbound uses a template that exists.
Tables(d, l) ==
    /\ DOMAIN d = {"inbounds", "clients", "tls", "services"}
    /\ InboundRows(d, l) /\ ClientRows(d, l)
    /\ DOMAIN d.tls \subseteq 1 .. l.tls
    /\ DOMAIN d.services \subseteq 1 .. l.service

\* A tag names one inbound and one service.
OneTag(d) ==
    \A i, j \in DOMAIN d.inbounds : d.inbounds[i].tag = d.inbounds[j].tag => i = j
OneService(d) ==
    \A s, u \in DOMAIN d.services : d.services[s] = d.services[u] => s = u

\* The local links of a client are those its credentials give for the inbounds
\* it holds, no more and no fewer, but for some clients.
Local(links) == {l \in links : l.type = "local"}
LinksMade(d, others) ==
    \A c \in DOMAIN d.clients \ others :
        Local(d.clients[c].links) =
            LinkGenerator(d, d.clients[c].config, d.clients[c].inbounds)

\* The outbound stored with an inbound is the one of its type and template.
OutsMade(d) ==
    \A i \in DOMAIN d.inbounds :
        d.inbounds[i].type # "direct" =>
            d.inbounds[i].out = [type |-> d.inbounds[i].type,
                                 tls |-> TlsOf(d, d.inbounds[i])]

DbOK(d, l, m) == Tables(d, l) /\ OneTag(d) /\ OneService(d) /\ LinksMade(d, m) /\ OutsMade(d)

\* The listener of an inbound that has not been told of some of its clients.
Heard(d, i, left) ==
    [type |-> d.inbounds[i].type, tls |-> TlsOf(d, d.inbounds[i]),
     users |-> fetchUsers(d, d.inbounds[i].type, {c \in Holders(d, i) : <<c, i>> \notin left})]

\* A core with the services and the listeners of the rows, so far as it was told.
ListensAs(F, d, left) ==
    /\ F = [t \in TagsOf(d, DOMAIN d.inbounds) |-> F[t]]
    /\ \A i \in DOMAIN d.inbounds : F[d.inbounds[i].tag] = Heard(d, i, left)
RunsAs(k, d, left) ==
    /\ k = [in |-> k.in, srv |-> {d.services[s] : s \in DOMAIN d.services}, on |-> TRUE]
    /\ ListensAs(k.in, d, left)

Counters == [inbound : Nat, client : Nat, tls : Nat, service : Nat]
CoreOK == (core = Off /\ leftOut = {}) \/ RunsAs(core, db, leftOut)

Inv == last \in Counters /\ DbOK(db, last, mislinked) /\ CoreOK

-----------------------------------------------------------------------------
(* Links and listeners *)

\* The link of an inbound for some credentials.
LinkOf(d, config, i) ==
    [remark |-> d.inbounds[i].tag, type |-> "local",
     uri |-> [config |-> config, type |-> d.inbounds[i].type, tls |-> TlsOf(d, d.inbounds[i])]]

\* The links of some inbounds are those of each one that exists and has links.
LEMMA LinksAre ==
    ASSUME NEW d, NEW config, NEW ids
    PROVE  \A x : x \in LinkGenerator(d, config, ids) <=>
                    \E i \in ids : /\ i \in DOMAIN d.inbounds
                                   /\ d.inbounds[i].type \in InboundTypeWithLink
                                   /\ x = LinkOf(d, config, i)
<1>1. LinkGenerator(d, config, ids) =
        {LinkOf(d, config, i) : i \in {j \in ids \cap DOMAIN d.inbounds :
                                         d.inbounds[j].type \in InboundTypeWithLink}}
  BY DEF LinkGenerator, LinkOf
<1> QED
  BY <1>1

\* Two databases with the same rows for some inbounds give the same links.
LEMMA SameLinks ==
    ASSUME NEW d, NEW e, NEW config, NEW ids,
           \A i \in ids : /\ i \in DOMAIN d.inbounds <=> i \in DOMAIN e.inbounds
                          /\ i \in DOMAIN d.inbounds =>
                                /\ d.inbounds[i].tag = e.inbounds[i].tag
                                /\ d.inbounds[i].type = e.inbounds[i].type
                                /\ TlsOf(d, d.inbounds[i]) = TlsOf(e, e.inbounds[i])
    PROVE  LinkGenerator(d, config, ids) = LinkGenerator(e, config, ids)
<1>1. \A i \in ids : i \in DOMAIN d.inbounds => LinkOf(d, config, i) = LinkOf(e, config, i)
  BY DEF LinkOf
<1>2. \A x : x \in LinkGenerator(d, config, ids) <=> x \in LinkGenerator(e, config, ids)
  BY <1>1, LinksAre
<1> QED
  BY <1>2 DEF LinkGenerator

\* A list of links splits into the local ones and the others.
LEMMA LocalOf ==
    ASSUME NEW links, NEW made, \A l \in made : l.type = "local"
    PROVE  Local(External(links) \cup made) = made
BY DEF Local, External

\* Where tags are unique, the listener under a tag is that of its inbound.
LEMMA ListenersAre ==
    ASSUME NEW d, OneTag(d), NEW ids
    PROVE  /\ DOMAIN Listeners(d, ids) = TagsOf(d, ids)
           /\ \A i \in ids \cap DOMAIN d.inbounds :
                 /\ d.inbounds[i].tag \in TagsOf(d, ids)
                 /\ Listeners(d, ids)[d.inbounds[i].tag] = Listener(d, i)
<1>1. DOMAIN Listeners(d, ids) = TagsOf(d, ids)
  BY DEF Listeners
<1>2. ASSUME NEW i \in ids \cap DOMAIN d.inbounds
      PROVE  /\ d.inbounds[i].tag \in TagsOf(d, ids)
             /\ Listeners(d, ids)[d.inbounds[i].tag] = Listener(d, i)
  <2> DEFINE t == d.inbounds[i].tag
  <2>1. t \in TagsOf(d, ids)
    BY DEF TagsOf
  <2>2. IdsOf(d, t) = {i}
    BY DEF IdsOf, OneTag
  <2>3. (CHOOSE j \in IdsOf(d, t) : TRUE) = i
    BY <2>2
  <2>4. Listeners(d, ids)[t] = Listener(d, CHOOSE j \in IdsOf(d, t) : TRUE)
    BY <2>1 DEF Listeners
  <2> QED
    BY <2>1, <2>3, <2>4
<1> QED
  BY <1>1, <1>2

\* What makes a function the listeners of all inbounds.
LEMMA ListenersOf ==
    ASSUME NEW d, OneTag(d), NEW F, F = [t \in TagsOf(d, DOMAIN d.inbounds) |-> F[t]],
           \A i \in DOMAIN d.inbounds : F[d.inbounds[i].tag] = Listener(d, i)
    PROVE  F = Listeners(d, DOMAIN d.inbounds)
<1> DEFINE G == Listeners(d, DOMAIN d.inbounds)
           S == TagsOf(d, DOMAIN d.inbounds)
<1>1. G = [t \in S |-> G[t]]
  BY DEF Listeners
<1>2. ASSUME NEW t \in S PROVE F[t] = G[t]
  <2>1. PICK i \in DOMAIN d.inbounds : t = d.inbounds[i].tag
    BY DEF TagsOf
  <2> QED
    BY <2>1, ListenersAre
<1> HIDE DEF G, S
<1>3. F = G
  BY <1>1, <1>2 DEF S
<1> QED
  BY <1>3 DEF G

\* Which clients the core lets in: the users of a listener depend only on who
\* holds the inbound, is enabled, and with which credentials.
Holds(table, c, i) == c \in DOMAIN table /\ table[c].enable /\ i \in table[c].inbounds

\* Such an inbound is listened on in the same way in both tables.
LEMMA SameHeard ==
    ASSUME NEW d, NEW e, NEW i, NEW left, NEW rest,
           d.inbounds[i].type = e.inbounds[i].type,
           TlsOf(d, d.inbounds[i]) = TlsOf(e, e.inbounds[i]),
           \A c : LET known == Holds(d.clients, c, i) /\ <<c, i>> \notin left
                  IN /\ known <=> Holds(e.clients, c, i) /\ <<c, i>> \notin rest
                     /\ known => d.clients[c].config = e.clients[c].config
    PROVE  Heard(d, i, left) = Heard(e, i, rest)
<1> DEFINE type == d.inbounds[i].type
           U(f, m) == {f.clients[c].config :
                          c \in {c \in {c \in Holders(f, i) : <<c, i>> \notin m} \cap DOMAIN f.clients :
                                   HasUsers(type) /\ f.clients[c].enable}}
<1>1. \A x : x \in U(d, left) <=> x \in U(e, rest)
  BY DEF Holders, Holds
<1>2. U(d, left) = U(e, rest)
  BY <1>1
<1>3. /\ fetchUsers(d, type, {c \in Holders(d, i) : <<c, i>> \notin left}) = U(d, left)
      /\ fetchUsers(e, type, {c \in Holders(e, i) : <<c, i>> \notin rest}) = U(e, rest)
  BY DEF fetchUsers
<1> QED
  BY <1>2, <1>3 DEF Heard

\* A listener that was just opened knows all of its clients.
LEMMA JustOpened ==
    ASSUME NEW d, NEW i, NEW left, \A c : <<c, i>> \notin left
    PROVE  Heard(d, i, left) = Listener(d, i)
<1>1. {c \in Holders(d, i) : <<c, i>> \notin left} = Holders(d, i)
  OBVIOUS
<1> QED
  BY <1>1 DEF Heard, Listener

-----------------------------------------------------------------------------
(* Saving *)

\* A core that runs is the one the rows describe.
LEMMA RunningCore ==
    ASSUME Inv, core.on
    PROVE  /\ core.in = [t \in TagsOf(db, DOMAIN db.inbounds) |-> core.in[t]]
           /\ DOMAIN core.in = TagsOf(db, DOMAIN db.inbounds)
           /\ \A i \in DOMAIN db.inbounds : core.in[db.inbounds[i].tag] = Heard(db, i, leftOut)
           /\ core.srv = {db.services[s] : s \in DOMAIN db.services}
           /\ DOMAIN core = {"in", "srv", "on"} /\ core.on = TRUE
<1>1. RunsAs(core, db, leftOut)
  BY DEF Inv, CoreOK, Off
<1>2. /\ core = [in |-> core.in, srv |-> {db.services[s] : s \in DOMAIN db.services}, on |-> TRUE]
      /\ ListensAs(core.in, db, leftOut)
  BY <1>1 DEF RunsAs
<1>3. core.in = [t \in TagsOf(db, DOMAIN db.inbounds) |-> core.in[t]]
  BY <1>2 DEF ListensAs
<1>4. DOMAIN core.in = TagsOf(db, DOMAIN db.inbounds)
  BY <1>3
<1>5. \A i \in DOMAIN db.inbounds : core.in[db.inbounds[i].tag] = Heard(db, i, leftOut)
  BY <1>2 DEF ListensAs
<1> QED
  BY <1>2, <1>3, <1>4, <1>5

\* A core that is off has been told of everything.
LEMMA StoppedCore ==
    ASSUME Inv, ~core.on
    PROVE  leftOut = {}
BY DEF Inv, CoreOK, RunsAs

\* A core that was just started knows every client.
LEMMA JustBuilt ==
    ASSUME NEW d, OneTag(d)
    PROVE  RunsAs(Built(d), d, {})
<1> DEFINE F == Listeners(d, DOMAIN d.inbounds)
<1>1. F = [t \in TagsOf(d, DOMAIN d.inbounds) |-> F[t]]
  BY DEF Listeners
<1>2. \A i \in DOMAIN d.inbounds : F[d.inbounds[i].tag] = Heard(d, i, {})
  BY ListenersAre, JustOpened
<1> HIDE DEF F
<1>3. ListensAs(F, d, {})
  BY <1>1, <1>2 DEF ListensAs
<1>4. Built(d) = [in |-> F, srv |-> {d.services[s] : s \in DOMAIN d.services}, on |-> TRUE]
  BY DEF Built, F
<1> QED
  BY <1>3, <1>4 DEF RunsAs

\* What replaces its listeners or its services leaves the rest.
LEMMA EditedCore ==
    ASSUME Inv, core.on, NEW F
    PROVE  /\ [core EXCEPT !.in = F] = [in |-> F, srv |-> core.srv, on |-> TRUE]
           /\ [core EXCEPT !.srv = F] = [in |-> core.in, srv |-> F, on |-> TRUE]
<1> DEFINE r == [core EXCEPT !.in = F]
           q == [core EXCEPT !.srv = F]
<1>1. DOMAIN core = {"in", "srv", "on"} /\ core.on = TRUE
  BY RunningCore
<1>2. /\ r = [x \in DOMAIN core |-> r[x]] /\ r.in = F /\ r.srv = core.srv /\ r.on = TRUE
      /\ q = [x \in DOMAIN core |-> q[x]] /\ q.in = core.in /\ q.srv = F /\ q.on = TRUE
  BY <1>1
<1> HIDE DEF r, q
<1>3. /\ r = [in |-> F, srv |-> core.srv, on |-> TRUE]
      /\ q = [in |-> core.in, srv |-> F, on |-> TRUE]
  BY <1>1, <1>2
<1> QED
  BY <1>3 DEF r, q

\* A core is made of its listeners and its services.
LEMMA Runs ==
    ASSUME NEW d, NEW left, NEW F, ListensAs(F, d, left), NEW srv,
           srv = {d.services[s] : s \in DOMAIN d.services},
           NEW k, k = [in |-> F, srv |-> srv, on |-> TRUE]
    PROVE  RunsAs(k, d, left)
<1>1. k.in = F
  OBVIOUS
<1>2. ListensAs(k.in, d, left)
  BY <1>1
<1> QED
  BY <1>1, <1>2 DEF RunsAs

\* The core after a save is off or as the rows and what was left out of it say.
LEMMA SameRuns ==
    ASSUME NEW k, NEW d, NEW left, RunsAs(k, d, left), NEW d2, d2 = d
    PROVE  RunsAs(k, d2, left)
OBVIOUS

\* A save keeps the invariant when its rows are right and a running core was
\* told of them but for what is left out.
LEMMA SaveKeeps ==
    ASSUME Inv, NEW d, NEW applied, Save(d, applied), last' \in Counters,
           DbOK(d, last', mislinked'), core.on => RunsAs(applied, d, leftOut'),
           ~core.on => leftOut' = {}
    PROVE  Inv'
<1>1. db' = d
  BY DEF Save
<1>2. (core' = Off /\ leftOut' = {}) \/ RunsAs(core', d, leftOut')
  <2>1. CASE core.on
    BY <2>1 DEF Save
  <2>2. CASE ~core.on
    <3>1. core' = Off \/ core' = Built(d)
      BY <2>2 DEF Save
    <3>2. RunsAs(Built(d), d, {}) /\ leftOut' = {}
      BY <2>2, JustBuilt DEF DbOK
    <3> QED
      BY <3>1, <3>2
  <2> QED
    BY <2>1, <2>2
<1> HIDE DEF Save
<1>3. DbOK(db', last', mislinked')
  BY <1>1
<1>4. (core' = Off /\ leftOut' = {}) \/ RunsAs(core', db', leftOut')
  BY <1>1, <1>2, SameRuns, ZenonT(60)
<1>5. CoreOK'
  BY <1>4 DEF CoreOK, RunsAs, ListensAs, Heard, TagsOf, Holders, fetchUsers, TlsOf
<1> QED
  BY <1>3, <1>5 DEF Inv, DbOK, Tables, InboundRows, ClientRows, OneTag, OneService,
                    LinksMade, OutsMade, LinkGenerator, TlsOf

\* The restart of some listeners is enough when the others stay as they are and
\* nothing is left out of the restarted ones.
LEMMA Restarted ==
    ASSUME Inv, core.on, NEW d, OneTag(d), NEW touched, NEW left,
           DOMAIN d.inbounds = DOMAIN db.inbounds, d.services = db.services,
           \A i \in DOMAIN d.inbounds :
              /\ d.inbounds[i].tag = db.inbounds[i].tag
              /\ i \notin touched => Heard(d, i, left) = Heard(db, i, leftOut)
              /\ i \in touched => \A c : <<c, i>> \notin left
    PROVE  RunsAs(RestartInbounds(d, touched), d, left)
<1> DEFINE F == Over(Listeners(d, touched), core.in)
           S == TagsOf(d, DOMAIN d.inbounds)
<1>1. TagsOf(db, DOMAIN db.inbounds) = S /\ TagsOf(d, touched) \subseteq S
  BY DEF TagsOf
<1>2. DOMAIN core.in = S /\ DOMAIN Listeners(d, touched) = TagsOf(d, touched)
  BY <1>1, RunningCore, ListenersAre
<1>3. F = [t \in S |-> F[t]]
  BY <1>1, <1>2 DEF Over
<1>4. ASSUME NEW i \in DOMAIN d.inbounds PROVE F[d.inbounds[i].tag] = Heard(d, i, left)
  <2>1. d.inbounds[i].tag \in S
    BY DEF TagsOf
  <2>2. CASE i \in touched
    <3>1. d.inbounds[i].tag \in DOMAIN Listeners(d, touched)
      BY <1>2, <2>2 DEF TagsOf
    <3>2. F[d.inbounds[i].tag] = Listeners(d, touched)[d.inbounds[i].tag]
      BY <1>2, <2>1, <3>1 DEF Over
    <3>3. F[d.inbounds[i].tag] = Listener(d, i)
      BY <2>2, <3>2, ListenersAre
    <3>4. \A c : <<c, i>> \notin left
      BY <2>2
    <3> QED
      BY <3>3, <3>4, JustOpened
  <2>3. CASE i \notin touched
    <3>1. d.inbounds[i].tag \notin TagsOf(d, touched)
      BY <2>3 DEF TagsOf, OneTag
    <3>2. F[d.inbounds[i].tag] = core.in[d.inbounds[i].tag]
      BY <1>2, <2>1, <3>1 DEF Over
    <3>3. core.in[db.inbounds[i].tag] = Heard(db, i, leftOut)
      BY RunningCore
    <3> QED
      BY <2>3, <3>2, <3>3
  <2> QED
    BY <2>2, <2>3
<1> HIDE DEF F, S
<1>5. ListensAs(F, d, left)
  <2>1. F = [t \in TagsOf(d, DOMAIN d.inbounds) |-> F[t]]
    BY <1>3 DEF S
  <2> QED
    BY <1>4, <2>1 DEF ListensAs
<1>6. RestartInbounds(d, touched) = [in |-> F, srv |-> core.srv, on |-> TRUE]
  BY EditedCore DEF RestartInbounds, F
<1> QED
  BY <1>5, <1>6, RunningCore, Runs

-----------------------------------------------------------------------------
(* Saves of clients *)

\* A row of a client whose links are those of its credentials and inbounds,
\* unless the client is one of some.
ClientOK(c, row, others) ==
    /\ DOMAIN row = ClientFields
    /\ row.inbounds \subseteq Inbounds
    /\ c \notin others => Local(row.links) = LinkGenerator(db, row.config, row.inbounds)

\* Such are the stored rows ...
LEMMA StoredClients ==
    ASSUME Inv, NEW c \in DOMAIN db.clients
    PROVE  c \in 1 .. last.client /\ ClientOK(c, db.clients[c], mislinked)
BY DEF Inv, DbOK, Tables, InboundRows, ClientRows, LinksMade, ClientOK, Inbounds

\* ... and any form whose links are made anew, from its list or another one.
LEMMA MadeClient ==
    ASSUME NEW form, DOMAIN form = ClientFields, form.inbounds \subseteq Inbounds,
           NEW list, NEW c, NEW others, c \notin others => form.inbounds = list
    PROVE  /\ ClientOK(c, WithLinks(form, list), others)
           /\ WithLinks(form, list).enable = form.enable
           /\ WithLinks(form, list).config = form.config
           /\ WithLinks(form, list).inbounds = form.inbounds
<1>0. \A l \in LinkGenerator(db, form.config, list) : l.type = "local"
  <2> TAKE l \in LinkGenerator(db, form.config, list)
  <2>1. PICK i : l = LinkOf(db, form.config, i)
    BY LinksAre
  <2> QED
    BY <2>1 DEF LinkOf
<1> DEFINE made == LinkGenerator(db, form.config, list)
           row == WithLinks(form, list)
<1>1. /\ DOMAIN row = ClientFields /\ row.enable = form.enable /\ row.config = form.config
      /\ row.inbounds = form.inbounds /\ row.links = External(form.links) \cup made
  BY DEF WithLinks, ClientFields
<1>2. \A l \in made : l.type = "local"
  BY <1>0
<1> HIDE DEF made
<1>3. Local(row.links) = made
  BY <1>1, <1>2, LocalOf
<1> HIDE DEF row
<1>4. ClientOK(c, row, others)
  BY <1>1, <1>3 DEF ClientOK, made
<1> QED
  BY <1>1, <1>4 DEF row

\* An inbound that findInboundsChanges leaves out keeps its users.
LEMMA Untouched ==
    ASSUME NEW old, NEW new, NEW i, i \notin findInboundsChanges(old, new)
    PROVE  /\ old.enable /\ i \in old.inbounds <=> new.enable /\ i \in new.inbounds
           /\ i \in new.inbounds => old.config = new.config
BY DEF findInboundsChanges

\* A save of clients with rows as above, which restarts every inbound whose
\* users change but for those it leaves out.
LEMMA ClientsSaved ==
    ASSUME Inv, NEW table, NEW touched, SaveClients(table, touched),
           last' \in Counters, last'.client >= last.client,
           last'.inbound = last.inbound, last'.tls = last.tls, last'.service = last.service,
           \A c \in DOMAIN table : c \in 1 .. last'.client /\ ClientOK(c, table[c], mislinked'),
           ~core.on => leftOut' = {},
           core.on => \A i \in touched : \A c : <<c, i>> \notin leftOut',
           core.on => \A i \in DOMAIN db.inbounds : i \notin touched =>
              \A c : LET known == Holds(table, c, i) /\ <<c, i>> \notin leftOut'
                     IN /\ known <=> Holds(db.clients, c, i) /\ <<c, i>> \notin leftOut
                        /\ known => table[c].config = db.clients[c].config
    PROVE  Inv'
<1> DEFINE d == [db EXCEPT !.clients = table]
<1>1. /\ DOMAIN d = DOMAIN db /\ d.clients = table /\ d.inbounds = db.inbounds
      /\ d.tls = db.tls /\ d.services = db.services
  BY DEF Inv, DbOK, Tables, InboundRows, ClientRows
<1>2. Save(d, RestartInbounds(d, touched))
  BY DEF SaveClients
<1> HIDE DEF d
<1>3. \A i \in DOMAIN d.inbounds : TlsOf(d, d.inbounds[i]) = TlsOf(db, db.inbounds[i])
  BY <1>1 DEF TlsOf
<1>4. OneTag(d) /\ OneService(d) /\ OutsMade(d)
  BY <1>1, <1>3 DEF Inv, DbOK, OneTag, OneService, OutsMade
<1>5. LinksMade(d, mislinked')
  <2>1. ASSUME NEW c \in DOMAIN d.clients \ mislinked'
        PROVE  Local(d.clients[c].links) =
                   LinkGenerator(d, d.clients[c].config, d.clients[c].inbounds)
    <3>1. Local(d.clients[c].links) =
              LinkGenerator(db, d.clients[c].config, d.clients[c].inbounds)
      BY <1>1 DEF ClientOK
    <3> QED
      BY <1>1, <1>3, <3>1, SameLinks
  <2> QED
    BY <2>1 DEF LinksMade
<1>6. Tables(d, last')
  BY <1>1 DEF Inv, DbOK, Tables, InboundRows, ClientRows, ClientOK, Inbounds
<1>7. ASSUME core.on PROVE RunsAs(RestartInbounds(d, touched), d, leftOut')
  <2>1. \A i \in DOMAIN d.inbounds :
           i \notin touched => Heard(d, i, leftOut') = Heard(db, i, leftOut)
    BY <1>1, <1>3, <1>7, SameHeard
  <2> QED
    BY <1>1, <1>4, <1>7, <2>1, Restarted
<1> QED
  BY <1>2, <1>4, <1>5, <1>6, <1>7, SaveKeeps DEF DbOK

\* After a save that restarts the inbounds it touches, what was left out still
\* concerns the others only.
LEMMA OpenedOnes ==
    ASSUME Inv, NEW touched, Opened(touched)
    PROVE  /\ ~core.on => leftOut' = {}
           /\ \A i \in touched : \A c : <<c, i>> \notin leftOut'
           /\ \A i : i \notin touched => \A c : <<c, i>> \in leftOut' <=> <<c, i>> \in leftOut
<1>1. leftOut' = {p \in leftOut : p[2] \notin touched}
  BY DEF Opened
<1>2. ~core.on => leftOut = {}
  BY StoppedCore
<1> QED
  BY <1>1, <1>2

\* Such a save of clients.
LEMMA OpenedClients ==
    ASSUME Inv, NEW table, NEW touched, SaveClients(table, touched), Opened(touched),
           last' = last,
           \A c \in DOMAIN table : c \in 1 .. last.client /\ ClientOK(c, table[c], mislinked'),
           \A i : i \notin touched =>
              \A c : /\ Holds(table, c, i) <=> Holds(db.clients, c, i)
                     /\ Holds(table, c, i) => table[c].config = db.clients[c].config
    PROVE  Inv'
<1>1. last \in Counters /\ last.client \in Nat
  BY DEF Inv, Counters
<1>2. /\ last' \in Counters /\ last'.client >= last.client
      /\ last'.inbound = last.inbound /\ last'.tls = last.tls /\ last'.service = last.service
  BY <1>1
<1>3. ASSUME NEW i, i \notin touched, NEW c
      PROVE  /\ Holds(table, c, i) /\ <<c, i>> \notin leftOut'
                <=> Holds(db.clients, c, i) /\ <<c, i>> \notin leftOut
             /\ Holds(table, c, i) => table[c].config = db.clients[c].config
  BY <1>3, OpenedOnes
<1> QED
  BY <1>2, <1>3, OpenedOnes, ClientsSaved

\* New clients: those whose list is not that of the first are mislinked and may
\* be left out of what was not restarted.
LEMMA NewClientsKeep ==
    ASSUME Inv, NEW n \in Nat \ {0},
           NEW forms \in [last.client + 1 .. last.client + n -> ClientForms], NewClients(forms),
           \A f \in ClientForms : DOMAIN f = ClientFields /\ f.inbounds \subseteq Inbounds
    PROVE  Inv'
<1> DEFINE m == last.client
           ids == m + 1 .. m + n
           list == forms[m + 1].inbounds
           new == [c \in ids |-> WithLinks(forms[c], list)]
           table == Over(new, db.clients)
<1>0. m \in Nat /\ last \in Counters
  BY DEF Inv, Counters
<1>01. DOMAIN forms = ids /\ m + 1 \in ids /\ Cardinality(ids) = n
  <2>1. m + 1 \in Int /\ m + n \in Int /\ ~(m + 1 > m + n) /\ (m + n) - (m + 1) + 1 = n
    BY <1>0
  <2>2. Cardinality(ids) = (m + n) - (m + 1) + 1
    BY <2>1, FS_Interval
  <2>3. DOMAIN forms = ids
    OBVIOUS
  <2>4. m + 1 \in ids
    BY <1>0
  <2> QED
    BY <2>1, <2>2, <2>3, <2>4
<1>1. /\ last' = [last EXCEPT !.client = m + n] /\ SaveClients(table, list)
      /\ mislinked' = mislinked \cup {c \in ids : forms[c].inbounds # list}
      /\ leftOut' = IF core.on
                    THEN {p \in leftOut : p[2] \notin list}
                         \cup {p \in ids \X Inbounds : p[2] \in forms[p[1]].inbounds \ list}
                    ELSE {}
  BY <1>01 DEF NewClients
<1>2. /\ last' \in Counters /\ last'.client = m + n /\ last'.inbound = last.inbound
      /\ last'.tls = last.tls /\ last'.service = last.service
  <2> DEFINE k == m + n
  <2>1. k \in Nat
    BY <1>0
  <2>2. last' = [last EXCEPT !.client = k]
    BY <1>1
  <2> HIDE DEF k
  <2>3. /\ last' \in Counters /\ last'.client = k /\ last'.inbound = last.inbound
        /\ last'.tls = last.tls /\ last'.service = last.service
    BY <1>0, <2>1, <2>2 DEF Counters
  <2> QED
    BY <2>3 DEF k
<1> HIDE DEF list
<1>3. ASSUME NEW c \in ids
      PROVE  /\ ClientOK(c, new[c], mislinked') /\ new[c].inbounds = forms[c].inbounds
             /\ c \in 1 .. last'.client /\ c \notin DOMAIN db.clients
             /\ forms[c].inbounds \subseteq Inbounds
  <2>1. /\ DOMAIN forms[c] = ClientFields /\ forms[c].inbounds \subseteq Inbounds
        /\ c \notin mislinked' => forms[c].inbounds = list
    BY <1>1
  <2>2. new[c] = WithLinks(forms[c], list)
    OBVIOUS
  <2>3. c \in 1 .. last'.client /\ c \notin 1 .. m
    BY <1>0, <1>2
  <2>4. c \notin DOMAIN db.clients
    BY <2>3, StoredClients
  <2> HIDE DEF new, ids
  <2> QED
    <3>1. ClientOK(c, WithLinks(forms[c], list), mislinked')
      BY <2>1, MadeClient
    <3>2. WithLinks(forms[c], list).inbounds = forms[c].inbounds
      BY <2>1, MadeClient
    <3> QED
      BY <2>1, <2>2, <2>3, <2>4, <3>1, <3>2
<1>4. DOMAIN new = ids
  OBVIOUS
<1> HIDE DEF new, ids
<1>00. table = Over(new, db.clients)
  OBVIOUS
<1> HIDE DEF table
<1>40. /\ DOMAIN table = ids \cup DOMAIN db.clients
       /\ \A c \in ids : table[c] = new[c]
       /\ \A c \in DOMAIN db.clients : c \notin ids => table[c] = db.clients[c]
  BY <1>00, <1>4 DEF Over
<1>5. ASSUME NEW c \in DOMAIN table
      PROVE  c \in 1 .. last'.client /\ ClientOK(c, table[c], mislinked')
  <2>1. CASE c \in ids
    BY <1>3, <1>40, <2>1
  <2>2. CASE c \notin ids
    <3>1. c \in DOMAIN db.clients /\ table[c] = db.clients[c] /\ ClientOK(c, db.clients[c], mislinked)
      BY <1>40, <2>2, StoredClients
    <3>2. c \in 1 .. last'.client
      BY <1>0, <1>2, <3>1, StoredClients
    <3> QED
      BY <1>1, <3>1, <3>2 DEF ClientOK
  <2> QED
    BY <2>1, <2>2
<1>6. ASSUME core.on, NEW i, i \notin list, NEW c
      PROVE  LET known == Holds(table, c, i) /\ <<c, i>> \notin leftOut'
             IN /\ known <=> Holds(db.clients, c, i) /\ <<c, i>> \notin leftOut
                /\ known => table[c].config = db.clients[c].config
  <2>1. <<c, i>> \in leftOut' <=>
           <<c, i>> \in leftOut \/ (c \in ids /\ i \in Inbounds /\ i \in forms[c].inbounds)
    BY <1>1, <1>6
  <2>2. CASE c \in ids
    <3>1. table[c].inbounds = forms[c].inbounds /\ c \notin DOMAIN db.clients
          /\ forms[c].inbounds \subseteq Inbounds
      BY <1>3, <1>40, <2>2
    <3> QED
      BY <2>1, <2>2, <3>1 DEF Holds
  <2>3. CASE c \notin ids
    BY <1>40, <2>1, <2>3 DEF Holds
  <2> QED
    BY <2>2, <2>3
<1>7. ASSUME core.on, NEW i \in list, NEW c PROVE <<c, i>> \notin leftOut'
  BY <1>1, <1>7
<1>8. last'.client >= last.client /\ (~core.on => leftOut' = {})
  BY <1>0, <1>1, <1>2
<1> QED
  BY <1>1, <1>2, <1>5, <1>6, <1>7, <1>8, ClientsSaved

\* An edited client.
LEMMA EditClientKeeps ==
    ASSUME Inv, NEW c, NEW form, EditClient(c, form), DOMAIN form = ClientFields,
           form.inbounds \subseteq Inbounds
    PROVE  Inv'
<1> DEFINE row == WithLinks(form, form.inbounds)
           table == Put(db.clients, c, row)
           touched == findInboundsChanges(db.clients[c], form)
<1>1. /\ c \in DOMAIN db.clients /\ SaveClients(table, touched) /\ last' = last
      /\ Opened(touched) /\ mislinked' = mislinked \ {c}
  BY DEF EditClient
<1>2. /\ ClientOK(c, row, {}) /\ row.enable = form.enable /\ row.config = form.config
      /\ row.inbounds = form.inbounds
  BY MadeClient
<1> HIDE DEF row
<1>3. /\ DOMAIN table = DOMAIN db.clients /\ table[c] = row
      /\ \A k \in DOMAIN db.clients : k # c => table[k] = db.clients[k]
  BY <1>1 DEF Put, Over
<1>4. \A i : i \notin touched =>
        /\ db.clients[c].enable /\ i \in db.clients[c].inbounds <=>
              row.enable /\ i \in row.inbounds
        /\ i \in row.inbounds => db.clients[c].config = row.config
  BY <1>2, Untouched
<1> HIDE DEF table, touched
<1>5. ASSUME NEW k \in DOMAIN table
      PROVE  k \in 1 .. last.client /\ ClientOK(k, table[k], mislinked')
  <2>1. k \in 1 .. last.client /\ ClientOK(k, db.clients[k], mislinked)
    BY <1>3, StoredClients
  <2> QED
    BY <1>1, <1>2, <1>3, <2>1 DEF ClientOK
<1>6. ASSUME NEW i, i \notin touched, NEW k
      PROVE  /\ Holds(table, k, i) <=> Holds(db.clients, k, i)
             /\ Holds(table, k, i) => table[k].config = db.clients[k].config
  BY <1>1, <1>3, <1>4, <1>6 DEF Holds
<1> QED
  BY <1>1, <1>5, <1>6, OpenedClients

\* Several edited at once: an inbound nobody's edit touches keeps its users, and
\* when no inbound is touched the links that stay are those of the same lists.
LEMMA EditClientsKeep ==
    ASSUME Inv, NEW first, NEW enable, NEW list, DOMAIN list \subseteq DOMAIN db.clients,
           \A c \in DOMAIN list : list[c] \subseteq Inbounds, EditClients(first, enable, list)
    PROVE  Inv'
<1> DEFINE ids == DOMAIN list
           new == [c \in ids |->
                     [db.clients[c] EXCEPT !.enable = enable[c], !.inbounds = list[c]]]
           changes(c) == findInboundsChanges(db.clients[c], new[c])
           touched == UNION {changes(c) : c \in ids}
           rows == [c \in ids |-> IF touched = {} THEN new[c] ELSE WithLinks(new[c], list[first])]
           table == Over(rows, db.clients)
<1>1. /\ SaveClients(table, touched) /\ last' = last /\ Opened(touched)
      /\ mislinked' = IF touched = {} THEN mislinked
                      ELSE (mislinked \ ids) \cup {c \in ids : list[c] # list[first]}
  BY DEF EditClients
<1>2. ASSUME NEW c \in ids
      PROVE  /\ DOMAIN new[c] = ClientFields /\ new[c].enable = enable[c]
             /\ new[c].config = db.clients[c].config /\ new[c].inbounds = list[c]
             /\ new[c].links = db.clients[c].links /\ list[c] \subseteq Inbounds
  BY StoredClients DEF ClientOK, ClientFields
<1> HIDE DEF new
<1>3. ASSUME NEW c \in ids
      PROVE  changes(c) \subseteq touched
  OBVIOUS
<1>4. ASSUME NEW c \in ids
      PROVE  /\ ClientOK(c, rows[c], mislinked') /\ rows[c].enable = enable[c]
             /\ rows[c].config = db.clients[c].config /\ rows[c].inbounds = list[c]
  <2>1. CASE touched = {}
    <3>1. rows[c] = new[c] /\ mislinked' = mislinked
      BY <1>1, <2>1
    <3>2. changes(c) = {}
      BY <1>3, <2>1
    <3>3. list[c] = db.clients[c].inbounds
      BY <1>2, <3>2 DEF findInboundsChanges
    <3>4. ClientOK(c, new[c], mislinked)
      BY <1>2, <3>3, StoredClients DEF ClientOK
    <3> HIDE DEF rows, touched
    <3> QED
      BY <1>2, <3>1, <3>4
  <2>2. CASE touched # {}
    <3>1. rows[c] = WithLinks(new[c], list[first])
      BY <2>2
    <3>2. c \notin mislinked' => new[c].inbounds = list[first]
      BY <1>1, <1>2, <2>2
    <3>3. DOMAIN new[c] = ClientFields /\ new[c].inbounds \subseteq Inbounds
      BY <1>2
    <3> HIDE DEF rows, touched, ids
    <3>4. /\ ClientOK(c, WithLinks(new[c], list[first]), mislinked')
          /\ WithLinks(new[c], list[first]).enable = new[c].enable
          /\ WithLinks(new[c], list[first]).config = new[c].config
          /\ WithLinks(new[c], list[first]).inbounds = new[c].inbounds
      BY <3>2, <3>3, MadeClient
    <3> QED
      BY <1>2, <3>1, <3>4
  <2> QED
    BY <2>1, <2>2
<1>5. DOMAIN rows = ids
  OBVIOUS
<1>6. ASSUME NEW c \in ids, NEW i, i \notin touched
      PROVE  /\ db.clients[c].enable /\ i \in db.clients[c].inbounds
                <=> enable[c] /\ i \in list[c]
             /\ i \in list[c] => db.clients[c].config = rows[c].config
  <2>1. i \notin findInboundsChanges(db.clients[c], new[c])
    BY <1>3, <1>6
  <2>2. /\ db.clients[c].enable /\ i \in db.clients[c].inbounds <=>
              new[c].enable /\ i \in new[c].inbounds
        /\ i \in new[c].inbounds => db.clients[c].config = new[c].config
    BY <2>1, Untouched
  <2> HIDE DEF rows
  <2> QED
    BY <1>2, <1>4, <2>2
<1> HIDE DEF rows
<1>7. /\ DOMAIN table = DOMAIN db.clients
      /\ \A c \in ids : table[c] = rows[c]
      /\ \A c \in DOMAIN db.clients : c \notin ids => table[c] = db.clients[c]
  BY <1>5 DEF Over
<1> HIDE DEF table, touched
<1>8. ASSUME NEW c \in DOMAIN table
      PROVE  c \in 1 .. last.client /\ ClientOK(c, table[c], mislinked')
  <2>1. c \in 1 .. last.client /\ ClientOK(c, db.clients[c], mislinked)
    BY <1>7, StoredClients
  <2>2. CASE c \in ids
    BY <1>4, <1>7, <2>1, <2>2
  <2>3. CASE c \notin ids
    <3>1. c \in mislinked => c \in mislinked'
      BY <1>1, <2>3
    <3> QED
      BY <1>7, <2>1, <2>3, <3>1 DEF ClientOK
  <2> QED
    BY <2>2, <2>3
<1>9. ASSUME NEW i, i \notin touched, NEW c
      PROVE  /\ Holds(table, c, i) <=> Holds(db.clients, c, i)
             /\ Holds(table, c, i) => table[c].config = db.clients[c].config
  BY <1>4, <1>6, <1>7, <1>9 DEF Holds
<1> QED
  BY <1>1, <1>8, <1>9, OpenedClients

\* Deleted clients.
LEMMA DeleteClientsKeep ==
    ASSUME Inv, NEW ids \in SUBSET DOMAIN db.clients, DeleteClients(ids)
    PROVE  Inv'
<1> DEFINE table == Without(db.clients, ids)
           touched == UNION {db.clients[c].inbounds : c \in ids}
<1>1. SaveClients(table, touched) /\ last' = last /\ Opened(touched) /\ mislinked' = mislinked \ ids
  BY DEF DeleteClients
<1>2. /\ DOMAIN table = DOMAIN db.clients \ ids
      /\ \A c \in DOMAIN table : table[c] = db.clients[c]
  BY DEF Without, Restrict
<1>3. \A c \in ids : db.clients[c].inbounds \subseteq touched
  OBVIOUS
<1> HIDE DEF table, touched
<1>4. ASSUME NEW c \in DOMAIN table
      PROVE  c \in 1 .. last.client /\ ClientOK(c, table[c], mislinked')
  <2>1. c \in 1 .. last.client /\ ClientOK(c, db.clients[c], mislinked)
    BY <1>2, StoredClients
  <2> QED
    BY <1>1, <1>2, <2>1 DEF ClientOK
<1>5. ASSUME NEW i, i \notin touched, NEW c
      PROVE  /\ Holds(table, c, i) <=> Holds(db.clients, c, i)
             /\ Holds(table, c, i) => table[c].config = db.clients[c].config
  BY <1>2, <1>3, <1>5 DEF Holds
<1> QED
  BY <1>1, <1>4, <1>5, OpenedClients

-----------------------------------------------------------------------------
(* Saves of inbounds *)

\* A form of an inbound.
RowOK(row) ==
    /\ DOMAIN row = InboundFields
    /\ row.tag \in Tags /\ row.type \in Types /\ row.tls \in {0} \cup DOMAIN db.tls

\* The tables with an inbound or with the clients replaced, and the core with
\* a listener closed and another opened.
Stored(i, row) == [db EXCEPT !.inbounds = Put(db.inbounds, i, FillOutJson(db, row))]
WithClients(d, table) == [d EXCEPT !.clients = table]
Reopened(oldTag, tag, listener) ==
    [core EXCEPT !.in = Put(Without(core.in, {oldTag}), tag, listener)]

\* FillOutJson changes nothing but the outbound.
LEMMA Filled ==
    ASSUME NEW d, NEW row, DOMAIN row = InboundFields
    PROVE  /\ DOMAIN FillOutJson(d, row) = InboundFields
           /\ FillOutJson(d, row).tag = row.tag
           /\ FillOutJson(d, row).type = row.type
           /\ FillOutJson(d, row).tls = row.tls
           /\ row.type # "direct" =>
                 FillOutJson(d, row).out = [type |-> row.type, tls |-> TlsOf(d, row)]
<1>1. CASE row.type = "direct"
  BY <1>1 DEF FillOutJson
<1>2. CASE row.type # "direct"
  <2> DEFINE out == [type |-> row.type, tls |-> TlsOf(d, row)]
             r == [row EXCEPT !.out = out]
  <2>1. FillOutJson(d, row) = r
    BY <1>2 DEF FillOutJson
  <2> HIDE DEF out
  <2>2. /\ DOMAIN r = InboundFields /\ r.tag = row.tag /\ r.type = row.type
        /\ r.tls = row.tls /\ r.out = out
    BY DEF InboundFields
  <2> HIDE DEF r
  <2> QED
    BY <2>1, <2>2 DEF out
<1> QED
  BY <1>1, <1>2

\* A row under a tag that no other has, stored, leaves tags unique and every
\* other row, and every outbound, as it should be.
LEMMA RowStored ==
    ASSUME Inv, NEW i, NEW row, RowOK(row), FreeTag(row.tag, i), NEW d, d = Stored(i, row)
    PROVE  /\ DOMAIN d = DOMAIN db /\ d.clients = db.clients
           /\ d.tls = db.tls /\ d.services = db.services
           /\ DOMAIN d.inbounds = {i} \cup DOMAIN db.inbounds
           /\ DOMAIN d.inbounds[i] = InboundFields /\ d.inbounds[i].tag = row.tag
           /\ d.inbounds[i].type = row.type /\ d.inbounds[i].tls = row.tls
           /\ \A j \in DOMAIN db.inbounds : j # i =>
                 d.inbounds[j] = db.inbounds[j] /\ db.inbounds[j].tag # row.tag
           /\ \A r : TlsOf(d, r) = TlsOf(db, r)
           /\ OneTag(d) /\ OneService(d) /\ OutsMade(d)
<1> DEFINE r == FillOutJson(db, row)
           T == Put(db.inbounds, i, r)
<1>1. DOMAIN r = InboundFields /\ r.tag = row.tag /\ r.type = row.type /\ r.tls = row.tls
  BY Filled DEF RowOK
<1>2. row.type # "direct" => r.out = [type |-> row.type, tls |-> TlsOf(db, row)]
  BY Filled DEF RowOK
<1> HIDE DEF r
<1>3. /\ DOMAIN T = {i} \cup DOMAIN db.inbounds /\ T[i] = r
      /\ \A j \in DOMAIN db.inbounds : j # i => T[j] = db.inbounds[j]
  BY DEF Put, Over
<1>4. d = [db EXCEPT !.inbounds = T]
  BY DEF Stored, r
<1> HIDE DEF T
<1>5. /\ DOMAIN d = DOMAIN db /\ d.clients = db.clients /\ d.inbounds = T
      /\ d.tls = db.tls /\ d.services = db.services
  BY <1>4 DEF Inv, DbOK, Tables, InboundRows, ClientRows
<1>6. \A j \in DOMAIN db.inbounds : j # i => db.inbounds[j].tag # row.tag
  BY DEF FreeTag, IdsOf
<1>7. \A x : TlsOf(d, x) = TlsOf(db, x)
  BY <1>5 DEF TlsOf
<1>8. TlsOf(db, r) = TlsOf(db, row)
  BY <1>1 DEF TlsOf
<1>9. OneTag(d)
  BY <1>1, <1>3, <1>5, <1>6 DEF OneTag, Inv, DbOK
<1>10. OneService(d)
  BY <1>5 DEF OneService, Inv, DbOK
<1>11. OutsMade(d)
  BY <1>1, <1>2, <1>3, <1>5, <1>7, <1>8 DEF OutsMade, Inv, DbOK
<1> QED
  BY <1>1, <1>3, <1>5, <1>6, <1>7, <1>9, <1>10, <1>11

\* No stored inbound has an empty tag.
LEMMA NoEmptyTag ==
    ASSUME NEW d, NEW l, Tables(d, l)
    PROVE  \A j \in DOMAIN d.inbounds : d.inbounds[j].tag # ""
BY ObjectsAssumption DEF Tables, InboundRows, ClientRows

\* Closing the listener of an inbound, under the tag it had if it was stored,
\* and opening one under its new tag makes the core that the rows describe.
LEMMA OneListener ==
    ASSUME Inv, core.on, NEW e, OneTag(e), NEW i, NEW oldTag, NEW tag, NEW left,
           e.services = db.services, DOMAIN e.inbounds = {i} \cup DOMAIN db.inbounds,
           \A j \in DOMAIN db.inbounds : j # i =>
              e.inbounds[j].tag = db.inbounds[j].tag
              /\ Heard(e, j, left) = Heard(db, j, leftOut),
           \A c : <<c, i>> \notin left,
           tag = e.inbounds[i].tag,
           \A j \in DOMAIN db.inbounds : db.inbounds[j].tag = oldTag <=> j = i
    PROVE  RunsAs(Reopened(oldTag, tag, Listener(e, i)), e, left)
<1> DEFINE listener == Listener(e, i)
           S == TagsOf(e, DOMAIN e.inbounds)
           G == Without(core.in, {oldTag})
           F == Put(G, tag, listener)
<1>00. listener = Heard(e, i, left)
  BY JustOpened
<1> HIDE DEF listener
<1>1. DOMAIN core.in = TagsOf(db, DOMAIN db.inbounds)
  BY RunningCore
<1>2. DOMAIN G = DOMAIN core.in \ {oldTag} /\ \A t \in DOMAIN G : G[t] = core.in[t]
  BY DEF Without, Restrict
<1>3. S = {tag} \cup DOMAIN G
  <2>1. ASSUME NEW j \in DOMAIN e.inbounds PROVE e.inbounds[j].tag \in {tag} \cup DOMAIN G
    BY <1>1, <1>2 DEF TagsOf
  <2>2. ASSUME NEW t \in DOMAIN G PROVE t \in S
    <3>1. PICK j \in DOMAIN db.inbounds : t = db.inbounds[j].tag
      BY <1>1, <1>2 DEF TagsOf
    <3>2. j # i /\ t = e.inbounds[j].tag
      BY <1>2, <3>1
    <3> QED
      BY <3>2 DEF TagsOf
  <2>3. tag \in S
    BY DEF TagsOf
  <2>4. ASSUME NEW t \in S PROVE t \in {tag} \cup DOMAIN G
    <3>1. PICK j \in DOMAIN e.inbounds : t = e.inbounds[j].tag
      BY DEF TagsOf
    <3> QED
      BY <2>1, <3>1
  <2> HIDE DEF G, S
  <2> QED
    BY <2>2, <2>3, <2>4
<1> HIDE DEF G, S
<1>4. /\ F = [t \in S |-> F[t]] /\ F[tag] = listener
      /\ \A t \in DOMAIN G : t # tag => F[t] = G[t]
  BY <1>3 DEF Put, Over
<1> HIDE DEF F
<1>5. ASSUME NEW j \in DOMAIN e.inbounds PROVE F[e.inbounds[j].tag] = Heard(e, j, left)
  <2>1. CASE j = i
    BY <1>00, <1>4, <2>1
  <2>2. CASE j # i
    <3>1. j \in DOMAIN db.inbounds /\ e.inbounds[j].tag = db.inbounds[j].tag
      BY <2>2
    <3>2. e.inbounds[j].tag # tag
      BY <2>2 DEF OneTag
    <3>3. e.inbounds[j].tag \in DOMAIN G
      BY <1>1, <1>2, <2>2, <3>1 DEF TagsOf
    <3>4. F[e.inbounds[j].tag] = core.in[db.inbounds[j].tag]
      BY <1>2, <1>4, <3>1, <3>2, <3>3
    <3>5. core.in[db.inbounds[j].tag] = Heard(db, j, leftOut)
      BY <3>1, RunningCore
    <3> QED
      BY <2>2, <3>1, <3>4, <3>5
  <2> QED
    BY <2>1, <2>2
<1>6. ListensAs(F, e, left)
  <2>1. F = [t \in TagsOf(e, DOMAIN e.inbounds) |-> F[t]]
    BY <1>4 DEF S
  <2> QED
    BY <1>5, <2>1 DEF ListensAs
<1>7. [core EXCEPT !.in = F] = [in |-> F, srv |-> core.srv, on |-> TRUE]
  BY EditedCore
<1>8. RunsAs([core EXCEPT !.in = F], e, left)
  <2>1. core.srv = {e.services[s] : s \in DOMAIN e.services}
    BY RunningCore
  <2> QED
    BY <1>6, <1>7, <2>1, Runs
<1> QED
  BY <1>8 DEF Reopened, listener, F, G

\* A save that may store a row of an inbound, give the clients a table in which
\* their links are those of the new rows, and close the listener of oldTag.
MayStore(i, row, table, oldTag) ==
    /\ RowOK(row) /\ FreeTag(row.tag, i)
    /\ \A j \in DOMAIN db.inbounds : db.inbounds[j].tag = oldTag <=> j = i
    /\ last' \in Counters /\ last'.inbound >= last.inbound /\ i \in 1 .. last'.inbound
    /\ last'.client = last.client /\ last'.tls = last.tls /\ last'.service = last.service
    /\ \A c \in DOMAIN table :
          /\ c \in 1 .. last.client /\ DOMAIN table[c] = ClientFields
          /\ table[c].inbounds \subseteq 1 .. last'.inbound
          /\ c \notin mislinked =>
                Local(table[c].links) =
                    LinkGenerator(Stored(i, row), table[c].config, table[c].inbounds)
    /\ \A j \in DOMAIN db.inbounds : j # i =>
          \A c : /\ Holds(table, c, j) <=> Holds(db.clients, c, j)
                 /\ Holds(table, c, j) => table[c].config = db.clients[c].config

\* Saving an inbound, stored, with the links of its clients made anew: the tables
\* stay well-formed and reopening its listener gives what the tables describe.
LEMMA InboundSaved ==
    ASSUME Inv, NEW i, NEW row, NEW table, NEW oldTag, MayStore(i, row, table, oldTag),
           NEW e, e = WithClients(Stored(i, row), table),
           Opened({i}), mislinked' = mislinked
    PROVE  /\ DbOK(e, last', mislinked')
           /\ core.on => RunsAs(Reopened(oldTag, row.tag, Listener(e, i)), e, leftOut')
           /\ ~core.on => leftOut' = {}
<1> DEFINE d == Stored(i, row)
<1>0. /\ RowOK(row) /\ FreeTag(row.tag, i) /\ d = Stored(i, row)
      /\ \A j \in DOMAIN db.inbounds : db.inbounds[j].tag = oldTag <=> j = i
      /\ e = WithClients(d, table)
  BY DEF MayStore
<1>00. /\ last' \in Counters /\ last'.inbound >= last.inbound /\ i \in 1 .. last'.inbound
       /\ last'.client = last.client /\ last'.tls = last.tls /\ last'.service = last.service
  BY DEF MayStore
<1>01. \A c \in DOMAIN table :
          /\ c \in 1 .. last.client /\ DOMAIN table[c] = ClientFields
          /\ table[c].inbounds \subseteq 1 .. last'.inbound
          /\ c \notin mislinked =>
                Local(table[c].links) = LinkGenerator(d, table[c].config, table[c].inbounds)
  BY DEF MayStore
<1>02. \A j \in DOMAIN db.inbounds : j # i =>
          \A c : /\ Holds(table, c, j) <=> Holds(db.clients, c, j)
                 /\ Holds(table, c, j) => table[c].config = db.clients[c].config
  BY DEF MayStore
<1> HIDE DEF d
<1>1. /\ DOMAIN d = DOMAIN db /\ d.tls = db.tls /\ d.services = db.services
      /\ DOMAIN d.inbounds = {i} \cup DOMAIN db.inbounds
      /\ DOMAIN d.inbounds[i] = InboundFields /\ d.inbounds[i].tag = row.tag
      /\ d.inbounds[i].type = row.type /\ d.inbounds[i].tls = row.tls
      /\ \A j \in DOMAIN db.inbounds : j # i => d.inbounds[j] = db.inbounds[j]
      /\ \A r : TlsOf(d, r) = TlsOf(db, r)
      /\ OneTag(d) /\ OneService(d) /\ OutsMade(d)
  BY <1>0, RowStored
<1>2. /\ DOMAIN e = DOMAIN db /\ e.clients = table /\ e.inbounds = d.inbounds
      /\ e.tls = db.tls /\ e.services = db.services
  BY <1>0, <1>1 DEF WithClients, Inv, DbOK, Tables, InboundRows, ClientRows
<1>3. \A r : TlsOf(e, r) = TlsOf(db, r)
  BY <1>2 DEF TlsOf
<1>4. OneTag(e) /\ OneService(e) /\ OutsMade(e)
  BY <1>1, <1>2, <1>3 DEF OneTag, OneService, OutsMade
<1>5. LinksMade(e, mislinked')
  <2>1. ASSUME NEW c \in DOMAIN e.clients \ mislinked
        PROVE  Local(e.clients[c].links) =
                   LinkGenerator(e, e.clients[c].config, e.clients[c].inbounds)
    <3> DEFINE k == table[c].config
               ids == table[c].inbounds
    <3>1. Local(e.clients[c].links) = LinkGenerator(d, k, ids)
      BY <1>2, <1>01
    <3>2. \A j \in ids : /\ j \in DOMAIN d.inbounds <=> j \in DOMAIN e.inbounds
                         /\ d.inbounds[j] = e.inbounds[j]
                         /\ TlsOf(d, d.inbounds[j]) = TlsOf(e, e.inbounds[j])
      BY <1>1, <1>2, <1>3
    <3> HIDE DEF k, ids
    <3>3. LinkGenerator(d, k, ids) = LinkGenerator(e, k, ids)
      BY <3>2, SameLinks
    <3> QED
      BY <1>2, <3>1, <3>3 DEF k, ids
  <2> QED
    BY <2>1 DEF LinksMade
<1>6. Tables(e, last')
  <2>1. last \in Counters /\ Tables(db, last)
    BY DEF Inv, DbOK
  <2> QED
    BY <1>0, <1>00, <1>01, <1>1, <1>2, <2>1 DEF Tables, InboundRows, ClientRows, RowOK, Counters
<1>7. ASSUME core.on PROVE RunsAs(Reopened(oldTag, row.tag, Listener(e, i)), e, leftOut')
  <2>0. /\ \A c : <<c, i>> \notin leftOut'
        /\ \A j : j # i => \A c : <<c, j>> \in leftOut' <=> <<c, j>> \in leftOut
    BY OpenedOnes
  <2>1. \A j \in DOMAIN db.inbounds : j # i =>
            e.inbounds[j].tag = db.inbounds[j].tag
            /\ Heard(e, j, leftOut') = Heard(db, j, leftOut)
    <3> TAKE j \in DOMAIN db.inbounds
    <3> HAVE j # i
    <3>1. e.inbounds[j] = db.inbounds[j] /\ TlsOf(e, e.inbounds[j]) = TlsOf(db, db.inbounds[j])
      BY <1>1, <1>2, <1>3
    <3>2. \A c : LET known == Holds(e.clients, c, j) /\ <<c, j>> \notin leftOut'
                 IN /\ known <=> Holds(db.clients, c, j) /\ <<c, j>> \notin leftOut
                    /\ known => e.clients[c].config = db.clients[c].config
      BY <1>2, <1>02, <2>0
    <3>3. Heard(e, j, leftOut') = Heard(db, j, leftOut)
      BY <3>1, <3>2, SameHeard
    <3> QED
      BY <3>1, <3>3
  <2>2. e.inbounds[i].tag = row.tag /\ DOMAIN e.inbounds = {i} \cup DOMAIN db.inbounds
    BY <1>1, <1>2
  <2> QED
    BY <1>0, <1>2, <1>4, <1>7, <2>0, <2>1, <2>2, OneListener
<1>8. DbOK(e, last', mislinked')
  BY <1>4, <1>5, <1>6 DEF DbOK
<1>9. ~core.on => leftOut' = {}
  BY OpenedOnes
<1> QED
  BY <1>7, <1>8, <1>9

\* A new inbound: the chosen clients get a link to it, and are let in.
LEMMA NewInboundKeeps ==
    ASSUME Inv, NEW row, RowOK(row), NEW chosen, NewInbound(row, chosen)
    PROVE  Inv'
<1> DEFINE i == last.inbound + 1
           d == Stored(i, row)
           some == chosen \cap DOMAIN d.clients
           new == [c \in some |-> [d.clients[c] EXCEPT
                     !.inbounds = d.clients[c].inbounds \cup {i},
                     !.links = {l \in d.clients[c].links : l.remark \notin TagsOf(d, {i})}
                               \cup LinkGenerator(d, d.clients[c].config, {i})]]
           table == UpdateClientsOnInboundAdd(d, chosen, i)
           e == WithClients(d, table)
           listener == [type |-> row.type, tls |-> TlsOf(db, row),
                        users |-> fetchUsers(db, row.type, chosen)]
           applied == [core EXCEPT !.in = Put(core.in, row.tag, listener)]
<1>1. /\ FreeTag(row.tag, i) /\ last' = [last EXCEPT !.inbound = i] /\ Save(e, applied)
      /\ Opened({i}) /\ mislinked' = mislinked
  BY DEF NewInbound, Stored, WithClients
<1>2. last \in Counters /\ Tables(db, last) /\ LinksMade(db, mislinked) /\ i \in Nat
      /\ last.inbound \in Nat /\ last.client \in Nat
  BY DEF Inv, DbOK, Counters
<1>3. /\ last' \in Counters /\ last'.inbound = i
      /\ last'.client = last.client /\ last'.tls = last.tls /\ last'.service = last.service
  <2> HIDE DEF i
  <2> QED
    BY <1>1, <1>2 DEF Counters
<1>4. /\ i \notin DOMAIN db.inbounds /\ \A c \in DOMAIN db.clients : i \notin db.clients[c].inbounds
      /\ last.inbound <= i
  BY <1>2 DEF Tables, InboundRows, ClientRows
<1>5. table = Over(new, d.clients)
  BY DEF UpdateClientsOnInboundAdd
<1> HIDE DEF i
<1>6. d = Stored(i, row)
  OBVIOUS
<1>7. e = WithClients(d, table)
  OBVIOUS
<1> HIDE DEF table, d, e, listener
<1>8. /\ DOMAIN d = DOMAIN db /\ d.clients = db.clients /\ d.tls = db.tls
      /\ DOMAIN d.inbounds = {i} \cup DOMAIN db.inbounds
      /\ d.inbounds[i].tag = row.tag /\ d.inbounds[i].type = row.type
      /\ d.inbounds[i].tls = row.tls
      /\ \A j \in DOMAIN db.inbounds : j # i =>
            d.inbounds[j] = db.inbounds[j] /\ db.inbounds[j].tag # row.tag
      /\ \A r : TlsOf(d, r) = TlsOf(db, r)
  BY <1>1, <1>6, RowStored
<1>9. TagsOf(d, {i}) = {row.tag}
  BY <1>8 DEF TagsOf
<1>10. ASSUME NEW c \in some
       PROVE  /\ DOMAIN new[c] = ClientFields /\ new[c].enable = db.clients[c].enable
              /\ new[c].config = db.clients[c].config
              /\ new[c].inbounds = db.clients[c].inbounds \cup {i}
              /\ new[c].links = {l \in db.clients[c].links : l.remark # row.tag}
                                \cup LinkGenerator(d, db.clients[c].config, {i})
  <2>1. c \in DOMAIN db.clients /\ DOMAIN db.clients[c] = ClientFields
    BY <1>2, <1>8 DEF Tables, InboundRows, ClientRows
  <2> QED
    BY <1>8, <1>9, <2>1 DEF ClientFields
<1>11. DOMAIN new = some /\ some = chosen \cap DOMAIN db.clients
  BY <1>8
<1> HIDE DEF new, some
<1>12. /\ DOMAIN table = DOMAIN db.clients
       /\ \A c \in some : table[c] = new[c]
       /\ \A c \in DOMAIN db.clients : c \notin some => table[c] = db.clients[c]
  BY <1>5, <1>8, <1>11 DEF Over
<1>13. ASSUME NEW c \in DOMAIN db.clients \ mislinked
       PROVE  Local(db.clients[c].links) =
                  LinkGenerator(d, db.clients[c].config, db.clients[c].inbounds)
  <2>1. Local(db.clients[c].links) =
            LinkGenerator(db, db.clients[c].config, db.clients[c].inbounds)
    BY <1>2 DEF LinksMade
  <2>2. i \notin db.clients[c].inbounds
    BY <1>4
  <2> QED
    BY <1>8, <2>1, <2>2, SameLinks
<1>14. ASSUME NEW c \in some \ mislinked
       PROVE  Local(new[c].links) = LinkGenerator(d, new[c].config, new[c].inbounds)
  <2> DEFINE k == db.clients[c].config
             ids == db.clients[c].inbounds
             stored == db.clients[c].links
             L == LinkGenerator(d, k, {i})
             M == LinkGenerator(d, k, ids)
             N == LinkGenerator(d, k, ids \cup {i})
  <2>1. \A x : x \in N <=> x \in M \/ x \in L
    BY LinksAre
  <2>2. ASSUME NEW x \in L PROVE x.type = "local"
    <3>1. PICK j : x = LinkOf(d, k, j)
      BY LinksAre
    <3> QED
      BY <3>1 DEF LinkOf
  <2>3. ASSUME NEW x \in M PROVE x.remark # row.tag
    <3>1. PICK j \in ids : j \in DOMAIN d.inbounds /\ x = LinkOf(d, k, j)
      BY LinksAre
    <3>2. j # i
      BY <1>4, <1>11
    <3>3. d.inbounds[j].tag # row.tag
      BY <1>8, <3>1, <3>2
    <3>4. x.remark = d.inbounds[j].tag
      BY <3>1 DEF LinkOf
    <3> QED
      BY <3>3, <3>4
  <2>4. Local(stored) = M
    BY <1>11, <1>13
  <2>5. new[c].config = k /\ new[c].inbounds = ids \cup {i}
        /\ new[c].links = {l \in stored : l.remark # row.tag} \cup L
    BY <1>10
  <2> HIDE DEF k, ids, stored, L, M, N
  <2>6. Local(new[c].links) = M \cup L
    BY <2>2, <2>3, <2>4, <2>5 DEF Local
  <2>7. N = M \cup L
    BY <2>1
  <2> QED
    BY <2>5, <2>6, <2>7 DEF N
<1>15. ASSUME NEW c \in DOMAIN table
       PROVE  /\ c \in 1 .. last.client /\ DOMAIN table[c] = ClientFields
              /\ table[c].inbounds \subseteq 1 .. last'.inbound
              /\ c \notin mislinked =>
                    Local(table[c].links) =
                        LinkGenerator(d, table[c].config, table[c].inbounds)
  <2>1. c \in DOMAIN db.clients
    BY <1>12
  <2>2. c \in 1 .. last.client /\ DOMAIN db.clients[c] = ClientFields
        /\ db.clients[c].inbounds \subseteq 1 .. last.inbound
    BY <1>2, <2>1 DEF Tables, InboundRows, ClientRows
  <2>3. 1 .. last.inbound \subseteq 1 .. i /\ i \in 1 .. i
    BY <1>2, <1>4 DEF i
  <2>4. CASE c \in some
    BY <1>3, <1>10, <1>12, <1>14, <2>2, <2>3, <2>4
  <2>5. CASE c \notin some
    BY <1>3, <1>12, <1>13, <2>1, <2>2, <2>3, <2>5
  <2> QED
    BY <2>4, <2>5
<1>16. ASSUME NEW j, j # i, NEW c
       PROVE  /\ Holds(table, c, j) <=> Holds(db.clients, c, j)
              /\ Holds(table, c, j) => table[c].config = db.clients[c].config
  BY <1>10, <1>11, <1>12, <1>16 DEF Holds
<1>17. listener = Listener(e, i)
  <2>1. e.clients = table /\ e.inbounds = d.inbounds /\ e.tls = db.tls
    BY <1>2, <1>7, <1>8 DEF Tables, InboundRows, ClientRows, WithClients
  <2>2. TlsOf(e, d.inbounds[i]) = TlsOf(db, row)
    BY <1>8, <2>1 DEF TlsOf
  <2> DEFINE t == row.type
             U == {table[c].config : c \in {c \in Holders(e, i) \cap DOMAIN table :
                                              HasUsers(t) /\ table[c].enable}}
             V == {db.clients[c].config : c \in {c \in chosen \cap DOMAIN db.clients :
                                                   HasUsers(t) /\ db.clients[c].enable}}
  <2>3. ASSUME NEW c
        PROVE  /\ c \in Holders(e, i) \cap DOMAIN table <=> c \in chosen \cap DOMAIN db.clients
               /\ c \in chosen \cap DOMAIN db.clients =>
                     table[c].config = db.clients[c].config
                     /\ table[c].enable = db.clients[c].enable
    BY <1>4, <1>10, <1>11, <1>12, <2>1 DEF Holders
  <2>4. \A x : x \in U <=> x \in V
    BY <2>3
  <2>5. U = V
    BY <2>4
  <2>6. fetchUsers(e, t, Holders(e, i)) = U /\ fetchUsers(db, t, chosen) = V
    BY <2>1 DEF fetchUsers
  <2> QED
    BY <1>8, <2>1, <2>2, <2>5, <2>6 DEF Listener, listener
<1>18. \A j \in DOMAIN db.inbounds : db.inbounds[j].tag = "" <=> j = i
  <2>1. \A j \in DOMAIN db.inbounds : db.inbounds[j].tag # ""
    BY <1>2, NoEmptyTag
  <2>2. i \notin DOMAIN db.inbounds
    BY <1>4
  <2> QED
    BY <2>1, <2>2
<1>19. ASSUME core.on
       PROVE  applied = Reopened("", row.tag, listener)
  <2>2. core.in = [t \in TagsOf(db, DOMAIN db.inbounds) |-> core.in[t]]
    BY <1>19, RunningCore
  <2>3. "" \notin TagsOf(db, DOMAIN db.inbounds)
    <3>1. ASSUME NEW t \in TagsOf(db, DOMAIN db.inbounds) PROVE t \in Tags
      BY <1>2 DEF Tables, InboundRows, ClientRows, TagsOf
    <3> QED
      BY <3>1, ObjectsAssumption
  <2>4. Without(core.in, {""}) = core.in
    BY <2>2, <2>3 DEF Without, Restrict
  <2> QED
    BY <2>4 DEF Reopened
<1> HIDE DEF applied
<1>20. last'.inbound >= last.inbound /\ i \in 1 .. last'.inbound
  BY <1>2, <1>3, <1>4 DEF i
<1>21. \A c \in DOMAIN table :
          /\ c \in 1 .. last.client /\ DOMAIN table[c] = ClientFields
          /\ table[c].inbounds \subseteq 1 .. last'.inbound
          /\ c \notin mislinked =>
                Local(table[c].links) = LinkGenerator(d, table[c].config, table[c].inbounds)
  BY <1>15
<1>22. \A j \in DOMAIN db.inbounds : j # i =>
          \A c : /\ Holds(table, c, j) <=> Holds(db.clients, c, j)
                 /\ Holds(table, c, j) => table[c].config = db.clients[c].config
  BY <1>16
<1>23. core.on => applied = Reopened("", row.tag, listener)
  BY <1>19
<1> QED
  <2>1. MayStore(i, row, table, "")
    BY <1>1, <1>3, <1>6, <1>18, <1>20, <1>21, <1>22 DEF MayStore
  <2>2. e = WithClients(Stored(i, row), table)
    BY <1>6, <1>7
  <2>3. /\ DbOK(e, last', mislinked')
        /\ core.on => RunsAs(Reopened("", row.tag, Listener(e, i)), e, leftOut')
        /\ ~core.on => leftOut' = {}
    BY <1>1, <2>1, <2>2, InboundSaved
  <2>4. core.on => RunsAs(applied, e, leftOut')
    BY <1>17, <1>23, <2>3
  <2> QED
    BY <1>1, <1>3, <2>3, <2>4, SaveKeeps

\* Links after inbounds changed: a client that holds some of them loses the
\* links under their new and old tags, and gets those of the new rows, while the
\* links of its other inbounds stay; all its links are those of the new rows.
LEMMA LinksUpdated ==
    ASSUME Inv, NEW d, NEW ids, NEW oldTag, OneTag(d), d.clients = db.clients,
           ids \subseteq DOMAIN d.inbounds,
           \A j : j \notin ids =>
              /\ j \in DOMAIN d.inbounds <=> j \in DOMAIN db.inbounds
              /\ j \in DOMAIN db.inbounds =>
                    /\ d.inbounds[j].tag = db.inbounds[j].tag
                    /\ d.inbounds[j].type = db.inbounds[j].type
                    /\ TlsOf(d, d.inbounds[j]) = TlsOf(db, db.inbounds[j])
                    /\ db.inbounds[j].tag # oldTag,
           \A j \in ids : j \in DOMAIN db.inbounds =>
              db.inbounds[j].tag \in {oldTag, d.inbounds[j].tag},
           NEW table, table = UpdateLinksByInboundChange(d, ids, oldTag)
    PROVE  /\ DOMAIN table = DOMAIN db.clients
           /\ \A c \in DOMAIN table :
                 /\ DOMAIN table[c] = ClientFields /\ table[c].enable = db.clients[c].enable
                 /\ table[c].config = db.clients[c].config
                 /\ table[c].inbounds = db.clients[c].inbounds
                 /\ c \notin mislinked =>
                       Local(table[c].links) =
                           LinkGenerator(d, table[c].config, table[c].inbounds)
<1> DEFINE some == UNION {Holders(d, i) : i \in ids}
           held(c) == ids \cap d.clients[c].inbounds
           made(c) == LinkGenerator(d, d.clients[c].config, held(c))
           kept(c) == {l \in d.clients[c].links : l.type # "local"
                          \/ l.remark \notin TagsOf(d, held(c)) \cup {oldTag}}
           new == [c \in some |-> [d.clients[c] EXCEPT !.links = kept(c) \cup made(c)]]
<1>1. table = Over(new, d.clients)
  BY DEF UpdateLinksByInboundChange
<1>2. \A c : c \in some <=> c \in DOMAIN db.clients /\ ids \cap db.clients[c].inbounds # {}
  BY DEF Holders
<1>3. ASSUME NEW c \in some
      PROVE  /\ DOMAIN new[c] = ClientFields /\ new[c].enable = db.clients[c].enable
             /\ new[c].config = db.clients[c].config
             /\ new[c].inbounds = db.clients[c].inbounds
             /\ new[c].links = kept(c) \cup made(c)
  <2>1. c \in DOMAIN db.clients /\ DOMAIN db.clients[c] = ClientFields
    BY <1>2, StoredClients DEF ClientOK
  <2> DEFINE links == kept(c) \cup made(c)
  <2>2. new[c] = [db.clients[c] EXCEPT !.links = links]
    OBVIOUS
  <2> HIDE DEF links, new
  <2>3. /\ DOMAIN new[c] = ClientFields /\ new[c].enable = db.clients[c].enable
        /\ new[c].config = db.clients[c].config
        /\ new[c].inbounds = db.clients[c].inbounds /\ new[c].links = links
    BY <2>1, <2>2 DEF ClientFields
  <2> QED
    BY <2>3 DEF links
<1>4. DOMAIN new = some
  OBVIOUS
<1> HIDE DEF new, some, kept, made
<1>5. /\ DOMAIN table = DOMAIN db.clients
      /\ \A c \in some : table[c] = new[c]
      /\ \A c \in DOMAIN db.clients : c \notin some => table[c] = db.clients[c]
  BY <1>1, <1>2, <1>4 DEF Over
<1>6. ASSUME NEW c \in DOMAIN db.clients \ mislinked, c \notin some
      PROVE  Local(db.clients[c].links) =
                 LinkGenerator(d, db.clients[c].config, db.clients[c].inbounds)
  <2> DEFINE k == db.clients[c].config
             held0 == db.clients[c].inbounds
  <2>1. Local(db.clients[c].links) = LinkGenerator(db, k, held0)
    BY DEF Inv, DbOK, LinksMade
  <2>2. \A j \in held0 : j \notin ids
    BY <1>2, <1>6
  <2> HIDE DEF k, held0
  <2>3. LinkGenerator(d, k, held0) = LinkGenerator(db, k, held0)
    BY <2>2, SameLinks
  <2> QED
    BY <2>1, <2>3 DEF k, held0
<1>7. ASSUME NEW c \in some \ mislinked
      PROVE  Local(kept(c) \cup made(c)) =
                 LinkGenerator(d, db.clients[c].config, db.clients[c].inbounds)
  <2> DEFINE k == db.clients[c].config
             held0 == db.clients[c].inbounds
             both == ids \cap held0
             old == LinkGenerator(db, k, held0)
             L == LinkGenerator(d, k, both)
             N == LinkGenerator(d, k, held0)
             gone == TagsOf(d, both) \cup {oldTag}
  <2>1. Local(db.clients[c].links) = old
    BY <1>2 DEF Inv, DbOK, LinksMade
  <2>2. /\ made(c) = L
        /\ kept(c) = {l \in db.clients[c].links : l.type # "local" \/ l.remark \notin gone}
    BY DEF kept, made
  <2>3. ASSUME NEW x \in L PROVE x.type = "local" /\ x \in N
    <3>1. PICK j \in both : /\ j \in DOMAIN d.inbounds /\ x = LinkOf(d, k, j)
                            /\ d.inbounds[j].type \in InboundTypeWithLink
      BY LinksAre
    <3> HIDE DEF k
    <3>2. x.type = "local"
      BY <3>1 DEF LinkOf
    <3> QED
      BY <3>1, <3>2, LinksAre
  <2>4. ASSUME NEW x \in old, x.remark \notin gone PROVE x \in N
    <3>1. PICK j \in held0 : /\ j \in DOMAIN db.inbounds /\ x = LinkOf(db, k, j)
                             /\ db.inbounds[j].type \in InboundTypeWithLink
      BY LinksAre
    <3> HIDE DEF k
    <3>2. x.remark = db.inbounds[j].tag
      BY <3>1 DEF LinkOf
    <3>3. j \notin ids
      <4>1. SUFFICES ASSUME j \in ids PROVE FALSE
        OBVIOUS
      <4>2. d.inbounds[j].tag \in TagsOf(d, both)
        BY <4>1 DEF TagsOf
      <4> QED
        BY <2>4, <3>1, <3>2, <4>1, <4>2
    <3>4. x = LinkOf(d, k, j)
      BY <3>1, <3>3 DEF LinkOf
    <3> QED
      BY <3>1, <3>3, <3>4, LinksAre
  <2>5. ASSUME NEW x \in N PROVE x \in L \/ (x \in old /\ x.remark \notin gone)
    <3>1. PICK j \in held0 : /\ j \in DOMAIN d.inbounds /\ x = LinkOf(d, k, j)
                             /\ d.inbounds[j].type \in InboundTypeWithLink
      BY LinksAre
    <3> HIDE DEF k
    <3>2. CASE j \in ids
      BY <3>1, <3>2, LinksAre
    <3>3. CASE j \notin ids
      <4>1. x = LinkOf(db, k, j) /\ db.inbounds[j].tag # oldTag
            /\ db.inbounds[j].type \in InboundTypeWithLink /\ j \in DOMAIN db.inbounds
        BY <3>1, <3>3 DEF LinkOf
      <4>2. x \in old
        BY <3>1, <4>1, LinksAre
      <4>3. x.remark = d.inbounds[j].tag /\ d.inbounds[j].tag # oldTag
        BY <3>1, <3>3, <4>1 DEF LinkOf
      <4>4. d.inbounds[j].tag \notin TagsOf(d, both)
        BY <3>1, <3>3 DEF TagsOf, OneTag
      <4> QED
        BY <4>2, <4>3, <4>4
    <3> QED
      BY <3>2, <3>3
  <2> HIDE DEF k, held0, both, old, L, N, gone
  <2>6. \A x \in old : x \in db.clients[c].links /\ x.type = "local"
    BY <2>1 DEF Local
  <2>7. \A x \in db.clients[c].links : x.type = "local" => x \in old
    BY <2>1 DEF Local
  <2>8. \A x : x \in Local(kept(c) \cup made(c)) <=> x \in N
    BY <2>2, <2>3, <2>4, <2>5, <2>6, <2>7 DEF Local
  <2>9. Local(kept(c) \cup made(c)) = N
    BY <2>8 DEF Local
  <2> QED
    BY <2>9 DEF N, k, held0
<1>8. ASSUME NEW c \in DOMAIN table
      PROVE  /\ DOMAIN table[c] = ClientFields /\ table[c].enable = db.clients[c].enable
             /\ table[c].config = db.clients[c].config
             /\ table[c].inbounds = db.clients[c].inbounds
             /\ c \notin mislinked =>
                   Local(table[c].links) =
                       LinkGenerator(d, table[c].config, table[c].inbounds)
  <2>1. CASE c \in some
    <3>1. Local(table[c].links) = Local(kept(c) \cup made(c))
      BY <1>3, <1>5, <2>1
    <3> QED
      BY <1>3, <1>5, <1>7, <2>1, <3>1
  <2>2. CASE c \notin some
    BY <1>5, <1>6, <2>2, StoredClients DEF ClientOK
  <2> QED
    BY <2>1, <2>2
<1> QED
  BY <1>5, <1>8

\* An edited inbound, stored still or no more.
LEMMA EditInboundKeeps ==
    ASSUME Inv, NEW i \in Inbounds, NEW row, RowOK(row), EditInbound(i, row)
    PROVE  Inv'
<1> DEFINE oldTag == IF i \in DOMAIN db.inbounds THEN db.inbounds[i].tag ELSE ""
           d == Stored(i, row)
           table == UpdateLinksByInboundChange(d, {i}, oldTag)
           e == WithClients(d, table)
           applied == Reopened(oldTag, row.tag, Listener(d, i))
<1>1. /\ FreeTag(row.tag, i) /\ Save(e, applied) /\ last' = last
      /\ Opened({i}) /\ mislinked' = mislinked
  BY DEF EditInbound, Stored, WithClients, Reopened
<1>2. last \in Counters /\ Tables(db, last) /\ OneTag(db) /\ last.inbound \in Nat
  BY DEF Inv, DbOK, Counters
<1>3. \A j \in DOMAIN db.inbounds : db.inbounds[j].tag = oldTag <=> j = i
  <2>1. CASE i \in DOMAIN db.inbounds
    BY <1>2, <2>1 DEF OneTag
  <2>2. CASE i \notin DOMAIN db.inbounds
    <3>1. oldTag = "" /\ \A j \in DOMAIN db.inbounds : db.inbounds[j].tag \in Tags
      BY <1>2, <2>2 DEF Tables, InboundRows, ClientRows
    <3> HIDE DEF oldTag
    <3> QED
      BY <2>2, <3>1, ObjectsAssumption
  <2> QED
    BY <2>1, <2>2
<1>4. /\ d = Stored(i, row) /\ e = WithClients(d, table)
      /\ applied = Reopened(oldTag, row.tag, Listener(d, i))
      /\ table = UpdateLinksByInboundChange(d, {i}, oldTag)
  OBVIOUS
<1> HIDE DEF oldTag, d, table, e, applied
<1>5. /\ DOMAIN d = DOMAIN db /\ d.clients = db.clients /\ d.tls = db.tls
      /\ DOMAIN d.inbounds = {i} \cup DOMAIN db.inbounds
      /\ d.inbounds[i].tag = row.tag /\ OneTag(d)
      /\ \A j \in DOMAIN db.inbounds : j # i => d.inbounds[j] = db.inbounds[j]
      /\ \A r : TlsOf(d, r) = TlsOf(db, r)
  BY <1>1, <1>4, RowStored
<1>6. /\ DOMAIN table = DOMAIN db.clients
      /\ \A c \in DOMAIN table :
            /\ DOMAIN table[c] = ClientFields /\ table[c].enable = db.clients[c].enable
            /\ table[c].config = db.clients[c].config
            /\ table[c].inbounds = db.clients[c].inbounds
            /\ c \notin mislinked =>
                  Local(table[c].links) = LinkGenerator(d, table[c].config, table[c].inbounds)
  <2>1. \A j : j \notin {i} =>
              /\ j \in DOMAIN d.inbounds <=> j \in DOMAIN db.inbounds
              /\ j \in DOMAIN db.inbounds =>
                    /\ d.inbounds[j].tag = db.inbounds[j].tag
                    /\ d.inbounds[j].type = db.inbounds[j].type
                    /\ TlsOf(d, d.inbounds[j]) = TlsOf(db, db.inbounds[j])
                    /\ db.inbounds[j].tag # oldTag
    BY <1>3, <1>5
  <2>2. \A j \in {i} : j \in DOMAIN db.inbounds =>
              db.inbounds[j].tag \in {oldTag, d.inbounds[j].tag}
    BY <1>3
  <2>3. {i} \subseteq DOMAIN d.inbounds
    BY <1>5
  <2> QED
    BY <1>4, <1>5, <2>1, <2>2, <2>3, LinksUpdated
<1>7. MayStore(i, row, table, oldTag)
  <2>1. \A c \in DOMAIN table :
          /\ c \in 1 .. last.client /\ DOMAIN table[c] = ClientFields
          /\ table[c].inbounds \subseteq 1 .. last'.inbound
          /\ c \notin mislinked =>
                Local(table[c].links) =
                    LinkGenerator(Stored(i, row), table[c].config, table[c].inbounds)
    BY <1>1, <1>2, <1>4, <1>6, ZenonT(60) DEF Tables, InboundRows, ClientRows
  <2>2. \A j \in DOMAIN db.inbounds : j # i =>
          \A c : /\ Holds(table, c, j) <=> Holds(db.clients, c, j)
                 /\ Holds(table, c, j) => table[c].config = db.clients[c].config
    BY <1>6 DEF Holds
  <2> QED
    BY <1>1, <1>2, <1>3, <2>1, <2>2 DEF MayStore, Inbounds
<1>8. /\ DbOK(e, last', mislinked')
      /\ core.on => RunsAs(Reopened(oldTag, row.tag, Listener(e, i)), e, leftOut')
      /\ ~core.on => leftOut' = {}
  BY <1>1, <1>4, <1>7, InboundSaved
<1>9. Listener(e, i) = Listener(d, i)
  <2>1. e.clients = table /\ e.inbounds = d.inbounds /\ e.tls = d.tls
    BY <1>2, <1>4, <1>5 DEF Tables, InboundRows, ClientRows, WithClients
  <2>2. TlsOf(e, e.inbounds[i]) = TlsOf(d, d.inbounds[i])
    BY <2>1 DEF TlsOf
  <2>3. \A c : /\ Holds(e.clients, c, i) <=> Holds(d.clients, c, i)
               /\ Holds(e.clients, c, i) => e.clients[c].config = d.clients[c].config
    BY <1>5, <1>6, <2>1 DEF Holds
  <2>4. Heard(e, i, {}) = Heard(d, i, {})
    BY <2>1, <2>2, <2>3, SameHeard
  <2> QED
    BY <2>4, JustOpened
<1>10. last' \in Counters
  BY <1>1, <1>2
<1>11. core.on => RunsAs(applied, e, leftOut')
  BY <1>4, <1>8, <1>9
<1> QED
  BY <1>1, <1>8, <1>10, <1>11, SaveKeeps

\* A deleted inbound: the clients that held it lose it and its link.
LEMMA DeleteInboundKeeps ==
    ASSUME Inv, NEW tag, DeleteInbound(tag)
    PROVE  Inv'
<1> DEFINE ids == IdsOf(db, tag)
           inbounds == Without(db.inbounds, ids)
           some == UNION {Holders(db, i) : i \in ids}
           kept(c) == {l \in db.clients[c].links : l.remark # tag}
           new == [c \in some |-> [db.clients[c] EXCEPT
                     !.inbounds = db.clients[c].inbounds \ ids, !.links = kept(c)]]
           table == UpdateClientsOnInboundDelete(ids, tag)
           e == [db EXCEPT !.inbounds = inbounds, !.clients = table]
           F == Without(core.in, {tag})
           applied == [core EXCEPT !.in = F]
<1>1. Save(e, applied) /\ last' = last /\ Opened(ids) /\ mislinked' = mislinked
  BY DEF DeleteInbound
<1>2. /\ last \in Counters /\ Tables(db, last) /\ OneTag(db) /\ OneService(db)
      /\ LinksMade(db, mislinked) /\ OutsMade(db)
  BY DEF Inv, DbOK
<1>3. table = Over(new, db.clients)
  BY DEF UpdateClientsOnInboundDelete
<1>4. \A c : c \in some <=> c \in DOMAIN db.clients /\ ids \cap db.clients[c].inbounds # {}
  BY DEF Holders
<1>5. \A j \in DOMAIN db.inbounds : j \in ids <=> db.inbounds[j].tag = tag
  BY DEF IdsOf
<1> HIDE DEF table
<1>6. /\ DOMAIN e = DOMAIN db /\ e.clients = table /\ e.inbounds = inbounds
      /\ e.tls = db.tls /\ e.services = db.services
  BY <1>2 DEF Tables, InboundRows, ClientRows
<1>7. /\ DOMAIN inbounds = DOMAIN db.inbounds \ ids
      /\ \A j \in DOMAIN inbounds : inbounds[j] = db.inbounds[j]
  BY DEF Without, Restrict
<1> HIDE DEF e, inbounds
<1>8. \A r : TlsOf(e, r) = TlsOf(db, r)
  BY <1>6 DEF TlsOf
<1>9. ASSUME NEW c \in some
      PROVE  /\ DOMAIN new[c] = ClientFields /\ new[c].enable = db.clients[c].enable
             /\ new[c].config = db.clients[c].config
             /\ new[c].inbounds = db.clients[c].inbounds \ ids /\ new[c].links = kept(c)
  <2>1. c \in DOMAIN db.clients /\ DOMAIN db.clients[c] = ClientFields
    BY <1>4, StoredClients DEF ClientOK
  <2> HIDE DEF kept
  <2> QED
    BY <2>1 DEF ClientFields
<1>10. DOMAIN new = some
  OBVIOUS
<1> HIDE DEF new, some
<1>11. /\ DOMAIN table = DOMAIN db.clients
       /\ \A c \in some : table[c] = new[c]
       /\ \A c \in DOMAIN db.clients : c \notin some => table[c] = db.clients[c]
  BY <1>3, <1>4, <1>10 DEF Over
<1> HIDE DEF ids
<1>12. ASSUME NEW c \in DOMAIN db.clients
       PROVE  /\ DOMAIN table[c] = ClientFields /\ table[c].enable = db.clients[c].enable
              /\ table[c].config = db.clients[c].config
              /\ table[c].inbounds = db.clients[c].inbounds \ ids
              /\ table[c].links = IF c \in some THEN kept(c) ELSE db.clients[c].links
  <2>1. CASE c \in some
    <3> HIDE DEF kept
    <3> QED
      BY <1>9, <1>11, <2>1
  <2>2. CASE c \notin some
    BY <1>4, <1>11, <2>2, StoredClients DEF ClientOK
  <2> QED
    BY <2>1, <2>2
<1>13. LinksMade(e, mislinked')
  <2>1. ASSUME NEW c \in DOMAIN db.clients \ mislinked
        PROVE  Local(table[c].links) =
                   LinkGenerator(e, table[c].config, table[c].inbounds)
    <3> DEFINE k == db.clients[c].config
               held == db.clients[c].inbounds
               old == LinkGenerator(db, k, held)
               N == LinkGenerator(e, k, held \ ids)
    <3>1. Local(db.clients[c].links) = old
      BY <1>2 DEF LinksMade
    <3>2. ASSUME NEW j \in held PROVE
            j \in DOMAIN e.inbounds <=> j \in DOMAIN db.inbounds /\ j \notin ids
      BY <1>6, <1>7
    <3>3. ASSUME NEW j \in DOMAIN e.inbounds
          PROVE  LinkOf(e, k, j) = LinkOf(db, k, j) /\ e.inbounds[j].type = db.inbounds[j].type
      BY <1>6, <1>7, <1>8 DEF LinkOf
    <3>4. ASSUME NEW x \in old, x.remark # tag PROVE x \in N
      <4>1. PICK j \in held : /\ j \in DOMAIN db.inbounds /\ x = LinkOf(db, k, j)
                              /\ db.inbounds[j].type \in InboundTypeWithLink
        BY LinksAre
      <4>2. j \notin ids
        BY <1>5, <3>4, <4>1 DEF LinkOf
      <4>3. j \in DOMAIN e.inbounds
        BY <3>2, <4>1, <4>2
      <4> QED
        BY <3>3, <4>1, <4>2, <4>3, LinksAre
    <3>5. ASSUME NEW x \in N PROVE x \in old /\ x.remark # tag
      <4>1. PICK j \in held \ ids : /\ j \in DOMAIN e.inbounds /\ x = LinkOf(e, k, j)
                                    /\ e.inbounds[j].type \in InboundTypeWithLink
        BY LinksAre
      <4>2. j \in DOMAIN db.inbounds /\ x = LinkOf(db, k, j)
            /\ db.inbounds[j].type \in InboundTypeWithLink
        BY <3>2, <3>3, <4>1
      <4>3. x.remark = db.inbounds[j].tag
        BY <4>2 DEF LinkOf
      <4>4. x.remark # tag
        BY <1>5, <4>1, <4>2, <4>3
      <4> QED
        BY <4>1, <4>2, <4>4, LinksAre
    <3>6. c \notin some => held \cap ids = {}
      BY <1>4
    <3>7. ASSUME NEW x \in old, c \notin some PROVE x.remark # tag
      <4>1. PICK j \in held : j \in DOMAIN db.inbounds /\ x = LinkOf(db, k, j)
        BY LinksAre
      <4>2. x.remark = db.inbounds[j].tag /\ j \notin ids
        BY <3>6, <3>7, <4>1 DEF LinkOf
      <4> QED
        BY <1>5, <4>1, <4>2
    <3>8. /\ table[c].config = k /\ table[c].inbounds = held \ ids
          /\ table[c].links = IF c \in some THEN {l \in db.clients[c].links : l.remark # tag}
                              ELSE db.clients[c].links
      BY <1>12
    <3> HIDE DEF k, held, old, N
    <3>9. \A x : x \in Local(table[c].links) <=> x \in N
      BY <3>1, <3>4, <3>5, <3>7, <3>8 DEF Local
    <3>10. Local(table[c].links) = N
      BY <3>9 DEF Local
    <3> QED
      BY <3>8, <3>10 DEF N
  <2> QED
    BY <1>1, <1>6, <1>11, <2>1 DEF LinksMade
<1>14. OneTag(e) /\ OneService(e) /\ OutsMade(e)
  BY <1>2, <1>6, <1>7, <1>8 DEF OneTag, OneService, OutsMade
<1>15. Tables(e, last')
  <2>1. InboundRows(e, last')
    <3>1. \A j \in DOMAIN e.inbounds : j \in DOMAIN db.inbounds /\ e.inbounds[j] = db.inbounds[j]
      BY <1>6, <1>7
    <3>2. e.tls = db.tls /\ last' = last /\ InboundRows(db, last)
      BY <1>1, <1>2, <1>6 DEF Tables
    <3> QED
      BY <3>1, <3>2 DEF InboundRows
  <2>2. ClientRows(e, last')
    <3>1. ClientRows(db, last) /\ last' = last
      BY <1>1, <1>2 DEF Tables
    <3>2. ASSUME NEW c \in DOMAIN e.clients
          PROVE  /\ c \in DOMAIN db.clients /\ DOMAIN e.clients[c] = ClientFields
                 /\ e.clients[c].inbounds \subseteq db.clients[c].inbounds
      BY <1>6, <1>11, <1>12
    <3> QED
      BY <3>1, <3>2 DEF ClientRows
  <2> QED
    BY <1>1, <1>2, <1>6, <1>7, <1>11, <1>12, <2>1, <2>2 DEF Tables
<1>16. ASSUME core.on PROVE RunsAs(applied, e, leftOut')
  <2>1. DOMAIN core.in = TagsOf(db, DOMAIN db.inbounds)
        /\ core.srv = {db.services[s] : s \in DOMAIN db.services}
    BY <1>16, RunningCore
  <2>3. F = [t \in DOMAIN core.in \ {tag} |-> core.in[t]]
    BY DEF Without, Restrict
  <2>4. \A t : t \in DOMAIN core.in \ {tag} <=> t \in TagsOf(e, DOMAIN e.inbounds)
    BY <1>5, <1>6, <1>7, <2>1 DEF TagsOf
  <2>5. DOMAIN core.in \ {tag} = TagsOf(e, DOMAIN e.inbounds)
    BY <2>4 DEF TagsOf
  <2> HIDE DEF F
  <2>6. F = [t \in TagsOf(e, DOMAIN e.inbounds) |-> F[t]]
    BY <2>3, <2>5
  <2>7. ASSUME NEW j \in DOMAIN e.inbounds PROVE F[e.inbounds[j].tag] = Heard(e, j, leftOut')
    <3>1. j \in DOMAIN db.inbounds /\ j \notin ids /\ e.inbounds[j] = db.inbounds[j]
      BY <1>6, <1>7
    <3>2. F[e.inbounds[j].tag] = core.in[db.inbounds[j].tag]
      BY <1>5, <2>1, <2>3, <3>1 DEF TagsOf
    <3>3. core.in[db.inbounds[j].tag] = Heard(db, j, leftOut)
      BY <1>16, <3>1, RunningCore
    <3>4. \A c : /\ Holds(e.clients, c, j) <=> Holds(db.clients, c, j)
                 /\ Holds(e.clients, c, j) => e.clients[c].config = db.clients[c].config
      BY <1>6, <1>11, <1>12, <3>1, ZenonT(60) DEF Holds
    <3>5. TlsOf(e, e.inbounds[j]) = TlsOf(db, db.inbounds[j])
      BY <1>8, <3>1
    <3>6. \A c : <<c, j>> \in leftOut' <=> <<c, j>> \in leftOut
      BY <1>1, <3>1, OpenedOnes
    <3>7. Heard(e, j, leftOut') = Heard(db, j, leftOut)
      BY <3>1, <3>4, <3>5, <3>6, SameHeard
    <3> QED
      BY <3>2, <3>3, <3>7
  <2>8. ListensAs(F, e, leftOut')
    BY <2>6, <2>7 DEF ListensAs
  <2>9. applied = [in |-> F, srv |-> core.srv, on |-> TRUE]
    BY <1>16, EditedCore
  <2>10. core.srv = {e.services[s] : s \in DOMAIN e.services}
    BY <1>6, <2>1
  <2> HIDE DEF applied
  <2> QED
    BY <2>8, <2>9, <2>10, Runs
<1> HIDE DEF applied
<1>17. DbOK(e, last', mislinked') /\ last' \in Counters /\ (~core.on => leftOut' = {})
  BY <1>1, <1>2, <1>13, <1>14, <1>15, OpenedOnes DEF DbOK
<1> QED
  BY <1>1, <1>16, <1>17, SaveKeeps

-----------------------------------------------------------------------------
(* Saves of templates and services, and what starts or stops the core *)

\* Two databases whose inbounds differ at most in their outbounds.
SameRows(d, e) ==
    /\ DOMAIN d.inbounds = DOMAIN e.inbounds
    /\ \A i \in DOMAIN d.inbounds :
          /\ d.inbounds[i].tag = e.inbounds[i].tag
          /\ d.inbounds[i].type = e.inbounds[i].type
          /\ TlsOf(d, d.inbounds[i]) = TlsOf(e, e.inbounds[i])

\* Links are generated from inbound rows and TLS records only.
LEMMA SameRowsLinks ==
    ASSUME NEW d, NEW e, SameRows(d, e), NEW config, NEW ids
    PROVE  LinkGenerator(d, config, ids) = LinkGenerator(e, config, ids)
BY SameLinks DEF SameRows

\* So are the listeners, for the same clients.
LEMMA SameRowsListen ==
    ASSUME NEW d, NEW e, SameRows(d, e), d.clients = e.clients, NEW F, NEW left,
           ListensAs(F, e, left)
    PROVE  ListensAs(F, d, left)
<1>1. TagsOf(e, DOMAIN e.inbounds) = TagsOf(d, DOMAIN d.inbounds)
  BY DEF SameRows, TagsOf
<1>2. \A i \in DOMAIN d.inbounds : Heard(d, i, left) = Heard(e, i, left)
  BY SameHeard DEF SameRows
<1> QED
  BY <1>1, <1>2 DEF ListensAs, SameRows

\* What LinksUpdated asks of the rows: the inbounds not named keep theirs, and
\* the old tag is that of a named one or of none.
Replaced(d, ids, oldTag) ==
    /\ d.clients = db.clients /\ ids \subseteq DOMAIN d.inbounds
    /\ \A j : j \notin ids =>
          /\ j \in DOMAIN d.inbounds <=> j \in DOMAIN db.inbounds
          /\ j \in DOMAIN db.inbounds =>
                /\ d.inbounds[j].tag = db.inbounds[j].tag
                /\ d.inbounds[j].type = db.inbounds[j].type
                /\ TlsOf(d, d.inbounds[j]) = TlsOf(db, db.inbounds[j])
                /\ db.inbounds[j].tag # oldTag
    /\ \A j \in ids : j \in DOMAIN db.inbounds =>
          db.inbounds[j].tag \in {oldTag, d.inbounds[j].tag}

\* What it gives: clients whose links are those of the new rows.
LinksFollow(d, table) ==
    /\ DOMAIN table = DOMAIN db.clients
    /\ \A c \in DOMAIN table :
          /\ DOMAIN table[c] = ClientFields /\ table[c].enable = db.clients[c].enable
          /\ table[c].config = db.clients[c].config
          /\ table[c].inbounds = db.clients[c].inbounds
          /\ c \notin mislinked =>
                Local(table[c].links) =
                    LinkGenerator(d, table[c].config, table[c].inbounds)

\* UpdateLinksByInboundChange leaves every client with the links of its inbounds.
LEMMA LinksReplaced ==
    ASSUME Inv, NEW d, OneTag(d), NEW ids, NEW oldTag, Replaced(d, ids, oldTag)
    PROVE  LinksFollow(d, UpdateLinksByInboundChange(d, ids, oldTag))
<1> DEFINE table == UpdateLinksByInboundChange(d, ids, oldTag)
<1>1. table = UpdateLinksByInboundChange(d, ids, oldTag)
  OBVIOUS
<1> HIDE DEF table
<1>2. /\ DOMAIN table = DOMAIN db.clients
      /\ \A c \in DOMAIN table :
            /\ DOMAIN table[c] = ClientFields /\ table[c].enable = db.clients[c].enable
            /\ table[c].config = db.clients[c].config
            /\ table[c].inbounds = db.clients[c].inbounds
            /\ c \notin mislinked =>
                  Local(table[c].links) =
                      LinkGenerator(d, table[c].config, table[c].inbounds)
  BY <1>1, LinksUpdated DEF Replaced
<1> QED
  BY <1>2 DEF table, LinksFollow

\* A template no inbound uses may come and go: links, outbounds and listeners
\* depend on those that are used.
LEMMA UnusedTls ==
    ASSUME Inv, NEW tls, NEW d, d = [db EXCEPT !.tls = tls],
           NEW id, id # 0, UsingTls(id) = {},
           DOMAIN tls \subseteq 1 .. last'.tls, last' \in Counters,
           last'.inbound = last.inbound, last'.client = last.client,
           last'.service = last.service,
           \A t : t # id => (t \in DOMAIN tls <=> t \in DOMAIN db.tls)
                            /\ (t \in DOMAIN tls => tls[t] = db.tls[t])
    PROVE  DbOK(d, last', mislinked) /\ (core.on => RunsAs(core, d, leftOut))
<1>1. /\ Tables(db, last) /\ OneTag(db) /\ OneService(db)
      /\ LinksMade(db, mislinked) /\ OutsMade(db)
  BY DEF Inv, DbOK
<1>2. /\ DOMAIN d = DOMAIN db /\ d.clients = db.clients /\ d.inbounds = db.inbounds
      /\ d.tls = tls /\ d.services = db.services
  BY <1>1 DEF Tables, InboundRows, ClientRows
<1>3. \A i \in DOMAIN db.inbounds :
        /\ db.inbounds[i].tls # id
        /\ TlsOf(d, db.inbounds[i]) = TlsOf(db, db.inbounds[i])
  BY <1>2 DEF UsingTls, TlsOf
<1>4. OneTag(d) /\ OneService(d) /\ OutsMade(d)
  BY <1>1, <1>2, <1>3 DEF OneTag, OneService, OutsMade
<1>5. LinksMade(d, mislinked)
  <2>1. SameRows(d, db)
    BY <1>2, <1>3 DEF SameRows
  <2>2. ASSUME NEW c \in DOMAIN db.clients \ mislinked
        PROVE  Local(db.clients[c].links) =
                   LinkGenerator(d, db.clients[c].config, db.clients[c].inbounds)
    <3> DEFINE k == db.clients[c].config
               held == db.clients[c].inbounds
    <3>1. Local(db.clients[c].links) = LinkGenerator(db, k, held)
      BY <1>1 DEF LinksMade
    <3> HIDE DEF k, held
    <3>2. LinkGenerator(d, k, held) = LinkGenerator(db, k, held)
      BY <2>1, SameRowsLinks
    <3> QED
      BY <3>1, <3>2 DEF k, held
  <2> QED
    BY <1>2, <2>2 DEF LinksMade
<1>6. Tables(d, last')
  BY <1>1, <1>2, <1>3 DEF Tables, InboundRows, ClientRows
<1>7. ASSUME core.on PROVE RunsAs(core, d, leftOut)
  <2>1. SameRows(d, db)
    BY <1>2, <1>3 DEF SameRows
  <2>2. RunsAs(core, db, leftOut)
    BY <1>7 DEF Inv, CoreOK, Off
  <2>3. ListensAs(core.in, d, leftOut)
    BY <1>2, <2>1, <2>2, SameRowsListen DEF RunsAs
  <2> QED
    BY <1>2, <2>2, <2>3 DEF RunsAs
<1> QED
  BY <1>4, <1>5, <1>6, <1>7 DEF DbOK

\* A new template is used by nobody yet.
LEMMA NewTlsKeeps ==
    ASSUME Inv, NEW version, NewTls(version)
    PROVE  Inv'
<1> DEFINE id == last.tls + 1
           tls == Put(db.tls, id, version)
           d == [db EXCEPT !.tls = tls]
<1>1. /\ last' = [last EXCEPT !.tls = last.tls + 1] /\ Save(d, core)
      /\ leftOut' = leftOut /\ mislinked' = mislinked
  BY DEF NewTls
<1>2. last \in Counters /\ Tables(db, last) /\ last.tls \in Nat
  BY DEF Inv, DbOK, Counters
<1>3. /\ last' \in Counters /\ last'.inbound = last.inbound /\ last'.client = last.client
      /\ last'.tls = id /\ last'.service = last.service
  BY <1>1, <1>2 DEF Counters
<1>4. UsingTls(id) = {} /\ id # 0 /\ DOMAIN db.tls \subseteq 1 .. id /\ id \in 1 .. id
  BY <1>2 DEF Tables, InboundRows, ClientRows, UsingTls
<1> HIDE DEF id
<1>5. /\ DOMAIN tls = DOMAIN db.tls \cup {id}
      /\ \A t \in DOMAIN db.tls : t # id => tls[t] = db.tls[t]
  BY DEF Put, Over
<1>6. d = [db EXCEPT !.tls = tls]
  OBVIOUS
<1> HIDE DEF tls, d
<1>7. /\ DOMAIN tls \subseteq 1 .. last'.tls
      /\ \A t : t # id => (t \in DOMAIN tls <=> t \in DOMAIN db.tls)
                         /\ (t \in DOMAIN tls => tls[t] = db.tls[t])
  BY <1>3, <1>4, <1>5
<1>8. DbOK(d, last', mislinked) /\ (core.on => RunsAs(core, d, leftOut))
  BY <1>3, <1>4, <1>6, <1>7, UnusedTls
<1> QED
  BY <1>1, <1>3, <1>8, SaveKeeps, StoppedCore

\* A template that is deleted is used by nobody.
LEMMA DeleteTlsKeeps ==
    ASSUME Inv, NEW id \in 1 .. last.tls, DeleteTls(id)
    PROVE  Inv'
<1> DEFINE tls == Without(db.tls, {id})
           d == [db EXCEPT !.tls = tls]
<1>1. /\ last' = last /\ Save(d, core) /\ UsingTls(id) = {}
      /\ leftOut' = leftOut /\ mislinked' = mislinked
  BY DEF DeleteTls, InUse
<1>2. last \in Counters /\ Tables(db, last) /\ last.tls \in Nat /\ id # 0
  BY DEF Inv, DbOK, Counters
<1>3. /\ DOMAIN tls = DOMAIN db.tls \ {id}
      /\ \A t \in DOMAIN tls : tls[t] = db.tls[t]
  BY DEF Without, Restrict
<1>4. d = [db EXCEPT !.tls = tls]
  OBVIOUS
<1> HIDE DEF tls, d
<1>5. DOMAIN tls \subseteq 1 .. last'.tls
  BY <1>1, <1>2, <1>3 DEF Tables, InboundRows, ClientRows
<1>6. DbOK(d, last', mislinked') /\ (core.on => RunsAs(core, d, leftOut'))
  BY <1>1, <1>2, <1>3, <1>4, <1>5, UnusedTls
<1> QED
  BY <1>1, <1>2, <1>6, SaveKeeps, StoppedCore

\* An edited template: the inbounds that use it get new links, outbounds and
\* listeners, the others keep theirs.
LEMMA EditTlsKeeps ==
    ASSUME Inv, NEW id \in 1 .. last.tls, NEW version, EditTls(id, version)
    PROVE  Inv'
<1> DEFINE tls == Put(db.tls, id, version)
           d == [db EXCEPT !.tls = tls]
           ids == UsingTls(id)
           table == UpdateLinksByInboundChange(d, ids, "")
           new == [i \in ids |-> FillOutJson(d, d.inbounds[i])]
           inbounds == UpdateOutJsons(d, ids)
           e == [d EXCEPT !.clients = table, !.inbounds = inbounds]
<1>1. /\ Save(e, RestartInbounds(e, ids)) /\ last' = last
      /\ Opened(ids) /\ mislinked' = mislinked
  BY DEF EditTls
<1>2. /\ last \in Counters /\ Tables(db, last) /\ OneTag(db) /\ OneService(db)
      /\ OutsMade(db) /\ last.tls \in Nat
  BY DEF Inv, DbOK, Counters
<1>3. \A i : i \in ids <=> i \in DOMAIN db.inbounds /\ db.inbounds[i].tls = id
  BY DEF UsingTls
<1>4. table = UpdateLinksByInboundChange(d, ids, "") /\ inbounds = Over(new, d.inbounds)
  BY DEF UpdateOutJsons
<1> HIDE DEF table, inbounds
<1>5. /\ DOMAIN tls = DOMAIN db.tls \cup {id}
      /\ \A t \in DOMAIN db.tls : t # id => tls[t] = db.tls[t]
  BY DEF Put, Over
<1> HIDE DEF tls, ids
<1>6. /\ DOMAIN d = DOMAIN db /\ d.clients = db.clients /\ d.inbounds = db.inbounds
      /\ d.tls = tls /\ d.services = db.services
  BY <1>2 DEF Tables, InboundRows, ClientRows
<1> HIDE DEF d
<1>7. /\ DOMAIN e = DOMAIN db /\ e.clients = table /\ e.inbounds = inbounds
      /\ e.tls = tls /\ e.services = db.services
  BY <1>2, <1>6 DEF Tables, InboundRows, ClientRows
<1> HIDE DEF e
<1>8. ASSUME NEW i \in DOMAIN db.inbounds, i \notin ids
      PROVE  TlsOf(d, db.inbounds[i]) = TlsOf(db, db.inbounds[i])
  BY <1>3, <1>5, <1>6, <1>8 DEF TlsOf
<1>9. \A r : TlsOf(e, r) = TlsOf(d, r)
  BY <1>6, <1>7 DEF TlsOf
<1>10. ASSUME NEW i \in ids
       PROVE  /\ DOMAIN new[i] = InboundFields /\ new[i].tag = db.inbounds[i].tag
              /\ new[i].type = db.inbounds[i].type /\ new[i].tls = db.inbounds[i].tls
              /\ new[i].type # "direct" =>
                    new[i].out = [type |-> new[i].type, tls |-> TlsOf(d, db.inbounds[i])]
  <2> DEFINE r == db.inbounds[i]
  <2>1. DOMAIN r = InboundFields
    BY <1>2, <1>3 DEF Tables, InboundRows, ClientRows
  <2>2. new[i] = FillOutJson(d, r)
    BY <1>6
  <2> HIDE DEF new, r
  <2>3. /\ DOMAIN new[i] = InboundFields /\ new[i].tag = r.tag
        /\ new[i].type = r.type /\ new[i].tls = r.tls
        /\ r.type # "direct" => new[i].out = [type |-> r.type, tls |-> TlsOf(d, r)]
    BY <2>1, <2>2, Filled
  <2> QED
    BY <2>3 DEF r
<1>11. DOMAIN new = ids
  OBVIOUS
<1> HIDE DEF new
<1>12. /\ DOMAIN inbounds = DOMAIN db.inbounds
       /\ \A i \in ids : inbounds[i] = new[i]
       /\ \A i \in DOMAIN db.inbounds : i \notin ids => inbounds[i] = db.inbounds[i]
  BY <1>3, <1>4, <1>6, <1>11 DEF Over
<1>13. ASSUME NEW i \in DOMAIN db.inbounds
       PROVE  /\ DOMAIN inbounds[i] = InboundFields /\ inbounds[i].tag = db.inbounds[i].tag
              /\ inbounds[i].type = db.inbounds[i].type
              /\ inbounds[i].tls = db.inbounds[i].tls
              /\ inbounds[i].type # "direct" =>
                    inbounds[i].out = [type |-> inbounds[i].type,
                                       tls |-> TlsOf(d, db.inbounds[i])]
  <2>1. CASE i \in ids
    BY <1>10, <1>12, <2>1
  <2>2. CASE i \notin ids
    BY <1>2, <1>8, <1>12, <2>2 DEF Tables, InboundRows, ClientRows, OutsMade
  <2> QED
    BY <2>1, <2>2
<1>14. \A i \in DOMAIN db.inbounds : TlsOf(e, inbounds[i]) = TlsOf(d, db.inbounds[i])
  BY <1>9, <1>13 DEF TlsOf
<1>15. OneTag(d)
  BY <1>2, <1>6 DEF OneTag
<1>16. OneTag(e) /\ OneService(e) /\ OutsMade(e)
  <2>1. OneTag(e)
    <3>1. \A j \in DOMAIN e.inbounds : /\ j \in DOMAIN db.inbounds
                                       /\ e.inbounds[j].tag = db.inbounds[j].tag
      BY <1>7, <1>12, <1>13
    <3> QED
      BY <1>2, <3>1 DEF OneTag
  <2>2. OneService(e)
    BY <1>2, <1>7 DEF OneService
  <2>3. OutsMade(e)
    BY <1>7, <1>12, <1>13, <1>14 DEF OutsMade
  <2> QED
    BY <2>1, <2>2, <2>3
<1>17. /\ DOMAIN table = DOMAIN db.clients
       /\ \A c \in DOMAIN table :
             /\ DOMAIN table[c] = ClientFields /\ table[c].enable = db.clients[c].enable
             /\ table[c].config = db.clients[c].config
             /\ table[c].inbounds = db.clients[c].inbounds
             /\ c \notin mislinked =>
                   Local(table[c].links) =
                       LinkGenerator(d, table[c].config, table[c].inbounds)
  <2>1. Replaced(d, ids, "")
    BY <1>2, <1>3, <1>6, <1>8, ObjectsAssumption DEF Tables, InboundRows, ClientRows, Replaced
  <2>2. LinksFollow(d, table)
    BY <1>4, <1>15, <2>1, LinksReplaced
  <2> QED
    BY <2>2 DEF LinksFollow
<1>18. LinksMade(e, mislinked')
  <2>0. SameRows(e, d)
    BY <1>6, <1>7, <1>12, <1>13, <1>14, ZenonT(60) DEF SameRows
  <2>1. ASSUME NEW c \in DOMAIN table \ mislinked
        PROVE  Local(table[c].links) =
                   LinkGenerator(e, table[c].config, table[c].inbounds)
    <3> DEFINE k == table[c].config
               held == table[c].inbounds
    <3>1. Local(table[c].links) = LinkGenerator(d, k, held)
      BY <1>17
    <3> HIDE DEF k, held
    <3>2. LinkGenerator(e, k, held) = LinkGenerator(d, k, held)
      BY <2>0, SameRowsLinks
    <3> QED
      BY <3>1, <3>2 DEF k, held
  <2> QED
    BY <1>1, <1>7, <2>1 DEF LinksMade
<1>19. Tables(e, last')
  <2>1. InboundRows(e, last')
    <3>1. InboundRows(db, last) /\ last' = last
      BY <1>1, <1>2 DEF Tables
    <3> QED
      BY <1>5, <1>7, <1>12, <1>13, <3>1 DEF InboundRows
  <2>2. ClientRows(e, last')
    BY <1>1, <1>2, <1>5, <1>7, <1>12, <1>13, <1>17 DEF Tables, ClientRows
  <2> QED
    BY <1>1, <1>2, <1>5, <1>7, <1>12, <1>13, <1>17, <2>1, <2>2 DEF Tables
<1>20. ASSUME core.on PROVE RunsAs(RestartInbounds(e, ids), e, leftOut')
  <2>1. ASSUME NEW i \in DOMAIN db.inbounds, i \notin ids
        PROVE  Heard(e, i, leftOut') = Heard(db, i, leftOut)
    <3>1. e.inbounds[i].type = db.inbounds[i].type
          /\ TlsOf(e, e.inbounds[i]) = TlsOf(db, db.inbounds[i])
      BY <1>7, <1>8, <1>13, <1>14, <2>1
    <3>2. \A c : /\ Holds(e.clients, c, i) <=> Holds(db.clients, c, i)
                 /\ Holds(e.clients, c, i) => e.clients[c].config = db.clients[c].config
      BY <1>7, <1>17 DEF Holds
    <3>3. \A c : <<c, i>> \in leftOut' <=> <<c, i>> \in leftOut
      BY <1>1, <2>1, OpenedOnes
    <3> QED
      BY <3>1, <3>2, <3>3, SameHeard
  <2>2. \A i \in DOMAIN e.inbounds :
            /\ e.inbounds[i].tag = db.inbounds[i].tag
            /\ i \notin ids => Heard(e, i, leftOut') = Heard(db, i, leftOut)
            /\ i \in ids => \A c : <<c, i>> \notin leftOut'
    BY <1>1, <1>7, <1>12, <1>13, <2>1, OpenedOnes
  <2> QED
    BY <1>7, <1>12, <1>16, <1>20, <2>2, Restarted
<1>21. DbOK(e, last', mislinked') /\ last' \in Counters /\ (~core.on => leftOut' = {})
  BY <1>1, <1>2, <1>16, <1>18, <1>19, OpenedOnes DEF DbOK
<1> QED
  BY <1>1, <1>20, <1>21, SaveKeeps

\* Saves of services leave everything else as it is.
LEMMA ServicesSaved ==
    ASSUME Inv, NEW services, NEW d, d = [db EXCEPT !.services = services],
           last' \in Counters, last'.inbound = last.inbound, last'.client = last.client,
           last'.tls = last.tls, DOMAIN services \subseteq 1 .. last'.service,
           OneService(d), NEW srv,
           core.on => srv = {services[s] : s \in DOMAIN services}
    PROVE  /\ DbOK(d, last', mislinked)
           /\ core.on => RunsAs([core EXCEPT !.srv = srv], d, leftOut)
<1>1. Tables(db, last) /\ OneTag(db) /\ LinksMade(db, mislinked) /\ OutsMade(db)
  BY DEF Inv, DbOK
<1>2. /\ DOMAIN d = DOMAIN db /\ d.clients = db.clients /\ d.inbounds = db.inbounds
      /\ d.tls = db.tls /\ d.services = services
  BY <1>1 DEF Tables, InboundRows, ClientRows
<1>3. \A r : TlsOf(d, r) = TlsOf(db, r)
  BY <1>2 DEF TlsOf
<1>4. OneTag(d) /\ OutsMade(d) /\ SameRows(d, db)
  BY <1>1, <1>2, <1>3 DEF OneTag, OutsMade, SameRows
<1>5. LinksMade(d, mislinked)
  <2>1. ASSUME NEW c \in DOMAIN db.clients \ mislinked
        PROVE  Local(db.clients[c].links) =
                   LinkGenerator(d, db.clients[c].config, db.clients[c].inbounds)
    <3> DEFINE k == db.clients[c].config
               held == db.clients[c].inbounds
    <3>1. Local(db.clients[c].links) = LinkGenerator(db, k, held)
      BY <1>1 DEF LinksMade
    <3> HIDE DEF k, held
    <3>2. LinkGenerator(d, k, held) = LinkGenerator(db, k, held)
      BY <1>4, SameRowsLinks
    <3> QED
      BY <3>1, <3>2 DEF k, held
  <2> QED
    BY <1>2, <2>1 DEF LinksMade
<1>6. Tables(d, last')
  BY <1>1, <1>2 DEF Tables, InboundRows, ClientRows
<1>7. ASSUME core.on PROVE RunsAs([core EXCEPT !.srv = srv], d, leftOut)
  <2>1. [core EXCEPT !.srv = srv] = [in |-> core.in, srv |-> srv, on |-> TRUE]
    BY <1>7, EditedCore
  <2>2. ListensAs(core.in, db, leftOut)
    BY <1>7 DEF Inv, CoreOK, Off, RunsAs
  <2>3. ListensAs(core.in, d, leftOut)
    BY <1>2, <1>4, <2>2, SameRowsListen
  <2>4. srv = {d.services[s] : s \in DOMAIN d.services}
    BY <1>2, <1>7
  <2> DEFINE k == [core EXCEPT !.srv = srv]
  <2>5. k.in = core.in /\ k.on /\ k.srv = srv
    BY <2>1
  <2> HIDE DEF k
  <2>6. k = [in |-> k.in, srv |-> k.srv, on |-> TRUE]
    BY <2>1, <2>5 DEF k
  <2> QED
    BY <2>3, <2>4, <2>5, <2>6 DEF RunsAs, k
<1> QED
  BY <1>4, <1>5, <1>6, <1>7 DEF DbOK

\* A service that is new or edited: what ran under its stored tag goes.
LEMMA SaveServiceKeeps ==
    ASSUME Inv, NEW s \in 1 .. last.service + 1, NEW tag, SaveService(s, tag)
    PROVE  Inv'
<1> DEFINE stored == {db.services[x] : x \in {s} \cap DOMAIN db.services}
           services == Put(db.services, s, tag)
           d == [db EXCEPT !.services = services]
           srv == (core.srv \ stored) \cup {tag}
<1>1. /\ \A x \in DOMAIN db.services \ {s} : db.services[x] # tag
      /\ Save(d, [core EXCEPT !.srv = srv])
      /\ last' = [last EXCEPT !.service = IF s > last.service THEN s ELSE last.service]
      /\ leftOut' = leftOut /\ mislinked' = mislinked
  BY DEF SaveService
<1>2. last \in Counters /\ Tables(db, last) /\ OneService(db) /\ last.service \in Nat
  BY DEF Inv, DbOK, Counters
<1>3. /\ last' \in Counters /\ last'.inbound = last.inbound /\ last'.client = last.client
      /\ last'.tls = last.tls
  BY <1>1, <1>2 DEF Counters
<1>4. /\ DOMAIN services = DOMAIN db.services \cup {s} /\ services[s] = tag
      /\ \A x \in DOMAIN db.services : x # s => services[x] = db.services[x]
  BY DEF Put, Over
<1>5. d = [db EXCEPT !.services = services]
  OBVIOUS
<1> HIDE DEF services
<1>6. d.services = services
  BY <1>2 DEF Tables, InboundRows, ClientRows
<1> HIDE DEF d
<1>7. DOMAIN services \subseteq 1 .. last'.service
  <2>1. last'.service = IF s > last.service THEN s ELSE last.service
    BY <1>1, <1>2 DEF Counters
  <2> QED
    BY <1>2, <1>4, <2>1 DEF Tables, InboundRows, ClientRows
<1>8. OneService(d)
  BY <1>1, <1>2, <1>4, <1>6 DEF OneService
<1>9. ASSUME core.on PROVE srv = {services[x] : x \in DOMAIN services}
  <2>1. core.srv = {db.services[x] : x \in DOMAIN db.services}
    BY <1>9, RunningCore
  <2>2. ASSUME NEW x \in DOMAIN services PROVE services[x] \in srv
    BY <1>2, <1>4, <2>1, <2>2 DEF OneService
  <2>3. ASSUME NEW t \in srv PROVE \E x \in DOMAIN services : t = services[x]
    BY <1>4, <2>1, <2>3
  <2> QED
    BY <2>2, <2>3
<1> HIDE DEF srv
<1>10. DbOK(d, last', mislinked) /\ (core.on => RunsAs([core EXCEPT !.srv = srv], d, leftOut))
  BY <1>3, <1>5, <1>7, <1>8, <1>9, ServicesSaved, ZenonT(60)
<1> QED
  BY <1>1, <1>3, <1>10, SaveKeeps, StoppedCore

\* A deleted service.
LEMMA DeleteServiceKeeps ==
    ASSUME Inv, NEW tag, DeleteService(tag)
    PROVE  Inv'
<1> DEFINE gone == {s \in DOMAIN db.services : db.services[s] = tag}
           services == Without(db.services, gone)
           d == [db EXCEPT !.services = services]
           srv == core.srv \ {tag}
<1>1. /\ Save(d, [core EXCEPT !.srv = srv]) /\ last' = last
      /\ leftOut' = leftOut /\ mislinked' = mislinked
  BY DEF DeleteService
<1>2. last \in Counters /\ Tables(db, last) /\ OneService(db)
  BY DEF Inv, DbOK
<1>3. /\ DOMAIN services = DOMAIN db.services \ gone
      /\ \A x \in DOMAIN services : services[x] = db.services[x]
  BY DEF Without, Restrict
<1>4. d = [db EXCEPT !.services = services]
  OBVIOUS
<1> HIDE DEF services
<1>5. d.services = services
  BY <1>2 DEF Tables, InboundRows, ClientRows
<1> HIDE DEF d
<1>6. DOMAIN services \subseteq 1 .. last'.service
  BY <1>1, <1>2, <1>3 DEF Tables, InboundRows, ClientRows
<1>7. OneService(d)
  BY <1>2, <1>3, <1>5 DEF OneService
<1>8. ASSUME core.on PROVE srv = {services[x] : x \in DOMAIN services}
  <2>1. core.srv = {db.services[x] : x \in DOMAIN db.services}
    BY <1>8, RunningCore
  <2> QED
    BY <1>3, <2>1
<1> HIDE DEF srv
<1>10. /\ last' \in Counters /\ last'.inbound = last.inbound /\ last'.client = last.client
       /\ last'.tls = last.tls
  BY <1>1, <1>2
<1>9. DbOK(d, last', mislinked) /\ (core.on => RunsAs([core EXCEPT !.srv = srv], d, leftOut))
  BY <1>10, <1>4, <1>6, <1>7, <1>8, ServicesSaved, ZenonT(60)
<1> QED
  BY <1>1, <1>2, <1>9, SaveKeeps, StoppedCore

\* A save that failed, a start and a stop leave the rows alone, and the core off
\* or as they describe it.
LEMMA RowsKept ==
    ASSUME Inv, db' = db, last' = last, mislinked' = mislinked,
           \/ core' \in {Off, Built(db)} /\ leftOut' = {}
           \/ core' = core /\ leftOut' = leftOut
    PROVE  Inv'
<1>1. DbOK(db', last', mislinked') /\ last' \in Counters
  BY DEF Inv
<1>2. (core' = Off /\ leftOut' = {}) \/ RunsAs(core', db, leftOut')
  <2>1. CASE core' \in {Off, Built(db)} /\ leftOut' = {}
    <3>1. RunsAs(Built(db), db, {})
      BY JustBuilt DEF Inv, DbOK
    <3> QED
      BY <2>1, <3>1
  <2>2. CASE core' = core /\ leftOut' = leftOut
    BY <2>2 DEF Inv, CoreOK
  <2> QED
    BY <2>1, <2>2
<1>3. (core' = Off /\ leftOut' = {}) \/ RunsAs(core', db', leftOut')
  BY <1>2, SameRuns, ZenonT(60)
<1>4. CoreOK'
  BY <1>3 DEF CoreOK, RunsAs, ListensAs, Heard, TagsOf, Holders, fetchUsers, TlsOf
<1> QED
  BY <1>1, <1>4 DEF Inv, DbOK, Tables, InboundRows, ClientRows, OneTag, OneService,
                    LinksMade, OutsMade, LinkGenerator, TlsOf

-----------------------------------------------------------------------------
(* The invariant *)

\* The empty database with the core off satisfies the invariant.
LEMMA StartsRight == Init => Inv
<1> SUFFICES ASSUME Init PROVE Inv
  OBVIOUS
<1>1. /\ db = [inbounds |-> NoRows, clients |-> NoRows, tls |-> NoRows, services |-> NoRows]
      /\ last = [inbound |-> 0, client |-> 0, tls |-> 0, service |-> 0] /\ core = Off
      /\ leftOut = {}
  BY DEF Init, EmptyDb
<1>2. DOMAIN NoRows = {}
  BY DEF NoRows
<1>3. Tables(db, last) /\ last \in Counters
  BY <1>1, <1>2 DEF Tables, InboundRows, ClientRows, Counters
<1>4. OneTag(db) /\ OneService(db) /\ LinksMade(db, mislinked) /\ OutsMade(db)
  BY <1>1, <1>2 DEF OneTag, OneService, LinksMade, OutsMade
<1> QED
  BY <1>1, <1>3, <1>4 DEF Inv, DbOK, CoreOK

\* The forms of clients and inbounds have their fields.
LEMMA Forms ==
    /\ \A f \in ClientForms : DOMAIN f = ClientFields /\ f.inbounds \subseteq Inbounds
    /\ \A row \in InboundForms : \A out : RowOK([row EXCEPT !.out = out])
    /\ \A row \in InboundForms : RowOK(row)
<1>1. ASSUME NEW f \in ClientForms
      PROVE  DOMAIN f = ClientFields /\ f.inbounds \subseteq Inbounds
  BY DEF ClientForms, ClientFields
<1>2. ASSUME NEW row \in InboundForms PROVE RowOK(row)
  BY DEF InboundForms, RowOK, InboundFields
<1>3. ASSUME NEW row \in InboundForms, NEW out PROVE RowOK([row EXCEPT !.out = out])
  <2> DEFINE r == [row EXCEPT !.out = out]
  <2>1. DOMAIN r = DOMAIN row /\ r.tag = row.tag /\ r.type = row.type /\ r.tls = row.tls
    BY DEF InboundForms
  <2> HIDE DEF r
  <2>2. RowOK(r)
    BY <1>2, <2>1 DEF RowOK
  <2> QED
    BY <2>2 DEF r
<1> QED
  BY <1>1, <1>2, <1>3

\* Every step keeps the invariant.
LEMMA StepKeeps == Inv /\ [Next]_vars => Inv'
<1> SUFFICES ASSUME Inv, [Next]_vars PROVE Inv'
  OBVIOUS
<1>0. last \in Counters
  BY DEF Inv
<1>1. CASE SomeClients
  <2>1. ASSUME NEW n \in 1 .. 2,
               NEW forms \in [last.client + 1 .. last.client + n -> ClientForms], NewClients(forms)
        PROVE  Inv'
    BY <2>1, Forms, NewClientsKeep
  <2>3. ASSUME NEW c \in 1 .. last.client, NEW form \in ClientForms, EditClient(c, form)
        PROVE  Inv'
    BY <2>3, Forms, EditClientKeeps
  <2>4. ASSUME NEW ids \in SUBSET DOMAIN db.clients, NEW first \in ids,
               NEW enable \in [ids -> BOOLEAN], NEW list \in [ids -> SUBSET Inbounds],
               EditClients(first, enable, list)
        PROVE  Inv'
    <3>1. DOMAIN list \subseteq DOMAIN db.clients /\ \A c \in DOMAIN list : list[c] \subseteq Inbounds
      OBVIOUS
    <3> QED
      BY <2>4, <3>1, EditClientsKeep
  <2>5. ASSUME NEW ids \in SUBSET DOMAIN db.clients, DeleteClients(ids) PROVE Inv'
    BY <2>5, DeleteClientsKeep
  <2> QED
    BY <1>1, <2>1, <2>3, <2>4, <2>5 DEF SomeClients
<1>2. CASE SomeInbounds
  <2>1. ASSUME NEW row \in InboundForms, NEW chosen, NewInbound(row, chosen) PROVE Inv'
    BY <2>1, Forms, NewInboundKeeps
  <2>2. ASSUME NEW i \in Inbounds, NEW row \in InboundForms, NEW out,
               EditInbound(i, [row EXCEPT !.out = out])
        PROVE  Inv'
    BY <2>2, Forms, EditInboundKeeps
  <2>3. ASSUME NEW tag, DeleteInbound(tag) PROVE Inv'
    BY <2>3, DeleteInboundKeeps
  <2> QED
    BY <1>2, <2>1, <2>2, <2>3 DEF SomeInbounds
<1>3. CASE SomeOthers
  <2>1. ASSUME NEW v, NewTls(v) PROVE Inv'
    BY <2>1, NewTlsKeeps
  <2>2. ASSUME NEW id \in 1 .. last.tls, NEW v, EditTls(id, v) PROVE Inv'
    BY <2>2, EditTlsKeeps
  <2>3. ASSUME NEW id \in 1 .. last.tls, DeleteTls(id) PROVE Inv'
    BY <2>3, DeleteTlsKeeps
  <2>4. ASSUME NEW s \in 1 .. last.service + 1, NEW tag, SaveService(s, tag) PROVE Inv'
    BY <2>4, SaveServiceKeeps
  <2>5. ASSUME NEW tag, DeleteService(tag) PROVE Inv'
    BY <2>5, DeleteServiceKeeps
  <2> QED
    BY <1>3, <2>1, <2>2, <2>3, <2>4, <2>5 DEF SomeOthers
<1>4. ASSUME NEW tag, FailedSave(tag) PROVE Inv'
  BY <1>4, RowsKept DEF FailedSave, Restored
<1>5. CASE Start
  BY <1>5, RowsKept, StoppedCore DEF Start
<1>6. CASE Stop
  BY <1>6, RowsKept DEF Stop
<1>7. CASE UNCHANGED vars
  BY <1>7, RowsKept DEF vars
<1> QED
  BY <1>1, <1>2, <1>3, <1>4, <1>5, <1>6, <1>7 DEF Next

\* In every state the tables are as Tables says, a tag names one inbound and one
\* service, links and outbounds are those of the rows, and the core is off or
\* the one that the rows describe.
THEOREM RowsAndCore == Spec => []Inv
BY StartsRight, StepKeeps, PTL DEF Spec

-----------------------------------------------------------------------------
(* What follows *)

\* Rows refer to ids that were given out and to templates that exist: a template
\* in use is not deleted (TlsService.Save).
THEOREM ObjectTypes == Spec => []TypeOK
<1>1. Inv => TypeOK
  <2> SUFFICES ASSUME Inv PROVE TypeOK
    OBVIOUS
  <2>1. Tables(db, last) /\ (core = Off \/ RunsAs(core, db, leftOut))
    BY DEF Inv, DbOK, CoreOK
  <2>2. core.on \/ core = Off
    BY <2>1 DEF RunsAs
  <2> QED
    BY <2>1, <2>2 DEF Tables, InboundRows, ClientRows, TypeOK
<1> QED
  BY <1>1, RowsAndCore, PTL

\* Whatever was saved, in whatever order and from forms however old, a running
\* core serves what one started from the rows would, but for the clients that
\* were added together with others and left out (SaveWithApply, client.go).
THEOREM RunningCoreIsBuilt == Spec => []RunningIsBuilt
<1>1. ASSUME Inv, core.on PROVE core = Built(Told(db, leftOut))
  <2> DEFINE T == Told(db, leftOut)
  <2>1. Tables(db, last) /\ OneTag(db)
    BY <1>1 DEF Inv, DbOK
  <2>2. /\ T.inbounds = db.inbounds /\ T.tls = db.tls /\ T.services = db.services
        /\ T.clients = [c \in DOMAIN db.clients |->
                [db.clients[c] EXCEPT !.inbounds =
                    {i \in db.clients[c].inbounds : <<c, i>> \notin leftOut}]]
    BY <2>1 DEF Told, Tables
  <2> HIDE DEF T
  <2>3. /\ DOMAIN T.clients = DOMAIN db.clients
        /\ \A c \in DOMAIN db.clients :
              /\ T.clients[c].enable = db.clients[c].enable
              /\ T.clients[c].config = db.clients[c].config
              /\ T.clients[c].inbounds = {i \in db.clients[c].inbounds : <<c, i>> \notin leftOut}
    BY <2>1, <2>2 DEF Tables, ClientRows, ClientFields
  <2>4. \A i : TlsOf(T, T.inbounds[i]) = TlsOf(db, db.inbounds[i])
    BY <2>2 DEF TlsOf
  <2>5. \A i, c : LET known == Holds(db.clients, c, i) /\ <<c, i>> \notin leftOut
                  IN /\ Holds(T.clients, c, i) <=> known
                     /\ known => T.clients[c].config = db.clients[c].config
    BY <2>3 DEF Holds
  <2>6. ASSUME NEW i \in DOMAIN db.inbounds PROVE Listener(T, i) = Heard(db, i, leftOut)
    <3>0. /\ T.inbounds[i].type = db.inbounds[i].type
          /\ TlsOf(T, T.inbounds[i]) = TlsOf(db, db.inbounds[i])
          /\ \A c : LET known == Holds(T.clients, c, i) /\ <<c, i>> \notin {}
                    IN /\ known <=> Holds(db.clients, c, i) /\ <<c, i>> \notin leftOut
                       /\ known => T.clients[c].config = db.clients[c].config
      BY <2>2, <2>4, <2>5
    <3>1. Heard(T, i, {}) = Heard(db, i, leftOut)
      BY <3>0, SameHeard
    <3>2. Heard(T, i, {}) = Listener(T, i)
      BY JustOpened
    <3> QED
      BY <3>1, <3>2
  <2>7. OneTag(T) /\ TagsOf(T, DOMAIN T.inbounds) = TagsOf(db, DOMAIN db.inbounds)
    BY <2>1, <2>2 DEF OneTag, TagsOf
  <2>8. core.in = [t \in TagsOf(T, DOMAIN T.inbounds) |-> core.in[t]]
    BY <1>1, <2>7, RunningCore
  <2>9. \A i \in DOMAIN T.inbounds : core.in[T.inbounds[i].tag] = Listener(T, i)
    BY <1>1, <2>2, <2>6, RunningCore
  <2>10. core.in = Listeners(T, DOMAIN T.inbounds)
    BY <2>7, <2>8, <2>9, ListenersOf
  <2>11. core = [in |-> core.in, srv |-> {db.services[s] : s \in DOMAIN db.services}, on |-> TRUE]
    BY <1>1 DEF Inv, CoreOK, Off, RunsAs
  <2>12. core = Built(T)
    BY <2>2, <2>10, <2>11 DEF Built
  <2> QED
    BY <2>12 DEF T
<1>2. Inv => RunningIsBuilt
  BY <1>1 DEF RunningIsBuilt
<1> QED
  BY <1>2, RowsAndCore, PTL

\* What a running core lets an enabled client in with.
LEMMA ServedClient ==
    ASSUME Inv, core.on, NEW i \in DOMAIN db.inbounds
    PROVE  /\ db.inbounds[i].tag \in DOMAIN core.in
           /\ core.in[db.inbounds[i].tag].type = db.inbounds[i].type
           /\ core.in[db.inbounds[i].tag].tls = TlsOf(db, db.inbounds[i])
           /\ \A c \in DOMAIN db.clients :
                 /\ db.clients[c].enable /\ i \in db.clients[c].inbounds
                 /\ db.inbounds[i].type # "direct" /\ <<c, i>> \notin leftOut
                 => db.clients[c].config \in core.in[db.inbounds[i].tag].users
<1>1. Tables(db, last)
  BY DEF Inv, DbOK
<1>2. core.in[db.inbounds[i].tag] = Heard(db, i, leftOut) /\ db.inbounds[i].tag \in DOMAIN core.in
  BY RunningCore DEF TagsOf
<1>3. db.inbounds[i].type # "direct" => HasUsers(db.inbounds[i].type)
  BY <1>1, ObjectsAssumption DEF Tables, InboundRows, ClientRows, HasUsers
<1>4. ASSUME NEW c \in DOMAIN db.clients, db.clients[c].enable, i \in db.clients[c].inbounds,
             db.inbounds[i].type # "direct", <<c, i>> \notin leftOut
      PROVE  db.clients[c].config
                \in fetchUsers(db, db.inbounds[i].type, {k \in Holders(db, i) : <<k, i>> \notin leftOut})
  BY <1>3, <1>4 DEF fetchUsers, Holders
<1> QED
  BY <1>2, <1>4 DEF Heard

\* Every local link in the subscription of an enabled client opens on the
\* running core, unless a bulk save made the client's links from the list of
\* another or left the client out (GetSubs, LinkGenerator, client.go).
THEOREM LinksOpen == Spec => []OfferedLinksOpen
<1>1. ASSUME Inv, core.on, NEW c \in DOMAIN db.clients \ mislinked, db.clients[c].enable,
             NEW l \in GetSubs(c) \ External(GetSubs(c)),
             \A i \in IdsOf(db, l.remark) : <<c, i>> \notin leftOut
      PROVE  Serves(l.remark, l.uri.type, l.uri.tls, l.uri.config)
  <2> DEFINE k == db.clients[c].config
             held == db.clients[c].inbounds
  <2>1. l \in LinkGenerator(db, k, held)
    BY <1>1 DEF Inv, DbOK, LinksMade, Local, External, GetSubs
  <2>2. PICK i \in held : /\ i \in DOMAIN db.inbounds /\ l = LinkOf(db, k, i)
                          /\ db.inbounds[i].type = "vless"
    BY <2>1, LinksAre DEF InboundTypeWithLink
  <2>3. k \in core.in[db.inbounds[i].tag].users
    <3>1. i \in IdsOf(db, l.remark)
      BY <2>2 DEF IdsOf, LinkOf
    <3> QED
      BY <1>1, <2>2, <3>1, ServedClient
  <2> HIDE DEF k
  <2>4. /\ l.remark = db.inbounds[i].tag /\ l.uri.type = db.inbounds[i].type
        /\ l.uri.tls = TlsOf(db, db.inbounds[i]) /\ l.uri.config = k
    BY <2>2 DEF LinkOf
  <2> QED
    BY <1>1, <2>2, <2>3, <2>4, ServedClient DEF Serves
<1>2. Inv => OfferedLinksOpen
  BY <1>1 DEF OfferedLinksOpen
<1> QED
  BY <1>2, RowsAndCore, PTL

\* And an enabled client whose links are its own finds one for every listener
\* that lets it in and whose type has links: no save of an inbound or of a
\* template leaves a client behind (UpdateLinksByInboundChange, inbounds.go).
THEOREM NobodyLeftBehind == Spec => []ServedIsOffered
<1>1. ASSUME Inv, core.on, NEW c \in DOMAIN db.clients \ mislinked, db.clients[c].enable,
             NEW i \in db.clients[c].inbounds \cap DOMAIN db.inbounds,
             db.inbounds[i].type \in InboundTypeWithLink
      PROVE  \E l \in GetSubs(c) :
                /\ l.type = "local" /\ l.remark = db.inbounds[i].tag
                /\ l.uri = [config |-> db.clients[c].config, type |-> db.inbounds[i].type,
                            tls |-> core.in[db.inbounds[i].tag].tls]
  <2> DEFINE k == db.clients[c].config
             held == db.clients[c].inbounds
             l == LinkOf(db, k, i)
  <2>1. l \in LinkGenerator(db, k, held)
    BY <1>1, LinksAre
  <2>2. l \in GetSubs(c)
    <3>1. Local(db.clients[c].links) = LinkGenerator(db, k, held)
      BY <1>1 DEF Inv, DbOK, LinksMade
    <3> HIDE DEF l, k, held
    <3> QED
      BY <2>1, <3>1 DEF Local, GetSubs
  <2>3. core.in[db.inbounds[i].tag].tls = TlsOf(db, db.inbounds[i])
    BY <1>1, ServedClient
  <2> HIDE DEF k
  <2>4. /\ l.type = "local" /\ l.remark = db.inbounds[i].tag
        /\ l.uri = [config |-> k, type |-> db.inbounds[i].type,
                    tls |-> core.in[db.inbounds[i].tag].tls]
    BY <2>3 DEF LinkOf
  <2> QED
    BY <2>2, <2>4 DEF k
<1>2. Inv => ServedIsOffered
  BY <1>1, SMTT(30) DEF ServedIsOffered
<1> QED
  BY <1>2, RowsAndCore, PTL

\* The outbounds of JSON and Clash subscriptions open too, but for those that a
\* direct inbound kept and those of an inbound that was not told of the client
\* (GetJson, GetClash, FillOutJson).
THEOREM OutboundsOpen == Spec => []OfferedOutboundsOpen
<1>1. ASSUME Inv, core.on, NEW c \in DOMAIN db.clients, db.clients[c].enable,
             NEW o \in JsonOutbounds(c), core.in[o.tag].type # "direct",
             \A i \in IdsOf(db, o.tag) : <<c, i>> \notin leftOut
      PROVE  Serves(o.tag, o.type, o.tls, o.config)
  <2> DEFINE k == db.clients[c].config
  <2>1. PICK i \in db.clients[c].inbounds \cap DOMAIN db.inbounds :
            o = [tag |-> db.inbounds[i].tag, type |-> db.inbounds[i].out.type,
                 tls |-> db.inbounds[i].out.tls, config |-> k]
    BY DEF JsonOutbounds
  <2>2. i \in DOMAIN db.inbounds /\ i \in db.clients[c].inbounds
    OBVIOUS
  <2>3. /\ o.tag = db.inbounds[i].tag /\ o.type = db.inbounds[i].out.type
        /\ o.tls = db.inbounds[i].out.tls /\ o.config = k
    BY <2>1
  <2>4. db.inbounds[i].type # "direct"
    BY <1>1, <2>2, <2>3, ServedClient
  <2>5. /\ db.inbounds[i].out.type = db.inbounds[i].type
        /\ db.inbounds[i].out.tls = TlsOf(db, db.inbounds[i])
    <3>1. OutsMade(db)
      BY <1>1 DEF Inv, DbOK
    <3>2. db.inbounds[i].out = [type |-> db.inbounds[i].type,
                                tls |-> TlsOf(db, db.inbounds[i])]
      BY <2>2, <2>4, <3>1 DEF OutsMade
    <3> QED
      BY <3>2
  <2>6. k \in core.in[db.inbounds[i].tag].users
    <3>1. i \in IdsOf(db, o.tag)
      BY <2>2, <2>3 DEF IdsOf
    <3> QED
      BY <1>1, <2>2, <2>4, <3>1, ServedClient
  <2> HIDE DEF k
  <2> QED
    BY <1>1, <2>2, <2>3, <2>5, <2>6, ServedClient DEF Serves
<1>2. Inv => OfferedOutboundsOpen
  BY <1>1 DEF OfferedOutboundsOpen
<1> QED
  BY <1>2, RowsAndCore, PTL

=============================================================================
