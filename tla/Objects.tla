------------------------------ MODULE Objects ------------------------------
(* The rows an administrator edits besides endpoints: clients, inbounds, TLS  *)
(* templates and services (src/service/client.go, inbounds.go, tls.go,        *)
(* services.go), saved one at a time by ConfigService.SaveWithApply, and what *)
(* three other parts derive from them: the listeners of the running core, the *)
(* links stored in the client rows, and the subscriptions made from both.     *)
(*                                                                            *)
(* configSaveMu and one transaction make a save a single step; it applies to  *)
(* the running core only what that kind of save touches. A save may come from *)
(* a form opened long ago, so it may name a row that is gone.                 *)
EXTENDS Naturals, FiniteSets, Sequences, Functions

CONSTANTS Tags,       \* tags of inbounds and services
          Configs,    \* a client's name and credentials, as one value
          Types,      \* inbound types, of "vless", "shadowtls" and "direct"
          MaxRows,     \* clients, inbounds and services given an id in a run
          MaxTls,      \* TLS templates given an id in a run
          Versions    \* contents of a TLS template

ASSUME ObjectsAssumption ==
    /\ Types \subseteq {"vless", "shadowtls", "direct"}
    /\ {MaxRows, MaxTls} \subseteq Nat
    /\ 0 \notin Versions           \* 0 stands for no template
    /\ "" \notin Tags            \* the managers of sing-box refuse an empty tag

VARIABLES db,     \* the tables, see below
          last,   \* [inbound, client, tls, service]: the last id given out
          core,    \* Off, or the listeners and services that run
          leftOut,    \* <<client, inbound>>: stored by a bulk save that did not
                      \* restart the inbound, which has not restarted since
          mislinked   \* clients whose local links a bulk save made from the
                      \* list of inbounds of another client
vars == <<db, last, core, leftOut, mislinked>>

(* inbounds: id -> [tag, type, tls, out], with tls = 0 for none;              *)
(* clients: id -> [enable, config, inbounds, links]; tls: id -> content;      *)
(* services: id -> tag.                                                       *)
NoRows == [i \in {} |-> 0]
EmptyDb == [inbounds |-> NoRows, clients |-> NoRows, tls |-> NoRows, services |-> NoRows]
Off == [in |-> NoRows, srv |-> {}, on |-> FALSE]
NoOut == [type |-> "", tls |-> 0]
Rows == last.client + last.inbound + last.service
Over(new, old) ==
    [i \in DOMAIN new \cup DOMAIN old |-> IF i \in DOMAIN new THEN new[i] ELSE old[i]]
Put(table, i, row) == Over([x \in {i} |-> row], table)
Without(table, ids) == Restrict(table, DOMAIN table \ ids)

(* Which types have users (hasUser) and which have links.                     *)
HasUsers(type) == type \in {"vless", "shadowtls"}
InboundTypeWithLink == {"vless"}

(* The TLS content an inbound is served with; 0: none.                        *)
TlsOf(d, row) == IF row.tls \in DOMAIN d.tls THEN d.tls[row.tls] ELSE 0

(* LinkGenerator: the links that a client's credentials give for inbounds,    *)
(* with the tag as the remark; none for the other types.                      *)
LinkGenerator(d, config, ids) ==
    {[remark |-> d.inbounds[i].tag, type |-> "local",
      uri |-> [config |-> config, type |-> d.inbounds[i].type, tls |-> TlsOf(d, d.inbounds[i])]] :
        i \in {i \in ids \cap DOMAIN d.inbounds : d.inbounds[i].type \in InboundTypeWithLink}}

External(links) == {l \in links : l.type # "local"}

(* FillOutJson: the outbound that JSON and Clash subscriptions start from. A  *)
(* direct inbound keeps whatever the form carried.                            *)
FillOutJson(d, row) ==
    IF row.type = "direct" THEN row
    ELSE [row EXCEPT !.out = [type |-> row.type, tls |-> TlsOf(d, row)]]

(* fetchUsers: the enabled ones of some clients, for a type that has users.   *)
fetchUsers(d, type, ids) ==
    {d.clients[c].config : c \in {c \in ids \cap DOMAIN d.clients :
                                    HasUsers(type) /\ d.clients[c].enable}}

(* addUsers: the clients that hold the inbound.                               *)
Holders(d, i) == {c \in DOMAIN d.clients : i \in d.clients[c].inbounds}
Listener(d, i) ==
    [type |-> d.inbounds[i].type, tls |-> TlsOf(d, d.inbounds[i]),
     users |-> fetchUsers(d, d.inbounds[i].type, Holders(d, i))]

TagsOf(d, ids) == {d.inbounds[i].tag : i \in ids \cap DOMAIN d.inbounds}
IdsOf(d, tag) == {i \in DOMAIN d.inbounds : d.inbounds[i].tag = tag}

(* The listeners of the named inbounds, opened from the rows.                 *)
Listeners(d, ids) ==
    [t \in TagsOf(d, ids) |-> Listener(d, CHOOSE i \in IdsOf(d, t) : TRUE)]

(* GetAllConfig of inbounds and services: what a core started now would run.  *)
Built(d) == [in |-> Listeners(d, DOMAIN d.inbounds),
             srv |-> {d.services[s] : s \in DOMAIN d.services}, on |-> TRUE]

-----------------------------------------------------------------------------
(* RestartInbounds: the listeners of the named inbounds that exist are closed *)
(* and opened again from the rows of the transaction.                         *)
RestartInbounds(d, ids) == [core EXCEPT !.in = Over(Listeners(d, ids), @)]

(* These are opened, with every client that their rows have by then.          *)
Opened(ids) == leftOut' = {p \in leftOut : p[2] \notin ids}

(* A save that succeeds: a running core has been changed in place, a stopped  *)
(* one is started from the rows just committed, which may fail (only logged). *)
Save(d, applied) ==
    /\ db' = d
    /\ IF core.on THEN core' = applied ELSE core' \in {Off, Built(d)}

(* Mutant: the rows are rolled back and the core is left as it is.            *)
RestoredNothing(half) == {half}

(* The end of a save that failed, whatever it had done to the core: the rows  *)
(* are rolled back and the core is started again from the configuration read  *)
(* before the save, or stays stopped when that fails.                         *)
Restored(half) == {Off, Built(db)}

-----------------------------------------------------------------------------
(* Clients.                                                                   *)
Inbounds == 1 .. last.inbound

(* updateLinksWithFixedInbounds: local links are made anew for the inbounds   *)
(* of a list that exist, the others are kept. The list is that of the first   *)
(* client of the save, for all of them.                                       *)
WithLinks(client, list) ==
    [client EXCEPT !.links = External(@) \cup LinkGenerator(db, client.config, list)]

(* Mutant: enabling or disabling a client is not seen as a change.            *)
ChangesIgnoreEnable(old, new) ==
    IF old.config # new.config THEN old.inbounds \cup new.inbounds
    ELSE (old.inbounds \ new.inbounds) \cup (new.inbounds \ old.inbounds)

(* findInboundsChanges: the inbounds whose users a save changes.              *)
findInboundsChanges(old, new) ==
    IF old.config # new.config \/ old.enable # new.enable
    THEN old.inbounds \cup new.inbounds
    ELSE (old.inbounds \ new.inbounds) \cup (new.inbounds \ old.inbounds)

SaveClients(table, touched) ==
    LET d == [db EXCEPT !.clients = table] IN Save(d, RestartInbounds(d, touched))

(* "new", and "addbulk" for several clients: the links of all and the restart *)
(* come from the list of the first.                                           *)
NewClients(forms) ==
    LET first == last.client + 1
        list == forms[first].inbounds
    IN /\ Rows + Cardinality(DOMAIN forms) <= MaxRows
       /\ last' = [last EXCEPT !.client = @ + Cardinality(DOMAIN forms)]
       /\ SaveClients(Over([c \in DOMAIN forms |-> WithLinks(forms[c], list)], db.clients),
                      list)
       /\ mislinked' = mislinked \cup {c \in DOMAIN forms : forms[c].inbounds # list}
       /\ leftOut' = IF core.on
                     THEN {p \in leftOut : p[2] \notin list}
                          \cup {p \in (DOMAIN forms) \X Inbounds :
                                   p[2] \in forms[p[1]].inbounds \ list}
                     ELSE {}

(* "edit": refused when the row is gone.                                      *)
EditClient(c, form) ==
    LET touched == findInboundsChanges(db.clients[c], form)
    IN /\ c \in DOMAIN db.clients
       /\ SaveClients(Put(db.clients, c, WithLinks(form, form.inbounds)), touched)
       /\ mislinked' = mislinked \ {c}
       /\ Opened(touched) /\ UNCHANGED last

(* "editbulk": credentials and links come from the stored rows. What any of   *)
(* the clients changes is restarted, and if there is such a thing the links   *)
(* of all of them are made anew from the list of the first.                   *)
EditClients(first, enable, list) ==
    LET ids == DOMAIN list
        new == [c \in ids |-> [db.clients[c] EXCEPT !.enable = enable[c], !.inbounds = list[c]]]
        touched == UNION {findInboundsChanges(db.clients[c], new[c]) : c \in ids}
    IN /\ first \in ids
       /\ SaveClients(Over([c \in ids |-> IF touched = {} THEN new[c]
                                           ELSE WithLinks(new[c], list[first])], db.clients),
                      touched)
       /\ mislinked' = IF touched = {} THEN mislinked
                       ELSE (mislinked \ ids) \cup {c \in ids : list[c] # list[first]}
       /\ Opened(touched) /\ UNCHANGED last

(* "del" and "delbulk".                                                       *)
DeleteClients(ids) ==
    /\ ids # {}
    /\ SaveClients(Without(db.clients, ids), UNION {db.clients[c].inbounds : c \in ids})
    /\ Opened(UNION {db.clients[c].inbounds : c \in ids})
    /\ mislinked' = mislinked \ ids
    /\ UNCHANGED last

-----------------------------------------------------------------------------
(* Inbounds. Their tags are unique in the table, so a save that would repeat  *)
(* one fails.                                                                 *)
FreeTag(tag, i) == IdsOf(db, tag) \subseteq {i}

(* Mutant: the chosen clients hold the new inbound without a link to it.      *)
AddWithoutLinks(d, chosen, i) ==
    Over([c \in chosen \cap DOMAIN d.clients |->
             [d.clients[c] EXCEPT !.inbounds = @ \cup {i}]], d.clients)

(* UpdateClientsOnInboundAdd: the chosen clients hold the new inbound. A link *)
(* they had under its tag goes, of whatever type.                             *)
UpdateClientsOnInboundAdd(d, chosen, i) ==
    Over([c \in chosen \cap DOMAIN d.clients |->
             [d.clients[c] EXCEPT
                 !.inbounds = @ \cup {i},
                 !.links = {l \in @ : l.remark \notin TagsOf(d, {i})}
                           \cup LinkGenerator(d, d.clients[c].config, {i})]], d.clients)

(* Mutant: the links under the old tag stay.                                  *)
LinksForgetOldTag(d, ids, oldTag) ==
    Over([c \in UNION {Holders(d, i) : i \in ids} |->
             LET held == ids \cap d.clients[c].inbounds
             IN [d.clients[c] EXCEPT !.links =
                     {l \in @ : l.type # "local" \/ l.remark \notin TagsOf(d, held)}
                     \cup LinkGenerator(d, d.clients[c].config, held)]], d.clients)

(* UpdateLinksByInboundChange: the clients that hold changed inbounds lose    *)
(* the local links under their tags and the old tag and get new ones.         *)
UpdateLinksByInboundChange(d, ids, oldTag) ==
    Over([c \in UNION {Holders(d, i) : i \in ids} |->
             LET held == ids \cap d.clients[c].inbounds
             IN [d.clients[c] EXCEPT !.links =
                     {l \in @ : l.type # "local" \/ l.remark \notin TagsOf(d, held) \cup {oldTag}}
                     \cup LinkGenerator(d, d.clients[c].config, held)]], d.clients)

(* UpdateClientsOnInboundDelete.                                              *)
UpdateClientsOnInboundDelete(ids, tag) ==
    Over([c \in UNION {Holders(db, i) : i \in ids} |->
             [db.clients[c] EXCEPT !.inbounds = @ \ ids, !.links = {l \in @ : l.remark # tag}]],
         db.clients)

(* "new" with the clients chosen in the form (initUsers), some perhaps gone:  *)
(* the listener opens with the enabled ones of them.                          *)
NewInbound(row, chosen) ==
    LET i == last.inbound + 1
        d == [db EXCEPT !.inbounds = Put(@, i, FillOutJson(db, row))]
        listener == [type |-> row.type, tls |-> TlsOf(db, row),
                     users |-> fetchUsers(db, row.type, chosen)]
    IN /\ Rows < MaxRows
       /\ FreeTag(row.tag, i)
       /\ last' = [last EXCEPT !.inbound = i]
       /\ Save([d EXCEPT !.clients = UpdateClientsOnInboundAdd(d, chosen, i)],
               [core EXCEPT !.in = Put(@, row.tag, listener)])
       /\ Opened({i}) /\ UNCHANGED mislinked

(* "edit": the listener of the stored tag is closed and one opened from the   *)
(* form, with the clients of the id. A row that is gone is inserted again.    *)
EditInbound(i, row) ==
    LET oldTag == IF i \in DOMAIN db.inbounds THEN db.inbounds[i].tag ELSE ""
        d == [db EXCEPT !.inbounds = Put(@, i, FillOutJson(db, row))]
    IN /\ FreeTag(row.tag, i)
       /\ Save([d EXCEPT !.clients = UpdateLinksByInboundChange(d, {i}, oldTag)],
               [core EXCEPT !.in = Put(Without(@, {oldTag}), row.tag, Listener(d, i))])
       /\ Opened({i}) /\ UNCHANGED <<last, mislinked>>

(* "del", by tag; a tag nobody has changes nothing.                           *)
DeleteInbound(tag) ==
    /\ Save([db EXCEPT !.inbounds = Without(@, IdsOf(db, tag)),
                       !.clients = UpdateClientsOnInboundDelete(IdsOf(db, tag), tag)],
            [core EXCEPT !.in = Without(@, {tag})])
    /\ Opened(IdsOf(db, tag)) /\ UNCHANGED <<last, mislinked>>

UsingTls(id) == {i \in DOMAIN db.inbounds : db.inbounds[i].tls = id}

NewTls(version) ==
    /\ last.tls < MaxTls
    /\ last' = [last EXCEPT !.tls = @ + 1]
    /\ Save([db EXCEPT !.tls = Put(@, last.tls + 1, version)], core)
    /\ UNCHANGED <<leftOut, mislinked>>

(* Mutant: the stored outbounds keep the old content of the template.         *)
OutJsonsKept(d, ids) == d.inbounds

(* UpdateOutJsons.                                                            *)
UpdateOutJsons(d, ids) == Over([i \in ids |-> FillOutJson(d, d.inbounds[i])], d.inbounds)

(* "edit" (a row that is gone is inserted again): the inbounds that use the   *)
(* template get new links, outbounds and listeners.                           *)
EditTls(id, version) ==
    LET d == [db EXCEPT !.tls = Put(@, id, version)]
        e == [d EXCEPT !.clients = UpdateLinksByInboundChange(d, UsingTls(id), ""),
                       !.inbounds = UpdateOutJsons(d, UsingTls(id))]
    IN /\ Save(e, RestartInbounds(e, UsingTls(id)))
       /\ Opened(UsingTls(id)) /\ UNCHANGED <<last, mislinked>>

(* Mutant: only inbounds with users count as using a template.                *)
InUseByUsers(id) == \E i \in UsingTls(id) : HasUsers(db.inbounds[i].type)

InUse(id) == UsingTls(id) # {}

(* "del": refused while an inbound uses the template.                         *)
DeleteTls(id) ==
    /\ ~InUse(id)
    /\ Save([db EXCEPT !.tls = Without(@, {id})], core)
    /\ UNCHANGED <<last, leftOut, mislinked>>

(* "new" and "edit" of a service: the one under the stored tag is closed.     *)
SaveService(s, tag) ==
    LET stored == {db.services[x] : x \in {s} \cap DOMAIN db.services}
    IN /\ s > last.service => Rows < MaxRows
       /\ \A x \in DOMAIN db.services \ {s} : db.services[x] # tag
       /\ Save([db EXCEPT !.services = Put(@, s, tag)],
               [core EXCEPT !.srv = (@ \ stored) \cup {tag}])
       /\ last' = [last EXCEPT !.service = IF s > @ THEN s ELSE @]
       /\ UNCHANGED <<leftOut, mislinked>>

DeleteService(tag) ==
    /\ Save([db EXCEPT !.services = Without(@, {s \in DOMAIN @ : @[s] = tag})],
            [core EXCEPT !.srv = @ \ {tag}])
    /\ UNCHANGED <<last, leftOut, mislinked>>

-----------------------------------------------------------------------------
(* A save that fails after it closed a listener: a repeated tag, a port in    *)
(* use, a full disk, a refusal.                                               *)
FailedSave(tag) ==
    /\ core.on
    /\ core' \in Restored([core EXCEPT !.in = Without(@, {tag})])
    /\ leftOut' = {} /\ UNCHANGED <<db, last, mislinked>>

Start == ~core.on /\ core' = Built(db) /\ UNCHANGED <<db, last, leftOut, mislinked>>
Stop == core.on /\ core' = Off /\ leftOut' = {} /\ UNCHANGED <<db, last, mislinked>>

-----------------------------------------------------------------------------
(* What the forms may hold: ids of inbounds that are gone, a TLS template     *)
(* that exists, one external link under a remark of its author's choosing.    *)
ExternalLinks == [remark : Tags, type : {"external"}, uri : {"theirs"}]
Links == {{}} \cup {{l} : l \in ExternalLinks}
ClientForms ==
    [enable : BOOLEAN, config : Configs, inbounds : SUBSET Inbounds, links : Links]
InboundForms == [tag : Tags, type : Types, tls : {0} \cup DOMAIN db.tls, out : {NoOut}]

Init == /\ db = EmptyDb
        /\ last = [inbound |-> 0, client |-> 0, tls |-> 0, service |-> 0]
        /\ core = Off
        /\ leftOut = {} /\ mislinked = {}

SomeClients ==
    \/ \E n \in 1 .. 2 : \E forms \in [last.client + 1 .. last.client + n -> ClientForms] :
          NewClients(forms)
    \/ \E c \in 1 .. last.client, form \in ClientForms : EditClient(c, form)
    \/ \E ids \in SUBSET DOMAIN db.clients : \E first \in ids :
          \E enable \in [ids -> BOOLEAN], list \in [ids -> SUBSET Inbounds] :
             EditClients(first, enable, list)
    \/ \E ids \in SUBSET DOMAIN db.clients : DeleteClients(ids)

SomeInbounds ==
    \/ \E row \in InboundForms, chosen \in SUBSET (1 .. last.client) : NewInbound(row, chosen)
    \/ \E i \in Inbounds, row \in InboundForms :
          EditInbound(i, [row EXCEPT !.out = IF i \in DOMAIN db.inbounds THEN db.inbounds[i].out ELSE @])
    \/ \E tag \in Tags : DeleteInbound(tag)

SomeOthers ==
    \/ \E v \in Versions : NewTls(v)
    \/ \E id \in 1 .. last.tls, v \in Versions : EditTls(id, v)
    \/ \E id \in 1 .. last.tls : DeleteTls(id)
    \/ \E s \in 1 .. last.service + 1, tag \in Tags : SaveService(s, tag)
    \/ \E tag \in Tags : DeleteService(tag)

Next == \/ SomeClients \/ SomeInbounds \/ SomeOthers
        \/ \E tag \in Tags : FailedSave(tag)
        \/ Start \/ Stop

Spec == Init /\ [][Next]_vars

-----------------------------------------------------------------------------
(* Subscriptions (src/sub/). A disabled client has none.                      *)

(* GetSubs: the links stored in the client's row.                             *)
GetSubs(c) == db.clients[c].links

(* GetJson and GetClash: an outbound for each inbound the client holds that   *)
(* has a stored outbound, with the client's credentials for that type.        *)
JsonOutbounds(c) ==
    {[tag |-> db.inbounds[i].tag, type |-> db.inbounds[i].out.type, tls |-> db.inbounds[i].out.tls,
      config |-> db.clients[c].config] :
        i \in {i \in db.clients[c].inbounds \cap DOMAIN db.inbounds : db.inbounds[i].out # NoOut}}

(* What the core would let a client in with.                                  *)
Serves(tag, type, tls, config) ==
    /\ tag \in DOMAIN core.in
    /\ core.in[tag].type = type /\ core.in[tag].tls = tls
    /\ config \in core.in[tag].users

(* Rows refer to ids that were given out, and no inbound to a TLS template    *)
(* that was deleted under it (tls.go, "tls in use").                          *)
TypeOK ==
    /\ DOMAIN db.inbounds \subseteq 1 .. last.inbound
    /\ DOMAIN db.clients \subseteq 1 .. last.client
    /\ DOMAIN db.tls \subseteq 1 .. last.tls
    /\ core.on \/ core = Off
    /\ \A i \in DOMAIN db.inbounds : db.inbounds[i].tls \in {0} \cup DOMAIN db.tls

(* The rows as far as the core has been told of them.                         *)
Told(d, left) ==
    LET told(c) == {i \in d.clients[c].inbounds : <<c, i>> \notin left}
    IN [d EXCEPT !.clients =
            [c \in DOMAIN d.clients |-> [d.clients[c] EXCEPT !.inbounds = told(c)]]]

(* A running core serves exactly what a core started from the database now    *)
(* would, whatever forms the saves came from (SaveWithApply, the restarts of  *)
(* the services it calls). But for this: a client added together with others  *)
(* is unknown to the inbounds that the first of them does not list, until     *)
(* something restarts them (client.go, "addbulk").                            *)
RunningIsBuilt == core.on => core = Built(Told(db, leftOut))

(* Every local link an enabled client's subscription hands out opens: the     *)
(* running core listens under that tag with those parameters and knows the    *)
(* credentials (client.go, genLink.go, subService.go). Not so a client whose  *)
(* links a bulk save made from the list of another, or that an inbound of its *)
(* list has not been told of.                                                 *)
OfferedLinksOpen ==
    \A c \in DOMAIN db.clients \ mislinked : core.on /\ db.clients[c].enable =>
        \A l \in GetSubs(c) \ External(GetSubs(c)) :
            \/ Serves(l.remark, l.uri.type, l.uri.tls, l.uri.config)
            \/ \E i \in IdsOf(db, l.remark) : <<c, i>> \in leftOut

(* Without the exceptions: all that an enabled client is handed out opens.    *)
EveryLinkOpens ==
    \A c \in DOMAIN db.clients : core.on /\ db.clients[c].enable =>
        \A l \in GetSubs(c) \ External(GetSubs(c)) :
            Serves(l.remark, l.uri.type, l.uri.tls, l.uri.config)

(* Conversely an enabled client finds in its subscription a link for every    *)
(* listener that lets it in and whose type has links, so no save of an        *)
(* inbound or of a TLS template leaves a client behind (mislinked ones apart).*)
ServedIsOffered ==
    \A c \in DOMAIN db.clients \ mislinked : core.on /\ db.clients[c].enable =>
        \A i \in db.clients[c].inbounds \cap DOMAIN db.inbounds :
            db.inbounds[i].type \in InboundTypeWithLink =>
                \E l \in GetSubs(c) : /\ l.type = "local" /\ l.remark = db.inbounds[i].tag
                                      /\ l.uri = [config |-> db.clients[c].config, type |-> db.inbounds[i].type,
                                                  tls |-> core.in[db.inbounds[i].tag].tls]

(* The outbounds of JSON and Clash subscriptions open too, except those of an *)
(* inbound that was turned into a direct one, which keeps its outbound, or    *)
(* that has not been told of the client.                                      *)
OfferedOutboundsOpen ==
    \A c \in DOMAIN db.clients : core.on /\ db.clients[c].enable =>
        \A o \in JsonOutbounds(c) :
            \/ core.in[o.tag].type = "direct"
            \/ Serves(o.tag, o.type, o.tls, o.config)
            \/ \E i \in IdsOf(db, o.tag) : <<c, i>> \in leftOut
=============================================================================
