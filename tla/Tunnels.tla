------------------------------- MODULE Tunnels -------------------------------
(***************************************************************************)
(* Tunnels and outbounds: the rows of endpoints, outbounds and managed     *)
(* route rules, the devices registered with Cloudflare WARP, and the forms *)
(* through which administrators change them (src/service/endpoints.go,     *)
(* outbounds.go, egress_tags.go, wireguard.go, warp.go and the endpoint    *)
(* path of config.go).                                                     *)
(*                                                                         *)
(* A save holds configSaveMu and one transaction from beginning to end, so *)
(* it is one step; it may also fail at any point, for reasons outside the  *)
(* model: then the rows stay, and only what was done at Cloudflare is left. *)
(* The running core is the subject of CoreRuntime.  A form is read without *)
(* a lock and may be saved much later, or refer to a row that is gone.     *)
(***************************************************************************)
EXTENDS WireGuardForm

CONSTANTS Devices,   \* names of WARP devices
          Licenses,  \* WARP licenses; a new device has "free"
          MaxPeers,  \* bound: peers of a tunnel
          Worlds     \* inputs and bounds, one record for each question: the
                     \* tags, the peers that can be added (menu), the rows
                     \* that can be created (rows), the user's route rules
                     \* (rules), and how many rows are ever created (maxId,
                     \* maxOutbound)

ASSUME TunnelsAssumption ==
    /\ Devices \cap {"", Redacted} = {}
    /\ \A w \in Worlds :
          /\ \A row \in w.rows : IsRow(row) /\ ForgetsNoKey(row) /\ row.device = ""
          /\ \A peer \in w.menu : DOMAIN peer = PeerFields

VARIABLES
    world,       \* the record of Worlds chosen at the start
    endpoints,   \* id -> row
    outbounds,   \* id -> tag
    routes,      \* managed_route_rules
    rules,       \* route rules of the user's configuration
    lastId, lastOutbound,
    devices,     \* at Cloudflare: license of each device, and those it had
    form         \* a form that is open, or NoForm

vars == <<world, endpoints, outbounds, routes, rules, lastId, lastOutbound, devices, form>>

NoForm == [id |-> 0]
Put(f, x, v) == [y \in DOMAIN f \cup {x} |-> IF y = x THEN v ELSE f[y]]
Drop(f, S) == [x \in DOMAIN f \ S |-> f[x]]
Without(s, i) == SubSeq(s, 1, i - 1) \o SubSeq(s, i + 1, Len(s))

EndpointTags(others) == {endpoints[e].tag : e \in DOMAIN endpoints \ others}
OutboundTags(others) == {outbounds[o] : o \in DOMAIN outbounds \ others}

\* Mutant: a tag is compared with rows of its own kind only.
TagOfOwnKind(kind, id, tag) ==
    IF kind = "endpoint" THEN tag \notin EndpointTags({id})
    ELSE tag \notin OutboundTags({id})

ensureEgressTagAvailable(kind, id, tag) ==
    /\ tag # ""
    /\ tag \notin EndpointTags(IF kind = "endpoint" THEN {id} ELSE {})
    /\ tag \notin OutboundTags(IF kind = "outbound" THEN {id} ELSE {})

-----------------------------------------------------------------------------
(* Endpoints *)

Init ==
    /\ world \in Worlds
    /\ endpoints = <<>> /\ outbounds = <<>> /\ routes = {} /\ rules = {}
    /\ lastId = 0 /\ lastOutbound = 0
    /\ devices = <<>>
    /\ form = NoForm

RoutesOf(tags) == {m \in routes : m.tag \in tags}

\* Mutant: the routes of a renamed tunnel stay.
syncForgetsOldTag(oldTag, row) ==
    routes' = (routes \ RoutesOf({row.tag})) \cup ManagedRoutes(row)

syncWireGuardManagedRoute(oldTag, row) ==
    routes' = (routes \ RoutesOf({oldTag, row.tag})) \cup ManagedRoutes(row)

\* The end of EndpointService.Save and of saveEndpointWithApply.
Store(id, oldTag, row) ==
    LET n == normalizeAndValidateWireGuard(row)
    IN  /\ Accepted(row)
        /\ ensureEgressTagAvailable("endpoint", id, n.tag)
        /\ ValidateConfig(n)
        /\ endpoints' = Put(endpoints, id, n)
        /\ syncWireGuardManagedRoute(oldTag, n)

\* A WARP tunnel gets a device at Cloudflare before its row is stored: when
\* a later step fails, the device is there and no row knows it.
RegisterWarp(id, row) ==
    \E d \in Devices \ DOMAIN devices :
        /\ devices' = Put(devices, d, [now |-> "free", had |-> {"free"}])
        /\ \/ Store(id, row.tag, [row EXCEPT !.priv = d, !.device = d,
                                             !.token = d, !.license = "free"])
           \/ UNCHANGED <<endpoints, routes>>

NewEndpoint(row) ==
    /\ lastId < world.maxId
    /\ IF row.type = "warp"
       THEN /\ ensureEgressTagAvailable("endpoint", 0, row.tag)
            /\ RegisterWarp(lastId + 1, row)
       ELSE Store(lastId + 1, row.tag, row) /\ UNCHANGED devices
    /\ lastId' = IF lastId + 1 \in DOMAIN endpoints' THEN lastId + 1 ELSE lastId
    /\ UNCHANGED <<outbounds, rules, lastOutbound, form>>

\* Mutant: the answer of Cloudflare is ignored.
SetWarpLicenseUnasked(old, id, row) ==
    /\ row.license # "" /\ UNCHANGED devices
    /\ Store(id, old.tag, row)

\* Cloudflare is told of a license that differs from the stored one; it
\* refuses, or accepts although the row may not be stored afterwards.
SetWarpLicense(old, id, row) ==
    /\ row.device # "" /\ row.token # "" /\ row.license # ""
    /\ \/ /\ row.license = old.license
          /\ Store(id, old.tag, row)
          /\ UNCHANGED devices
       \/ /\ row.license # old.license
          /\ row.token = row.device /\ row.device \in DOMAIN devices
          /\ devices' = [devices EXCEPT ![row.device] =
                 [now |-> row.license, had |-> @.had \cup {row.license}]]
          /\ Store(id, old.tag, row) \/ UNCHANGED <<endpoints, routes>>

EditEndpoint(id, sent) ==
    /\ id \in DOMAIN endpoints
    /\ LET old == endpoints[id]
           row == Merge(sent, old)
       IN  IF row.type = "warp"
           THEN /\ ensureEgressTagAvailable("endpoint", id, row.tag)
                /\ SetWarpLicense(old, id, row)
           ELSE Store(id, old.tag, row) /\ UNCHANGED devices
    /\ UNCHANGED <<outbounds, rules, lastId, lastOutbound>>

DeleteEndpoint(tag) ==
    /\ tag \in EndpointTags({})
    /\ routes' = routes \ RoutesOf({tag})
    /\ endpoints' = Drop(endpoints, {e \in DOMAIN endpoints : endpoints[e].tag = tag})
    /\ UNCHANGED <<outbounds, rules, lastId, lastOutbound, devices, form>>

\* The changes of an administrator to a form: a tag, a license, forwarding,
\* the schema of an old row brought up to date, and then a peer added,
\* dropped or freed of its shared key.
Edited(f) ==
    {f} \cup {[f EXCEPT !.tag = t] : t \in world.tags}
    \cup (IF f.type = "warp"
          THEN {[f EXCEPT !.license = l] : l \in Licenses}
          ELSE IF ~f.strict THEN {[f EXCEPT !.strict = TRUE]}
          ELSE {[f EXCEPT !.hub = ~@]}
               \cup {[f EXCEPT !.peers = Append(@, p)] :
                         p \in IF Len(f.peers) < MaxPeers THEN world.menu ELSE {}}
               \cup {[f EXCEPT !.peers = Without(@, i)] : i \in DOMAIN f.peers}
               \cup {[f EXCEPT !.peers[i].psk = "", !.peers[i].pskSet = "false"] :
                         i \in DOMAIN f.peers})

OpenForm(id) ==
    /\ form = NoForm
    /\ form' = [id |-> id, row |-> Redact(endpoints[id])]
    /\ UNCHANGED <<endpoints, outbounds, routes, rules, lastId, lastOutbound, devices>>

CloseForm ==
    /\ form # NoForm /\ form' = NoForm
    /\ UNCHANGED <<endpoints, outbounds, routes, rules, lastId, lastOutbound, devices>>

\* The open form is saved; after an error it stays open.
SaveForm ==
    /\ form # NoForm
    /\ \E sent \in Edited(form.row) : EditEndpoint(form.id, sent)
    /\ form' = IF endpoints' = endpoints THEN form ELSE NoForm

\* Another administrator reads, changes and saves meanwhile.
SaveFresh(id) ==
    /\ \E sent \in Edited(Redact(endpoints[id])) : EditEndpoint(id, sent)
    /\ UNCHANGED form

-----------------------------------------------------------------------------
(* Outbounds and the user's configuration *)

NewOutbound(tag) ==
    /\ lastOutbound < world.maxOutbound
    /\ ensureEgressTagAvailable("outbound", 0, tag)
    /\ outbounds' = Put(outbounds, lastOutbound + 1, tag)
    /\ lastOutbound' = lastOutbound + 1
    /\ UNCHANGED <<endpoints, routes, rules, lastId, devices, form>>

\* The form's id is not looked up: a row that is gone is inserted again.
EditOutbound(id, tag) ==
    /\ ensureEgressTagAvailable("outbound", id, tag)
    /\ outbounds' = Put(outbounds, id, tag)
    /\ UNCHANGED <<endpoints, routes, rules, lastId, lastOutbound, devices, form>>

DeleteOutbound(tag) ==
    /\ tag \in OutboundTags({})
    /\ outbounds' = Drop(outbounds, {o \in DOMAIN outbounds : outbounds[o] = tag})
    /\ UNCHANGED <<endpoints, routes, rules, lastId, lastOutbound, devices, form>>

SaveConfig(R) ==
    /\ rules # R /\ rules' = R
    /\ UNCHANGED <<endpoints, outbounds, routes, lastId, lastOutbound, devices, form>>

Next ==
    /\ \/ \E row \in world.rows : NewEndpoint(row)
       \/ \E id \in DOMAIN endpoints : OpenForm(id) \/ SaveFresh(id)
       \/ SaveForm \/ CloseForm
       \/ \E tag \in world.tags :
             DeleteEndpoint(tag) \/ NewOutbound(tag) \/ DeleteOutbound(tag)
       \/ \E id \in 1..lastOutbound, tag \in world.tags : EditOutbound(id, tag)
       \/ \E R \in world.rules : SaveConfig(R)
    /\ UNCHANGED world

Spec == Init /\ [][Next]_vars

-----------------------------------------------------------------------------
(* Properties *)

\* Tunnels and outbounds share one namespace: no two rows have one tag,
\* whatever is renamed, deleted and brought back by an old form
\* (ensureEgressTagAvailable).
OneNamespace ==
    /\ \A d, e \in DOMAIN endpoints : endpoints[d].tag = endpoints[e].tag => d = e
    /\ \A o, p \in DOMAIN outbounds : outbounds[o] = outbounds[p] => o = p
    /\ EndpointTags({}) \cap OutboundTags({}) = {}

\* The configuration routes exactly the networks that the stored tunnels
\* forward, besides the user's own rules, through every rename, deletion and
\* reuse of a tag (syncWireGuardManagedRoute, injectManagedRoutes).
RoutesFollowTunnels ==
    injectManagedRoutes(rules, routes) =
        rules \cup {m \in UNION {ManagedRoutes(endpoints[e]) : e \in DOMAIN endpoints} :
                        m.cidrs # {}}

\* Traffic has one peer to go to: no address is carried by two peers of a
\* stored tunnel, and the networks behind a site gateway are carried by it
\* (normalizeAndValidateWireGuard).
OnePeerPerAddress ==
    \A e \in DOMAIN endpoints : Checked(endpoints[e]) =>
        LET given == wireGuardRuntimeOptions(endpoints[e])
        IN  \A i, j \in DOMAIN given :
                /\ i # j => \A q \in given[i].allowed, r \in given[j].allowed : ~Overlaps(q, r)
                /\ i # j => given[i].pub # given[j].pub
                /\ \A s \in endpoints[e].peers[i].sites :
                      \E q \in given[i].allowed : Net(s) \subseteq Net(q) /\ s.v6 = q.v6

\* A default route is exported only under the full-tunnel preset
\* (normalizeAndValidateWireGuard, ExportWireGuardPeer).
DefaultRouteByPreset ==
    \A e \in DOMAIN endpoints : Checked(endpoints[e]) =>
        \A i \in DOMAIN endpoints[e].peers :
            LET p == endpoints[e].peers[i]
            IN  /\ Exportable(endpoints[e], p)
                /\ \E q \in ExportAllowed(endpoints[e], p) : q.bits = 0
                => p.cpreset = "full_tunnel"

\* A form that was opened before other saves still gives every peer its own
\* secrets back: what the panel showed redacted is restored by public key,
\* wherever the peer is in the stored row now (mergeWireGuardSecrets).
OwnSecretsRestored ==
    form # NoForm /\ form.id \in DOMAIN endpoints /\ Checked(endpoints[form.id]) =>
        LET old == endpoints[form.id]
            new == Merge(form.row, old)
        IN  /\ ~Blank(old.priv) => new.priv = old.priv
            /\ \A i \in DOMAIN new.peers, j \in DOMAIN old.peers :
                  new.peers[i].pub = old.peers[j].pub =>
                      /\ form.row.peers[i].psk = Redacted /\ old.peers[j].psk # ""
                            => new.peers[i].psk = old.peers[j].psk
                      /\ form.row.peers[i].ckey = Redacted /\ old.peers[j].ckey # ""
                            => new.peers[i].ckey = old.peers[j].ckey

Resaved(row) == Merge(Redact(row), row)

\* A stored tunnel that is read and saved without a change gives sing-box
\* what it gave before, when it is accepted (redact, merge, normalise).
ResaveChangesNothing ==
    \A e \in DOMAIN endpoints : Checked(endpoints[e]) =>
        LET again == Resaved(endpoints[e])
        IN  Accepted(again) =>
                wireGuardRuntimeOptions(normalizeAndValidateWireGuard(again))
                    = wireGuardRuntimeOptions(endpoints[e])

\* A stored WARP tunnel holds the key, the token and a license of one device
\* that Cloudflare knows, although steps after a registration or a change of
\* license fail and forms come back redacted (RegisterWarp, SetWarpLicense).
WarpCredentialsHold ==
    \A e \in DOMAIN endpoints : endpoints[e].type = "warp" =>
        LET row == endpoints[e]
        IN  /\ row.device \in DOMAIN devices
            /\ row.token = row.device /\ row.priv = row.device
            /\ row.license \in devices[row.device].had
            /\ \A f \in DOMAIN endpoints :
                  endpoints[f].device = row.device => f = e

\* "Virtual network prefixes are only allocation ranges for managed
\* clients" (README.en.md:207): a stored tunnel whose peers all have keys of
\* their own is accepted when it is saved again unchanged.
ExistingPeersSaveAgain ==
    \A e \in DOMAIN endpoints :
        (\A i \in DOMAIN endpoints[e].peers :
             endpoints[e].peers[i].keyMode = "existing_peer")
        => Accepted(Resaved(endpoints[e]))

\* "client private key is unavailable; generate a new key for this peer"
\* (wireguard.go:814): what is exported is the key of the peer.
ExportedKeyIsOwn ==
    \A e \in DOMAIN endpoints : \A i \in DOMAIN endpoints[e].peers :
        LET p == endpoints[e].peers[i]
        IN  Exportable(endpoints[e], p) => ExportKey(endpoints[e], p) # Redacted
=============================================================================
