---------------------------- MODULE WireGuardForm ----------------------------
(***************************************************************************)
(* What is computed on one tunnel, without state: the secrets of a form    *)
(* are merged with the stored row, the form is checked and normalised, the *)
(* row is redacted for the panel, turned into managed routes, handed to    *)
(* sing-box or exported to a client (src/service/wireguard.go,             *)
(* src/service/warp.go, src/database/model/endpoints.go).                  *)
(*                                                                         *)
(* Lists of prefixes are sets: the code's order and repetitions are not    *)
(* told apart by what reads them.  A key pair is one name: the private key *)
(* k belongs to the public key k.  "" is an absent field.  A text that is  *)
(* no prefix is refused where the code parses it; keys that are none are   *)
(* not among the inputs.                                                   *)
(***************************************************************************)
EXTENDS Integers, Sequences, FiniteSets

CONSTANTS Width,             \* bits of an address
          MinBits, MaxBits   \* lengths allowed for a virtual network

ASSUME FormAssumption ==
    /\ Width \in Nat \ {0}
    /\ MinBits \in 0..Width /\ MaxBits \in MinBits..Width

RowFields == {"type", "tag", "strict", "priv", "tunnels", "address", "export", "host",
              "hub", "peers", "keys", "defaults", "device", "token", "license"}
PeerFields == {"pub", "role", "mode", "remote", "static", "psk", "pskSet", "pskClear",
               "ckey", "keyMode", "assigned", "sites", "local", "inbounds", "preset",
               "runtime", "allowed", "includeSet", "include", "cpreset", "callowed"}

\* A row of the table of endpoints, of either type, with its list of peers.
IsRow(row) ==
    /\ DOMAIN row = RowFields /\ row.type \in {"wireguard", "warp"}
    /\ row.peers \in Seq({row.peers[i] : i \in DOMAIN row.peers})
    /\ \A i \in DOMAIN row.peers : DOMAIN row.peers[i] = PeerFields

\* No peer of the row asks that its shared key be forgotten.
ForgetsNoKey(row) == \A i \in DOMAIN row.peers : ~row.peers[i].pskClear

Redacted == "[redacted]"
Blank(secret) == secret \in {"", Redacted}

-----------------------------------------------------------------------------
(* Prefixes, as netip.Prefix; an address is its bits, the first one first. *)

Addresses == [1..Width -> {0, 1}]
Prefixes == [v6 : BOOLEAN, addr : Addresses, bits : 0..Width]
Net(p) == {a \in Addresses : \A i \in 1..p.bits : a[i] = p.addr[i]}
Masked(p) == [p EXCEPT !.addr = [i \in 1..Width |-> IF i <= p.bits THEN p.addr[i] ELSE 0]]
IsHost(p) == p.bits = Width
Overlaps(p, q) == p.v6 = q.v6 /\ Net(p) \cap Net(q) # {}
Contains(p, q) == p.v6 = q.v6 /\ q.addr \in Net(p)
Default == {[v6 |-> v, addr |-> [i \in 1..Width |-> 0], bits |-> 0] : v \in BOOLEAN}

validateTunnel(p) == p = Masked(p) /\ p.bits \in MinBits..MaxBits
validateSiteCIDR(p) == p \in Prefixes /\ p = Masked(p) /\ p.bits # 0

\* Inside the virtual network of its family, when there is one.
InTunnel(row, p) == \A t \in row.tunnels : t.v6 = p.v6 => Contains(t, p)

-----------------------------------------------------------------------------
(* normalizeAndValidateWireGuard *)

ModeRole == [static_peer |-> "fixed_node", site_to_site |-> "site_gateway",
             roaming_client |-> "client"]

\* The role by its own name, or by the names of earlier versions.
normalizePeerRole(p) ==
    IF p.role = ""
    THEN IF p.mode = "site_to_site" /\ p.sites = {} /\ p.local = {}
         THEN "fixed_node"
         ELSE IF p.mode = "" THEN "client" ELSE ModeRole[p.mode]
    ELSE IF p.role \in DOMAIN ModeRole THEN ModeRole[p.role] ELSE p.role

RoleMode(role) == CHOOSE m \in DOMAIN ModeRole : ModeRole[m] = role

RemoteMode(p) == IF p.remote # "" THEN p.remote
                 ELSE IF p.static THEN "static" ELSE "dynamic"

KeyMode(p, role) ==
    IF p.keyMode # "" THEN p.keyMode
    ELSE IF p.ckey # "" \/ role = "client" THEN "generated_client"
    ELSE "existing_peer"

\* Without an assigned address, the first host route of each family counts.
Assigned(p) ==
    LET hosts(v) == {q \in p.allowed : IsHost(q) /\ q.v6 = v}
        first(v) == IF hosts(v) = {} THEN {} ELSE {CHOOSE q \in hosts(v) : TRUE}
    IN  IF p.assigned # {} THEN p.assigned ELSE first(FALSE) \cup first(TRUE)

Preset(p, role, assigned) ==
    LET candidates == IF p.runtime # {} THEN p.runtime ELSE p.allowed
    IN  IF p.preset # "" THEN p.preset
        ELSE IF candidates = {} \/ candidates = assigned THEN "peer_addresses"
        ELSE IF role = "site_gateway" /\ p.sites # {} THEN "remote_networks"
        ELSE IF \E q \in candidates : q.bits = 0 THEN "full_tunnel"
        ELSE "custom"

RuntimeAllowed(p, preset, assigned) ==
    {Masked(q) : q \in
        CASE preset = "peer_addresses" -> assigned
          [] preset = "remote_networks" -> assigned \cup p.sites
          [] preset = "full_tunnel" ->
                 IF p.runtime # {} THEN p.runtime ELSE Default
          [] preset = "custom" ->
                 IF p.runtime # {} THEN p.runtime ELSE p.allowed}

Included(p, assigned) ==
    IF p.includeSet THEN p.include ELSE {q.v6 : q \in assigned}

ClientAllowed(row, p, role, include) ==
    LET own == IF p.callowed # {} THEN p.callowed
               ELSE IF row.defaults # {} THEN row.defaults
               ELSE {t \in row.tunnels : t.v6 \in include}
    IN  IF own # {} /\ role = "site_gateway" THEN own \cup p.local ELSE own

\* One peer of the row, with every field the code writes back.
NormalPeer(row, p) ==
    LET role == normalizePeerRole(p)
        mode == KeyMode(p, role)
        assigned == Assigned(p)
        preset == Preset(p, role, assigned)
        runtime == RuntimeAllowed(p, preset, assigned)
        include == Included(p, assigned)
        mine == mode = "generated_client"
    IN  [p EXCEPT
            !.role = role, !.mode = RoleMode(role),
            !.remote = RemoteMode(p), !.keyMode = mode,
            !.ckey = IF mine THEN @ ELSE "",
            !.assigned = assigned,
            !.local = IF role = "site_gateway" THEN @ ELSE {},
            !.inbounds = IF role # "site_gateway" THEN {}
                         ELSE IF p.inbounds # {} THEN @ ELSE {row.tag},
            !.preset = preset, !.runtime = runtime, !.allowed = runtime,
            !.includeSet = IF mine THEN TRUE ELSE @,
            !.include = IF mine THEN include ELSE @,
            !.cpreset = IF mine /\ @ = "" THEN "virtual_network" ELSE @,
            !.callowed = IF mine
                         THEN {q \in ClientAllowed(row, p, role, include) :
                                   q.v6 \in include}
                         ELSE @]

\* Mutant: a default route needs no preset.
ClientAcceptedAnyRoute(row, p, n) ==
    n.assigned # {} /\ n.include # {} /\ n.callowed # {}

\* What is checked of the generated configuration of a managed client.
ClientAccepted(row, p, n) ==
    /\ n.assigned # {}
    /\ n.include # {}
    /\ n.callowed # {}
    /\ \A q \in ClientAllowed(row, p, n.role, n.include) :
          /\ q.bits = 0 => n.cpreset = "full_tunnel"
          /\ n.cpreset = "single_peer" =>
                IsHost(q) /\ \A a \in n.assigned : ~(q.v6 = a.v6 /\ q.addr = a.addr)

\* What is checked of one peer p, n being what it is normalised to.
PeerAccepted(row, p, n) ==
    /\ n.remote = "static" => p.static
    /\ n.pub # "" /\ n.pub # row.priv
    /\ \A q \in n.assigned :
          /\ IsHost(q) /\ InTunnel(row, q)
          /\ \A a \in row.address : ~(a.v6 = q.v6 /\ a.addr = q.addr)
    /\ \A q, r \in n.assigned : q # r => q.v6 # r.v6
    /\ (n.role = "site_gateway") <=> (p.sites # {})
    /\ \A q \in p.sites : /\ validateSiteCIDR(q)
                          /\ \A t \in row.tunnels : ~Overlaps(q, t)
    /\ \A q, r \in p.sites : q # r => ~Overlaps(q, r)
    /\ \A q \in p.local : validateSiteCIDR(q)
    /\ n.role = "site_gateway" => n.preset # "peer_addresses"
    /\ n.preset \in {"peer_addresses", "remote_networks", "full_tunnel", "custom"}
    /\ n.runtime # {} /\ n.runtime \subseteq Prefixes
    /\ \A q \in n.runtime : q.bits = 0 => n.preset = "full_tunnel"
    /\ n.role = "site_gateway" =>
          \A s \in p.sites : \E q \in n.runtime : q.bits <= s.bits /\ Contains(q, s)
    /\ n.keyMode = "generated_client" => ClientAccepted(row, p, n)

\* Mutant: only the assigned addresses are compared, not what peers carry.
ApartByAddress(ns) ==
    \A i, j \in DOMAIN ns : j < i =>
        /\ ns[i].pub # ns[j].pub
        /\ \A q \in ns[i].assigned, r \in ns[j].assigned : ~Overlaps(q, r)
        /\ \A q \in ns[i].sites, r \in ns[j].sites : ~Overlaps(q, r)

\* What is checked of each peer against the ones listed before it.
Apart(ns) ==
    \A i, j \in DOMAIN ns : j < i =>
        /\ ns[i].pub # ns[j].pub
        /\ \A q \in ns[i].assigned, r \in ns[j].assigned : ~Overlaps(q, r)
        /\ \A q \in ns[i].sites, r \in ns[j].sites : ~Overlaps(q, r)
        /\ \A q \in ns[i].runtime, r \in ns[j].runtime : ~Overlaps(q, r)

NormalPeers(row) == [i \in DOMAIN row.peers |-> NormalPeer(row, row.peers[i])]

Checked(row) == row.type = "wireguard" /\ row.strict

Accepted(row) ==
    LET ns == NormalPeers(row)
    IN  Checked(row) =>
          /\ ~Blank(row.priv)
          /\ \A t \in row.tunnels : validateTunnel(t)
          /\ row.address # {}
          /\ \A a \in row.address : IsHost(a) /\ InTunnel(row, a)
          /\ row.export => row.host
          /\ Len(row.peers) > 0
          /\ \A i \in DOMAIN ns : PeerAccepted(row, row.peers[i], ns[i])
          /\ Apart(ns)

normalizeAndValidateWireGuard(row) ==
    IF Checked(row) THEN [row EXCEPT !.peers = NormalPeers(row)] ELSE row

-----------------------------------------------------------------------------
(* Secrets leave the panel redacted and come back redacted. *)

Hide(secret) == IF secret = "" THEN "" ELSE Redacted

\* Mutant: a pre-shared key is left out instead of replaced.
redactDropsPsk(row) ==
    [row EXCEPT
        !.priv = Hide(@),
        !.peers = [i \in DOMAIN @ |->
            [@[i] EXCEPT !.ckey = Hide(@), !.psk = "", !.pskSet = "false"]]]

HiddenKeys(p) == [p EXCEPT !.ckey = Hide(@), !.psk = Hide(@),
                           !.pskSet = IF p.psk = "" THEN @ ELSE "true"]

redactWireGuardSecrets(row) ==
    [row EXCEPT
        !.priv = Hide(@),
        !.peers = [i \in DOMAIN @ |-> HiddenKeys(@[i])],
        !.keys = [k \in DOMAIN @ |-> ""]]

redactWarpSecrets(row) ==
    [row EXCEPT !.priv = Hide(@), !.token = Hide(@), !.license = Hide(@)]

Redact(row) == IF row.type = "warp" THEN redactWarpSecrets(row)
               ELSE redactWireGuardSecrets(row)

LastWith(peers, P(_)) ==
    {i \in DOMAIN peers : P(peers[i]) /\ \A j \in DOMAIN peers : P(peers[j]) => j <= i}

\* The private key the stored row knows for a public key.
StoredKey(old, pub) ==
    LET known(p) == p.pub = pub /\ p.ckey # ""
        at == LastWith(old.peers, known)
    IN  IF at # {} THEN old.peers[CHOOSE i \in at : TRUE].ckey
        ELSE IF pub \in DOMAIN old.keys THEN old.keys[pub] ELSE ""

\* Mutant: the peer at the same place.
oldPeerByIndex(old, i, pub) == {j \in DOMAIN old.peers : j = i}

\* The stored peer with the same public key, else the one at the same place.
oldPeer(old, i, pub) ==
    LET same(p) == p.pub = pub
        at == LastWith(old.peers, same)
    IN  IF pub # "" /\ at # {} THEN at ELSE {j \in DOMAIN old.peers : j = i}

MergedPeer(old, i, p) ==
    LET o == oldPeer(old, i, p.pub)
        was == old.peers[CHOOSE j \in o : TRUE]
        key == StoredKey(old, p.pub)
        clear == p.pskClear \/ (p.psk = "" /\ p.pskSet = "false")
    IN  [p EXCEPT
            !.ckey = IF ~Blank(p.ckey) THEN @
                     ELSE IF key # "" THEN key
                     ELSE IF o # {} /\ was.ckey # "" THEN was.ckey ELSE @,
            !.psk = IF clear THEN ""
                    ELSE IF Blank(p.psk) /\ o # {} /\ was.psk # "" THEN was.psk ELSE @,
            !.pskClear = FALSE]

mergeWireGuardSecrets(form, old) ==
    [form EXCEPT
        !.priv = IF Blank(@) /\ old.priv # "" THEN old.priv ELSE @,
        !.peers = [i \in DOMAIN @ |-> MergedPeer(old, i, @[i])]]

mergeWarpSecrets(form, old) ==
    [form EXCEPT
        !.priv = IF Blank(@) /\ old.priv # "" THEN old.priv ELSE @,
        !.device = IF Blank(@) THEN old.device ELSE @,
        !.token = IF Blank(@) THEN old.token ELSE @,
        !.license = IF Blank(@) THEN old.license ELSE @]

Merge(form, old) == IF form.type = "warp" THEN mergeWarpSecrets(form, old)
                    ELSE mergeWireGuardSecrets(form, old)

-----------------------------------------------------------------------------
(* What the row becomes outside the panel *)

\* The peers sing-box is given; it refuses a pre-shared key that is no key.
wireGuardRuntimeOptions(row) ==
    [i \in DOMAIN row.peers |->
        [pub |-> row.peers[i].pub, psk |-> row.peers[i].psk,
         address |-> row.peers[i].remote = "static" /\ row.peers[i].static,
         allowed |-> IF row.peers[i].runtime # {} THEN row.peers[i].runtime
                     ELSE row.peers[i].allowed]]

ValidateConfig(row) ==
    /\ ~Blank(row.priv)
    /\ \A i \in DOMAIN row.peers : wireGuardRuntimeOptions(row)[i].psk # Redacted

\* Routes the panel owns: hub forwarding and one for each site gateway.
ManagedRoutes(row) ==
    IF row.type # "wireguard" THEN {}
    ELSE {[tag |-> row.tag, inbounds |-> {row.tag}, cidrs |-> row.tunnels] :
              x \in IF row.hub THEN {0} ELSE {}}
         \cup {[tag |-> row.tag, cidrs |-> row.peers[i].sites,
                inbounds |-> IF row.peers[i].inbounds # {}
                             THEN row.peers[i].inbounds ELSE {row.tag}] :
                 i \in {j \in DOMAIN row.peers :
                           /\ row.peers[j].role = "site_gateway"
                           /\ row.peers[j].sites # {}}}

\* The rules of the configuration: the user's, then the managed ones that
\* match something and are not there already.
injectManagedRoutes(rules, managed) ==
    rules \cup {m \in managed : m.cidrs # {} /\ m.inbounds # {}}

ExportKey(row, p) == IF p.ckey # "" THEN p.ckey
                     ELSE IF p.pub \in DOMAIN row.keys THEN row.keys[p.pub] ELSE ""

\* AllowedIPs of the exported configuration.
ExportAllowed(row, p) ==
    LET own == IF p.callowed # {} THEN p.callowed
               ELSE IF row.defaults # {} THEN row.defaults ELSE row.tunnels
        all == IF p.role = "site_gateway" THEN own \cup p.local ELSE own
    IN  {q \in all : p.includeSet => q.v6 \in p.include}

ExportAddresses(row, p) ==
    LET ours(S) == {q \in S : IsHost(q) /\ (p.includeSet => q.v6 \in p.include)}
    IN  IF ours(p.assigned) # {} THEN ours(p.assigned)
        ELSE ours(p.runtime \cup p.allowed)

\* ExportWireGuardPeer answers with a client configuration.
Exportable(row, p) ==
    /\ ExportKey(row, p) # ""
    /\ row.export /\ row.host
    /\ ExportAddresses(row, p) # {} /\ ExportAllowed(row, p) # {}
=============================================================================
