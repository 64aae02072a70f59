----------------------------- MODULE MCTunnels -----------------------------
(* Instance of Tunnels for TLC: addresses of two bits, one virtual network *)
(* of two addresses, and peers of every role whose networks collide.       *)
EXTENDS Tunnels

Bits(n) == <<n \div 2, n % 2>>
P4(n, bits) == [v6 |-> FALSE, addr |-> Bits(n), bits |-> bits]
P6(n, bits) == [v6 |-> TRUE, addr |-> Bits(n), bits |-> bits]

Peer == [pub |-> "", role |-> "", mode |-> "", remote |-> "", static |-> FALSE,
         psk |-> "", pskSet |-> "", pskClear |-> FALSE, ckey |-> "",
         keyMode |-> "", assigned |-> {}, sites |-> {}, local |-> {},
         inbounds |-> {}, preset |-> "", runtime |-> {}, allowed |-> {},
         includeSet |-> FALSE, include |-> {}, cpreset |-> "", callowed |-> {}]

\* A client the panel made keys for.
Client == [Peer EXCEPT !.pub = "k1", !.ckey = "k1", !.psk = "s1",
                       !.assigned = {P4(1, 2)}]
\* A gateway of a site, by its role and by the name of earlier versions.
Gateway == [Peer EXCEPT !.pub = "k2", !.role = "site_gateway", !.psk = "s2",
                        !.keyMode = "existing_peer", !.preset = "remote_networks",
                        !.sites = {P4(2, 1)}]
OldGateway == [Peer EXCEPT !.pub = "k3", !.mode = "site_to_site", !.ckey = "k3",
                           !.assigned = {P6(1, 2)}, !.local = {P6(3, 2)},
                           !.sites = {P4(2, 2)}, !.allowed = {P6(1, 2), P4(2, 2)},
                           !.callowed = {P6(2, 2)}]
\* A client that asks for a default route without the preset for it.
Leak == [Client EXCEPT !.pub = "k7", !.ckey = "k7", !.callowed = {P4(0, 0)}]
\* A fixed server with a host outside the virtual network, and one that
\* takes everything.
Fixed == [Peer EXCEPT !.pub = "k4", !.mode = "static_peer", !.static = TRUE,
                      !.runtime = {P4(3, 2)}]
Full == [Peer EXCEPT !.pub = "k5", !.ckey = "k5", !.assigned = {P6(1, 2)},
                     !.runtime = {P6(0, 0)}, !.cpreset = "full_tunnel",
                     !.callowed = {P6(0, 0)}]

Row == [type |-> "wireguard", tag |-> "a", strict |-> TRUE, priv |-> "k0",
        tunnels |-> {P4(0, 1)}, address |-> {P4(0, 2)}, export |-> TRUE,
        host |-> TRUE, hub |-> FALSE, peers |-> <<Client>>, keys |-> <<>>,
        defaults |-> {}, device |-> "", token |-> "", license |-> ""]

\* A row of an earlier version: the client's key is beside the peers.
Legacy == [Row EXCEPT !.strict = FALSE, !.keys = [k \in {"k1"} |-> k],
                      !.peers = <<[Client EXCEPT !.ckey = "", !.allowed = {P4(1, 2)}]>>]

Warp == [Row EXCEPT !.type = "warp", !.tag = "b", !.priv = "", !.tunnels = {},
                    !.address = {}, !.export = FALSE, !.host = FALSE, !.peers = <<>>]

\* Every kind of peer in one tunnel, and a form that is open meanwhile.
PeersWorld == [tags |-> {"a"}, rules |-> {{}},
               menu |-> {Client, Gateway, Fixed, Full, OldGateway, Leak},
               rows |-> {Row, Legacy, [Row EXCEPT !.peers = <<Fixed>>]},
               maxId |-> 1, maxOutbound |-> 0]

\* Tunnels and outbounds that take each other's tags.
TagsWorld == [tags |-> {"a", "b"}, menu |-> {},
              rules |-> {{}, {[tag |-> "a", inbounds |-> {"a"}, cidrs |-> {P4(2, 1)}]}},
              rows |-> {[Row EXCEPT !.peers = <<Gateway>>], Warp},
              maxId |-> 3, maxOutbound |-> 1]

MCWorlds == {PeersWorld, TagsWorld}
=============================================================================
