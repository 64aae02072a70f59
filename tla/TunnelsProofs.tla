----------------------------- MODULE TunnelsProofs -----------------------------
(***************************************************************************)
(* Proofs about Tunnels: one namespace of tags, routes that follow the     *)
(* tunnels, secrets that come back to their owner, one peer for every      *)
(* address and tunnels that are saved again as they were, for any rows,    *)
(* any networks and any forms that were opened before other saves.         *)
(***************************************************************************)
EXTENDS Tunnels, SequenceTheorems, TLAPS

-----------------------------------------------------------------------------
(* What is done to a row keeps it a row. *)

\* The fields by which rows are told apart and by which WARP knows a device.
SameIdentity(r, s) ==
    /\ r.type = s.type /\ r.tag = s.tag /\ r.device = s.device
    /\ r.priv = s.priv /\ r.token = s.token /\ r.license = s.license
    /\ r.keys = s.keys

\* No private key is kept beside the peers.
NoKeys(row) == \A k \in DOMAIN row.keys : row.keys[k] = ""

\* Keys beside the peers come from rows of the earlier schema only.
OldKeysOnly == \A w \in Worlds : \A row \in w.rows : row.strict => NoKeys(row)

\* A list of peers, whatever else the row holds.
ArePeers(s) == s \in Seq({s[i] : i \in DOMAIN s}) /\ \A i \in DOMAIN s : DOMAIN s[i] = PeerFields

\* One peer for each of a row's.
OnePerPeer(P, row) ==
    /\ P = [i \in DOMAIN row.peers |-> P[i]]
    /\ \A i \in DOMAIN row.peers : DOMAIN P[i] = PeerFields

\* A list of peers that is computed peer by peer is a list of peers.
LEMMA PeerList ==
    ASSUME NEW row, IsRow(row), NEW P, OnePerPeer(P, row)
    PROVE  ArePeers(P)
<1> DEFINE S == {row.peers[i] : i \in DOMAIN row.peers}
           n == Len(row.peers)
<1>1. row.peers \in Seq(S)
  BY DEF IsRow
<1> HIDE DEF S
<1>2. n \in Nat /\ DOMAIN row.peers = 1..n
  BY <1>1, LenProperties
<1> HIDE DEF n
<1>3. P = [i \in DOMAIN row.peers |-> P[i]] /\ \A i \in DOMAIN row.peers : DOMAIN P[i] = PeerFields
  BY DEF OnePerPeer
<1>4. P \in [1..n -> {P[i] : i \in DOMAIN P}]
  BY <1>2, <1>3
<1>5. P \in Seq({P[i] : i \in DOMAIN P})
  BY <1>2, <1>4, SeqDef
<1> QED
  BY <1>5, <1>3 DEF ArePeers

\* A row is a tunnel or a WARP device.
LEMMA RowType ==
    ASSUME NEW row, IsRow(row)
    PROVE  row.type \in {"wireguard", "warp"}
BY DEF IsRow

\* A record with the fields of a row and a list of peers is a row.
LEMMA RowOfPeers ==
    ASSUME NEW s, DOMAIN s = RowFields, s.type \in {"wireguard", "warp"},
           NEW P, ArePeers(P), s.peers = P
    PROVE  IsRow(s)
BY DEF IsRow, ArePeers

\* Redaction replaces secrets and nothing else.
LEMMA RedactedRow ==
    ASSUME NEW row, IsRow(row)
    PROVE  /\ IsRow(Redact(row))
           /\ Redact(row).type = row.type /\ Redact(row).device = row.device
           /\ Blank(Redact(row).priv)
           /\ row.type = "warp" => Blank(Redact(row).token) /\ Blank(Redact(row).license)
           /\ row.type = "wireguard" => NoKeys(Redact(row))
           /\ row.type = "wireguard" /\ ForgetsNoKey(row) => ForgetsNoKey(Redact(row))
<1>0. DOMAIN row = RowFields
  BY DEF IsRow
<1>1. CASE row.type = "warp"
  <2>1. Redact(row) = [row EXCEPT !.priv = Hide(row.priv), !.token = Hide(row.token),
                                  !.license = Hide(row.license)]
    BY <1>1 DEF Redact, redactWarpSecrets
  <2> DEFINE s == Redact(row)
  <2>2. /\ DOMAIN s = RowFields /\ s.type = row.type /\ s.peers = row.peers
        /\ s.device = row.device /\ s.priv = Hide(row.priv) /\ s.token = Hide(row.token)
        /\ s.license = Hide(row.license)
    BY <1>0, <2>1 DEF RowFields
  <2> HIDE DEF s
  <2>3. Blank(s.priv) /\ Blank(s.token) /\ Blank(s.license)
    BY <2>2 DEF Hide, Blank
  <2>4. IsRow(s)
    BY <2>2 DEF IsRow
  <2>5. Redact(row) = s
    BY DEF s
  <2> QED
    BY <1>1, <2>2, <2>3, <2>4, <2>5
<1>2. CASE row.type = "wireguard"
  <2> DEFINE P == [i \in DOMAIN row.peers |-> HiddenKeys(row.peers[i])]
             K == [k \in DOMAIN row.keys |-> ""]
             s == [row EXCEPT !.priv = Hide(row.priv), !.peers = P, !.keys = K]
  <2>1. Redact(row) = s
    BY <1>2 DEF Redact, redactWireGuardSecrets
  <2>2. \A i \in DOMAIN row.peers :
            DOMAIN P[i] = PeerFields /\ P[i].pskClear = row.peers[i].pskClear
    BY DEF IsRow, PeerFields, HiddenKeys
  <2>3. P = [i \in DOMAIN row.peers |-> P[i]] /\ DOMAIN P = DOMAIN row.peers
    OBVIOUS
  <2> HIDE DEF P, K
  <2>4. ArePeers(P)
    <3>1. OnePerPeer(P, row)
      BY <2>2, <2>3 DEF OnePerPeer
    <3> QED
      BY <3>1, PeerList
  <2>5. /\ DOMAIN s = RowFields /\ s.peers = P /\ s.type = row.type
        /\ s.device = row.device /\ s.priv = Hide(row.priv) /\ s.keys = K
    BY <1>0 DEF RowFields
  <2>9. NoKeys(s)
    <3>1. \A k \in DOMAIN K : K[k] = ""
      BY DEF K
    <3> HIDE DEF s, K
    <3> QED
      BY <2>5, <3>1 DEF NoKeys
  <2> HIDE DEF s
  <2>6. IsRow(s)
    BY <1>2, <2>4, <2>5, RowOfPeers
  <2>7. Blank(s.priv)
    BY <2>5 DEF Blank, Hide
  <2>8. ForgetsNoKey(row) => ForgetsNoKey(s)
    BY <2>2, <2>3, <2>5 DEF ForgetsNoKey
  <2> QED
    BY <1>2, <2>1, <2>5, <2>6, <2>7, <2>8, <2>9
<1> QED
  BY <1>1, <1>2 DEF IsRow

\* The merge fills secrets in and keeps the type; a WARP row keeps what a form
\* may not change.
LEMMA MergedRow ==
    ASSUME NEW row, NEW old, IsRow(row), IsRow(old)
    PROVE  /\ IsRow(Merge(row, old))
           /\ Merge(row, old).type = row.type /\ Merge(row, old).tag = row.tag
           /\ row.type = "wireguard" =>
                 /\ ForgetsNoKey(Merge(row, old))
                 /\ Merge(row, old).device = row.device
                 /\ Merge(row, old).keys = row.keys
           /\ row.type = "warp" =>
                 /\ Merge(row, old).peers = row.peers
                 /\ Blank(row.priv) /\ old.priv # "" => Merge(row, old).priv = old.priv
                 /\ Blank(row.token) => Merge(row, old).token = old.token
                 /\ Merge(row, old).device \in {row.device, old.device}
                 /\ Blank(row.license) => Merge(row, old).license = old.license
<1>0. DOMAIN row = RowFields
  BY DEF IsRow
<1>1. CASE row.type = "warp"
  <2> DEFINE s == [row EXCEPT
        !.priv = IF Blank(row.priv) /\ old.priv # "" THEN old.priv ELSE row.priv,
        !.device = IF Blank(row.device) THEN old.device ELSE row.device,
        !.token = IF Blank(row.token) THEN old.token ELSE row.token,
        !.license = IF Blank(row.license) THEN old.license ELSE row.license]
  <2>1. Merge(row, old) = s
    BY <1>1 DEF Merge, mergeWarpSecrets
  <2>2. /\ DOMAIN s = RowFields /\ s.type = row.type /\ s.tag = row.tag /\ s.peers = row.peers
        /\ s.priv = IF Blank(row.priv) /\ old.priv # "" THEN old.priv ELSE row.priv
        /\ s.device = IF Blank(row.device) THEN old.device ELSE row.device
        /\ s.token = IF Blank(row.token) THEN old.token ELSE row.token
        /\ s.license = IF Blank(row.license) THEN old.license ELSE row.license
    BY <1>0 DEF RowFields
  <2> HIDE DEF s
  <2>3. IsRow(s)
    BY <2>2 DEF IsRow
  <2> QED
    BY <1>1, <2>1, <2>2, <2>3
<1>2. CASE row.type = "wireguard"
  <2> DEFINE P == [i \in DOMAIN row.peers |-> MergedPeer(old, i, row.peers[i])]
             k == IF Blank(row.priv) /\ old.priv # "" THEN old.priv ELSE row.priv
             s == [row EXCEPT !.priv = k, !.peers = P]
  <2>1. Merge(row, old) = s
    BY <1>2 DEF Merge, mergeWireGuardSecrets
  <2>2. ASSUME NEW i, NEW p, DOMAIN p = PeerFields
        PROVE  /\ DOMAIN MergedPeer(old, i, p) = PeerFields
               /\ ~MergedPeer(old, i, p).pskClear
    BY <2>2 DEF MergedPeer, PeerFields
  <2>3. \A i \in DOMAIN row.peers : DOMAIN P[i] = PeerFields /\ ~P[i].pskClear
    BY <2>2 DEF IsRow
  <2>4. P = [i \in DOMAIN row.peers |-> P[i]] /\ DOMAIN P = DOMAIN row.peers
    OBVIOUS
  <2> HIDE DEF P, k
  <2>5. ArePeers(P)
    <3>1. OnePerPeer(P, row)
      BY <2>3, <2>4 DEF OnePerPeer
    <3> QED
      BY <3>1, PeerList
  <2>6. /\ DOMAIN s = RowFields /\ s.peers = P /\ s.type = row.type /\ s.tag = row.tag
        /\ s.device = row.device /\ s.keys = row.keys
    BY <1>0 DEF RowFields
  <2> HIDE DEF s
  <2>7. IsRow(s)
    BY <1>2, <2>5, <2>6, RowOfPeers
  <2>8. ForgetsNoKey(s)
    BY <2>3, <2>4, <2>6 DEF ForgetsNoKey
  <2> QED
    BY <1>2, <2>1, <2>6, <2>7, <2>8
<1> QED
  BY <1>1, <1>2 DEF IsRow

\* Normalisation writes the peers and nothing else; their keys stay.
LEMMA NormalRow ==
    ASSUME NEW row, IsRow(row)
    PROVE  LET n == normalizeAndValidateWireGuard(row)
           IN  /\ IsRow(n) /\ SameIdentity(n, row)
               /\ DOMAIN n.peers = DOMAIN row.peers
               /\ \A i \in DOMAIN row.peers :
                     /\ n.peers[i].pub = row.peers[i].pub
                     /\ n.peers[i].pskClear = row.peers[i].pskClear
               /\ Checked(n) <=> Checked(row)
<1>0. DOMAIN row = RowFields
  BY DEF IsRow
<1>1. CASE ~Checked(row)
  BY <1>1 DEF normalizeAndValidateWireGuard, SameIdentity
<1>2. CASE Checked(row)
  <2> DEFINE P == NormalPeers(row)
             s == [row EXCEPT !.peers = P]
  <2>1. normalizeAndValidateWireGuard(row) = s
    BY <1>2 DEF normalizeAndValidateWireGuard
  <2>2. ASSUME NEW p, DOMAIN p = PeerFields
        PROVE  /\ DOMAIN NormalPeer(row, p) = PeerFields
               /\ NormalPeer(row, p).pub = p.pub
               /\ NormalPeer(row, p).pskClear = p.pskClear
    BY <2>2 DEF NormalPeer, PeerFields
  <2>3. \A i \in DOMAIN row.peers : /\ DOMAIN P[i] = PeerFields
                                    /\ P[i].pub = row.peers[i].pub
                                    /\ P[i].pskClear = row.peers[i].pskClear
    BY <2>2 DEF NormalPeers, IsRow
  <2>4. P = [i \in DOMAIN row.peers |-> P[i]] /\ DOMAIN P = DOMAIN row.peers
    BY DEF NormalPeers
  <2> HIDE DEF P
  <2>5. ArePeers(P)
    <3>1. OnePerPeer(P, row)
      BY <2>3, <2>4 DEF OnePerPeer
    <3> QED
      BY <3>1, PeerList
  <2>6. /\ DOMAIN s = RowFields /\ s.peers = P /\ SameIdentity(s, row)
        /\ s.strict = row.strict
    BY <1>0 DEF RowFields, SameIdentity
  <2> HIDE DEF s
  <2>7. IsRow(s) /\ (Checked(s) <=> Checked(row))
    <3>1. s.type = row.type /\ row.type = "wireguard"
      BY <1>2, <2>6 DEF SameIdentity, Checked
    <3>2. IsRow(s)
      BY <2>5, <2>6, <3>1, RowOfPeers
    <3> QED
      BY <2>6, <3>1, <3>2 DEF Checked
  <2> QED
    BY <2>1, <2>3, <2>4, <2>6, <2>7
<1> QED
  BY <1>1, <1>2
-----------------------------------------------------------------------------
(* Forms *)

\* A list of peers is a function on 1..n.
LEMMA Peers ==
    ASSUME NEW row, IsRow(row)
    PROVE  Len(row.peers) \in Nat /\ DOMAIN row.peers = 1..Len(row.peers)
<1> DEFINE S == {row.peers[i] : i \in DOMAIN row.peers}
<1>1. row.peers \in Seq(S)
  BY DEF IsRow
<1> HIDE DEF S
<1> QED
  BY <1>1, LenProperties

\* A sequence over a set of peers is a list of peers.
LEMMA PeersOver ==
    ASSUME NEW S, NEW s \in Seq(S), \A p \in S : DOMAIN p = PeerFields
    PROVE  ArePeers(s)
<1>1. Len(s) \in Nat /\ DOMAIN s = 1..Len(s) /\ s \in [1..Len(s) -> S]
  BY LenProperties
<1>2. \A i \in DOMAIN s : s[i] \in S
  BY <1>1
<1>3. s \in [1..Len(s) -> {s[i] : i \in DOMAIN s}]
  BY <1>1
<1> DEFINE T == {s[i] : i \in DOMAIN s}
<1>5. s \in [1..Len(s) -> T]
  BY <1>3
<1> HIDE DEF T
<1>4. s \in Seq(T)
  BY <1>1, <1>5, SeqDef
<1> QED
  BY <1>2, <1>4 DEF ArePeers, T

\* Adding, dropping or freeing a peer leaves a list of peers.
LEMMA EditedPeers ==
    ASSUME NEW row, IsRow(row)
    PROVE  /\ \A p : DOMAIN p = PeerFields => ArePeers(Append(row.peers, p))
           /\ \A i \in DOMAIN row.peers : ArePeers(Without(row.peers, i))
<1> DEFINE s == row.peers
           S == {s[i] : i \in DOMAIN s}
<1>1. s \in Seq(S) /\ \A p \in S : DOMAIN p = PeerFields
  BY DEF IsRow
<1>2. Len(s) \in Nat /\ DOMAIN s = 1..Len(s) /\ \A i \in 1..Len(s) : s[i] \in S
  BY Peers
<1> HIDE DEF s, S
<1>3. ASSUME NEW p, DOMAIN p = PeerFields PROVE ArePeers(Append(s, p))
  <2>1. s \in Seq(S \cup {p})
    BY <1>1, SeqMonotonic
  <2>2. Append(s, p) \in Seq(S \cup {p})
    BY <2>1, AppendProperties
  <2> QED
    BY <1>1, <1>3, <2>2, PeersOver
<1>4. ASSUME NEW i \in DOMAIN s PROVE ArePeers(Without(s, i))
  <2>1. i \in 1..Len(s) /\ i - 1 \in Int /\ i + 1 \in Int /\ 1 \in Int /\ Len(s) \in Int
    BY <1>2, <1>4
  <2>2. (\A k \in 1..(i - 1) : s[k] \in S) /\ (\A k \in (i + 1)..Len(s) : s[k] \in S)
    BY <1>2, <2>1
  <2>3. SubSeq(s, 1, i - 1) \in Seq(S)
    BY <2>1, <2>2, SubSeqProperties
  <2>4. SubSeq(s, i + 1, Len(s)) \in Seq(S)
    BY <2>1, <2>2, SubSeqProperties
  <2>5. Without(s, i) \in Seq(S)
    BY <2>3, <2>4, ConcatProperties DEF Without
  <2> QED
    BY <1>1, <2>5, PeersOver
<1> QED
  BY <1>3, <1>4 DEF s

\* A field of a row other than its type is changed.
LEMMA ChangedField ==
    ASSUME NEW row, IsRow(row), NEW k \in RowFields \ {"type", "peers"}, NEW v
    PROVE  /\ IsRow([row EXCEPT ![k] = v])
           /\ \A x \in RowFields \ {k} : [row EXCEPT ![k] = v][x] = row[x]
  BY DEF IsRow, RowFields

\* The list of peers of a row is changed.
LEMMA ChangedPeers ==
    ASSUME NEW row, IsRow(row), NEW P, ArePeers(P)
    PROVE  /\ IsRow([row EXCEPT !.peers = P])
           /\ \A x \in RowFields \ {"peers"} : [row EXCEPT !.peers = P][x] = row[x]
<1> DEFINE s == [row EXCEPT !.peers = P]
<1>1. DOMAIN s = RowFields /\ s.peers = P /\ \A x \in RowFields \ {"peers"} : s[x] = row[x]
  BY DEF IsRow, RowFields
<1> HIDE DEF s
<1>2. IsRow(s)
  <2>1. s.type = row.type /\ row.type \in {"wireguard", "warp"}
    <3>1. "type" \in RowFields \ {"peers"}
      BY DEF RowFields
    <3>2. s.type = row.type
      BY <1>1, <3>1, ZenonT(60)
    <3> QED
      BY <3>2, RowType
  <2> QED
    BY <1>1, <2>1, RowOfPeers
<1> QED
  BY <1>1, <1>2 DEF s

\* An edited form is a form of the same row: an administrator does not change
\* its type, nor what a WARP row knows of its device.
LEMMA EditedForm ==
    ASSUME world \in Worlds, NEW f, IsRow(f), NEW g \in Edited(f)
    PROVE  /\ IsRow(g) /\ g.type = f.type /\ g.device = f.device
           /\ g.priv = f.priv /\ g.token = f.token /\ g.keys = f.keys
           /\ f.type = "warp" => g.peers = f.peers
<1> DEFINE Keeps(x) == /\ IsRow(x) /\ x.type = f.type /\ x.device = f.device
                       /\ x.priv = f.priv /\ x.token = f.token /\ x.keys = f.keys
<1>1. ASSUME NEW k \in {"tag", "license", "strict", "hub"}, NEW v
      PROVE  Keeps([f EXCEPT ![k] = v]) /\ [f EXCEPT ![k] = v].peers = f.peers
  <2>1. k \in RowFields \ {"type", "peers"}
    BY DEF RowFields
  <2> DEFINE h == [f EXCEPT ![k] = v]
  <2>2. IsRow(h) /\ \A x \in RowFields \ {k} : h[x] = f[x]
    BY <2>1, ChangedField
  <2> HIDE DEF h, Keeps
  <2>3. \A x \in {"type", "device", "priv", "token", "keys", "peers"} : x \in RowFields \ {k}
    BY <1>1 DEF RowFields
  <2>4. IsRow(h) /\ h.type = f.type /\ h.device = f.device /\ h.priv = f.priv
    BY <2>2, <2>3
  <2>5. h.token = f.token /\ h.keys = f.keys /\ h.peers = f.peers
    BY <2>2, <2>3
  <2>6. Keeps(h)
    BY <2>4, <2>5 DEF Keeps
  <2> QED
    BY <2>5, <2>6 DEF h
<1>2. ASSUME NEW P, ArePeers(P) PROVE Keeps([f EXCEPT !.peers = P])
  BY <1>2, ChangedPeers DEF RowFields
<1> SUFFICES Keeps(g) /\ (f.type = "warp" => g.peers = f.peers)
  OBVIOUS
<1>3. CASE g = f
  BY <1>3
<1> HIDE DEF Keeps
<1>4. CASE \E t \in world.tags : g = [f EXCEPT !.tag = t]
  BY <1>1, <1>4
<1>5. CASE \E l \in Licenses : g = [f EXCEPT !.license = l]
  BY <1>1, <1>5
<1>6. CASE f.type # "warp" /\ \E k \in {"strict", "hub"}, v \in BOOLEAN : g = [f EXCEPT ![k] = v]
  <2>1. PICK k \in {"strict", "hub"}, v \in BOOLEAN : g = [f EXCEPT ![k] = v]
    BY <1>6
  <2> QED
    BY <1>1, <1>6, <2>1
<1>7. CASE f.type # "warp" /\ \E p \in world.menu : g = [f EXCEPT !.peers = Append(f.peers, p)]
  <2>1. PICK p \in world.menu : g = [f EXCEPT !.peers = Append(f.peers, p)]
    BY <1>7
  <2>2. DOMAIN p = PeerFields
    BY TunnelsAssumption
  <2> QED
    BY <1>2, <1>7, <2>1, <2>2, EditedPeers
<1>8. CASE f.type # "warp" /\ \E i \in DOMAIN f.peers : g = [f EXCEPT !.peers = Without(f.peers, i)]
  BY <1>2, <1>8, EditedPeers
<1>9. CASE f.type # "warp" /\ \E i \in DOMAIN f.peers :
              g = [f EXCEPT !.peers[i].psk = "", !.peers[i].pskSet = "false"]
  <2>1. PICK i \in DOMAIN f.peers :
              g = [f EXCEPT !.peers[i].psk = "", !.peers[i].pskSet = "false"]
    BY <1>9
  <2> DEFINE P == [[f.peers EXCEPT ![i].psk = ""] EXCEPT ![i].pskSet = "false"]
  <2>2. g = [f EXCEPT !.peers = P]
    BY <2>1 DEF IsRow, RowFields
  <2>3. P = [j \in DOMAIN f.peers |-> P[j]] /\ DOMAIN P = DOMAIN f.peers
    OBVIOUS
  <2>4. \A j \in DOMAIN f.peers : DOMAIN P[j] = PeerFields
    BY DEF IsRow
  <2> HIDE DEF P
  <2>5. ArePeers(P)
    <3>1. OnePerPeer(P, f)
      BY <2>3, <2>4 DEF OnePerPeer
    <3> QED
      BY <3>1, PeerList
  <2> QED
    BY <1>2, <1>9, <2>2, <2>5
<1> QED
  <2>1. CASE g = [f EXCEPT !.strict = TRUE] /\ f.type # "warp"
    BY <1>6, <2>1
  <2>2. CASE g = [f EXCEPT !.hub = ~f.hub] /\ f.type # "warp"
    <3>1. (~f.hub) \in BOOLEAN
      OBVIOUS
    <3> QED
      BY <1>6, <2>2, <3>1
  <2> QED
    BY <1>3, <1>4, <1>5, <1>7, <1>8, <1>9, <2>1, <2>2 DEF Edited

-----------------------------------------------------------------------------
(* Steps *)

\* The row of a form is the stored row redacted, as it was or with other peers
\* and other names; whoever the id belongs to, it is never given out again.
FormOpen ==
    form # NoForm =>
        /\ form.id \in 1..lastId /\ IsRow(form.row) /\ Blank(form.row.priv)
        /\ form.row.type = "warp" => Blank(form.row.token)
        /\ form.row.type = "wireguard" => ForgetsNoKey(form.row) /\ NoKeys(form.row)
        /\ form.id \in DOMAIN endpoints =>
              /\ form.row.type = endpoints[form.id].type
              /\ form.row.device = endpoints[form.id].device

\* The tables hold rows, under ids that were given out.
Shapes ==
    /\ world \in Worlds /\ lastId \in Nat /\ lastOutbound \in Nat
    /\ DOMAIN endpoints \subseteq 1..lastId /\ DOMAIN outbounds \subseteq 1..lastOutbound
    /\ \A e \in DOMAIN endpoints :
          /\ IsRow(endpoints[e])
          /\ endpoints[e].type = "wireguard" => ForgetsNoKey(endpoints[e])
    /\ DOMAIN devices \subseteq Devices
    /\ FormOpen

\* Cloudflare forgets no device and no license a device has had.
Grown ==
    /\ DOMAIN devices \subseteq DOMAIN devices' /\ DOMAIN devices' \subseteq Devices
    /\ \A d \in DOMAIN devices : devices[d].had \subseteq devices'[d].had

\* Row r, a new one, is stored.
Added(r) ==
    /\ IsRow(r) /\ ForgetsNoKey(r)
    /\ Store(lastId + 1, r.tag, r) /\ lastId' = lastId + 1
    /\ r.type = "warp" =>
          /\ r.device \in Devices \ DOMAIN devices /\ r.device \in DOMAIN devices'
          /\ r.priv = r.device /\ r.token = r.device
          /\ r.license \in devices'[r.device].had
    /\ r.type # "warp" => r.device = ""
    /\ OldKeysOnly /\ r.type = "wireguard" /\ r.strict => NoKeys(r)
    /\ UNCHANGED <<outbounds, lastOutbound, form>>

\* Row r is stored over the row of an id.
Changed(id, r) ==
    /\ id \in DOMAIN endpoints
    /\ IsRow(r) /\ (r.type = "wireguard" => ForgetsNoKey(r) /\ NoKeys(r))
    /\ r.type = endpoints[id].type /\ r.device = endpoints[id].device
    /\ Store(id, endpoints[id].tag, r) /\ lastId' = lastId
    /\ r.type = "warp" =>
          /\ endpoints[id].priv # "" => r.priv = endpoints[id].priv
          /\ r.token = endpoints[id].token
          /\ \/ r.license = endpoints[id].license
             \/ r.license \in devices'[r.device].had
    /\ UNCHANGED <<outbounds, lastOutbound>>

\* Nothing is stored.
NotStored == UNCHANGED <<endpoints, routes, lastId, outbounds, lastOutbound>>

\* A creation stores a row under a new id, or nothing.
LEMMA NewEndpointStep ==
    ASSUME Shapes, world' = world, NEW row \in world.rows, NewEndpoint(row)
    PROVE  Grown /\ ((\E r : Added(r)) \/ (NotStored /\ form' = form))
<1>0. /\ IsRow(row) /\ ForgetsNoKey(row) /\ row.device = ""
      /\ OldKeysOnly /\ row.strict => NoKeys(row)
  BY TunnelsAssumption DEF Shapes, OldKeysOnly
<1>00. lastId \in Nat /\ lastId + 1 \notin DOMAIN endpoints /\ DOMAIN devices \subseteq Devices
  BY DEF Shapes
<1>1. UNCHANGED <<outbounds, lastOutbound, form>>
  BY DEF NewEndpoint
<1>2. ASSUME NEW r, NEW tag, Store(lastId + 1, tag, r) PROVE lastId' = lastId + 1
  <2>1. lastId + 1 \in DOMAIN endpoints'
    BY <1>2 DEF Store, Put
  <2> QED
    BY <2>1 DEF NewEndpoint
<1>3. ASSUME UNCHANGED <<endpoints, routes>> PROVE NotStored
  BY <1>00, <1>1, <1>3 DEF NewEndpoint, NotStored
<1>4. CASE row.type # "warp"
  <2>1. Store(lastId + 1, row.tag, row) /\ devices' = devices
    BY <1>4 DEF NewEndpoint
  <2>2. Added(row)
    BY <1>0, <1>1, <1>2, <1>4, <2>1 DEF Added
  <2> QED
    BY <1>00, <2>1, <2>2 DEF Grown
<1>5. CASE row.type = "warp"
  <2>1. PICK d \in Devices \ DOMAIN devices :
            /\ devices' = Put(devices, d, [now |-> "free", had |-> {"free"}])
            /\ \/ Store(lastId + 1, row.tag, [row EXCEPT !.priv = d, !.device = d,
                                                         !.token = d, !.license = "free"])
               \/ UNCHANGED <<endpoints, routes>>
    BY <1>5 DEF NewEndpoint, RegisterWarp
  <2>2. Grown /\ d \in DOMAIN devices' /\ devices'[d].had = {"free"}
    BY <1>00, <2>1 DEF Grown, Put
  <2> DEFINE r == [row EXCEPT !.priv = d, !.device = d, !.token = d, !.license = "free"]
  <2>3. /\ DOMAIN r = RowFields /\ r.type = row.type /\ r.tag = row.tag
        /\ r.peers = row.peers /\ r.priv = d /\ r.device = d /\ r.token = d
        /\ r.license = "free"
    BY <1>0 DEF IsRow, RowFields
  <2>4. Store(lastId + 1, row.tag, r) \/ UNCHANGED <<endpoints, routes>>
    BY <2>1
  <2> HIDE DEF r
  <2>5. IsRow(r) /\ ForgetsNoKey(r)
    BY <1>0, <2>3 DEF IsRow, ForgetsNoKey
  <2>6. CASE Store(lastId + 1, row.tag, r)
    <3>1. lastId' = lastId + 1
      BY <1>2, <2>6
    <3>2. Added(r)
      BY <1>1, <1>5, <2>1, <2>2, <2>3, <2>5, <2>6, <3>1 DEF Added
    <3> QED
      BY <2>2, <3>2
  <2> QED
    BY <1>1, <1>3, <2>2, <2>4, <2>6
<1> QED
  BY <1>4, <1>5

\* What a WARP row takes over from the stored one.
LEMMA MergedWarp ==
    ASSUME NEW row, NEW old, DOMAIN row = RowFields, row.type = "warp"
    PROVE  /\ Blank(row.priv) /\ old.priv # "" => Merge(row, old).priv = old.priv
           /\ Blank(row.token) => Merge(row, old).token = old.token
           /\ Merge(row, old).device \in {row.device, old.device}
<1> DEFINE s == [row EXCEPT
      !.priv = IF Blank(row.priv) /\ old.priv # "" THEN old.priv ELSE row.priv,
      !.device = IF Blank(row.device) THEN old.device ELSE row.device,
      !.token = IF Blank(row.token) THEN old.token ELSE row.token,
      !.license = IF Blank(row.license) THEN old.license ELSE row.license]
<1>1. Merge(row, old) = s
  BY DEF Merge, mergeWarpSecrets
<1>2. /\ s.priv = IF Blank(row.priv) /\ old.priv # "" THEN old.priv ELSE row.priv
      /\ s.device = IF Blank(row.device) THEN old.device ELSE row.device
      /\ s.token = IF Blank(row.token) THEN old.token ELSE row.token
  BY DEF RowFields
<1> HIDE DEF s
<1> QED
  BY <1>1, <1>2

\* A save of a form stores the merged row over the row of its id, or nothing.
LEMMA EditEndpointStep ==
    ASSUME Shapes, NEW id \in DOMAIN endpoints, NEW sent, EditEndpoint(id, sent),
           IsRow(sent), Blank(sent.priv), sent.type = endpoints[id].type,
           sent.device = endpoints[id].device, sent.type = "warp" => Blank(sent.token),
           sent.type = "wireguard" => NoKeys(sent)
    PROVE  Grown /\ ((\E r : Changed(id, r)) \/ NotStored)
<1> DEFINE old == endpoints[id]
           row == Merge(sent, old)
<1>0. IsRow(old) /\ DOMAIN devices \subseteq Devices
  BY DEF Shapes
<1>1. /\ IsRow(row) /\ row.type = old.type
      /\ row.type = "wireguard" => ForgetsNoKey(row) /\ NoKeys(row)
      /\ row.device = old.device
      /\ row.type = "warp" => /\ old.priv # "" => row.priv = old.priv
                              /\ row.token = old.token
  <2>1. sent.type \in {"wireguard", "warp"}
    BY DEF IsRow
  <2>2. IsRow(row) /\ row.type = sent.type
    BY <1>0, MergedRow
  <2>3. sent.type = "wireguard" => /\ ForgetsNoKey(row) /\ row.device = sent.device
                                   /\ row.keys = sent.keys
    BY <1>0, MergedRow
  <2>4. ASSUME sent.type = "warp"
        PROVE  /\ old.priv # "" => row.priv = old.priv
               /\ row.token = old.token
               /\ row.device \in {sent.device, old.device}
    <3>1. DOMAIN sent = RowFields
      BY DEF IsRow
    <3>2. /\ Blank(sent.priv) /\ old.priv # "" => row.priv = old.priv
          /\ Blank(sent.token) => row.token = old.token
          /\ row.device \in {sent.device, old.device}
      BY <2>4, <3>1, MergedWarp
    <3> HIDE DEF row, old
    <3> QED
      BY <2>4, <3>2
  <2> HIDE DEF row, old
  <2> QED
    BY <2>1, <2>2, <2>3, <2>4 DEF old, NoKeys
<1>2. UNCHANGED <<outbounds, lastId, lastOutbound>>
  BY DEF EditEndpoint
<1>3. IF row.type = "warp" THEN SetWarpLicense(old, id, row)
      ELSE Store(id, old.tag, row) /\ UNCHANGED devices
  BY DEF EditEndpoint
<1> HIDE DEF row
<1>4. CASE row.type # "warp"
  <2>1. Changed(id, row)
    BY <1>1, <1>2, <1>3, <1>4 DEF Changed
  <2> QED
    BY <1>0, <1>3, <1>4, <2>1 DEF Grown
<1>5. CASE row.type = "warp"
  <2>1. CASE row.license = old.license /\ Store(id, old.tag, row) /\ UNCHANGED devices
    <3>1. Changed(id, row)
      BY <1>1, <1>2, <1>5, <2>1 DEF Changed
    <3> QED
      BY <1>0, <2>1, <3>1 DEF Grown
  <2>2. CASE /\ row.device \in DOMAIN devices
             /\ devices' = [devices EXCEPT ![row.device] =
                   [now |-> row.license, had |-> devices[row.device].had \cup {row.license}]]
             /\ Store(id, old.tag, row) \/ UNCHANGED <<endpoints, routes>>
    <3>1. Grown /\ row.license \in devices'[row.device].had
      BY <1>0, <2>2 DEF Grown
    <3>2. Store(id, old.tag, row) => Changed(id, row)
      BY <1>1, <1>2, <1>5, <3>1 DEF Changed
    <3> QED
      BY <1>2, <2>2, <3>1, <3>2 DEF NotStored
  <2> QED
    BY <1>3, <1>5, <2>1, <2>2 DEF SetWarpLicense
<1> QED
  BY <1>4, <1>5

\* What may happen to the outbounds.
OutboundStep ==
    /\ UNCHANGED <<endpoints, routes, lastId, form, devices>>
    /\ \/ \E id \in 1..lastOutbound' : \E tag :
             /\ ensureEgressTagAvailable("outbound", id, tag)
             /\ outbounds' = Put(outbounds, id, tag)
       \/ \E S : outbounds' = Drop(outbounds, S)
    /\ lastOutbound' \in Nat /\ lastOutbound <= lastOutbound'

\* The form stays, closes, or is opened on a stored row.
FormStep ==
    \/ form' = form \/ form' = NoForm
    \/ \E id \in DOMAIN endpoints : form' = [id |-> id, row |-> Redact(endpoints[id])]

\* Every step is of one of these kinds.
LEMMA StepKinds ==
    ASSUME Shapes, [Next]_vars
    PROVE  /\ world' = world /\ Grown
           /\ \/ \E r : Added(r)
              \/ \E id, r : Changed(id, r) /\ FormStep
              \/ \E tag : DeleteEndpoint(tag)
              \/ OutboundStep
              \/ NotStored /\ FormStep
<1>1. world' = world
  BY DEF Next, vars
<1>2. devices' = devices => Grown
  BY DEF Grown, Shapes
<1>3. ASSUME NEW row \in world.rows, NewEndpoint(row)
      PROVE  Grown /\ ((\E r : Added(r)) \/ (NotStored /\ form' = form))
  BY <1>1, <1>3, NewEndpointStep
<1>4. ASSUME NEW id \in DOMAIN endpoints, SaveFresh(id)
      PROVE  Grown /\ form' = form /\ ((\E r : Changed(id, r)) \/ NotStored)
  <2> DEFINE f == Redact(endpoints[id])
  <2>0. IsRow(endpoints[id])
    BY DEF Shapes
  <2>1. /\ IsRow(f) /\ Blank(f.priv) /\ f.type = endpoints[id].type
        /\ f.device = endpoints[id].device
        /\ f.type = "warp" => Blank(f.token)
        /\ f.type = "wireguard" => NoKeys(f)
    BY <2>0, RedactedRow
  <2> HIDE DEF f
  <2>2. PICK sent \in Edited(f) : EditEndpoint(id, sent)
    BY <1>4 DEF SaveFresh, f
  <2>3. /\ IsRow(sent) /\ sent.type = f.type /\ sent.device = f.device
        /\ sent.priv = f.priv /\ sent.token = f.token
        /\ sent.type = "wireguard" => NoKeys(sent)
    BY <2>1, EditedForm DEF Shapes, NoKeys
  <2> QED
    BY <1>4, <2>1, <2>2, <2>3, EditEndpointStep DEF SaveFresh
<1>5. CASE SaveForm
  <2>1. PICK sent \in Edited(form.row) : EditEndpoint(form.id, sent)
    BY <1>5 DEF SaveForm
  <2>2. form # NoForm /\ form.id \in DOMAIN endpoints
    BY <1>5, <2>1 DEF SaveForm, EditEndpoint
  <2>3. /\ IsRow(form.row) /\ Blank(form.row.priv)
        /\ form.row.type = endpoints[form.id].type
        /\ form.row.device = endpoints[form.id].device
        /\ form.row.type = "warp" => Blank(form.row.token)
        /\ form.row.type = "wireguard" => NoKeys(form.row)
    BY <2>2 DEF Shapes, FormOpen
  <2>4. /\ IsRow(sent) /\ sent.type = form.row.type /\ sent.device = form.row.device
        /\ sent.priv = form.row.priv /\ sent.token = form.row.token
        /\ sent.type = "wireguard" => NoKeys(sent)
    BY <2>3, EditedForm DEF Shapes, NoKeys
  <2>5. Grown /\ ((\E r : Changed(form.id, r)) \/ NotStored)
    BY <2>1, <2>2, <2>3, <2>4, EditEndpointStep
  <2>6. FormStep
    BY <1>5 DEF SaveForm, FormStep
  <2> QED
    BY <1>1, <2>5, <2>6
<1>6. ASSUME NEW tag, NewOutbound(tag) PROVE OutboundStep /\ devices' = devices
  <2>1. ensureEgressTagAvailable("outbound", lastOutbound + 1, tag)
    <3>1. /\ OutboundTags({0}) = OutboundTags({})
          /\ OutboundTags({lastOutbound + 1}) = OutboundTags({})
      BY DEF Shapes, OutboundTags
    <3>2. ensureEgressTagAvailable("outbound", 0, tag)
      BY <1>6 DEF NewOutbound
    <3> QED
      BY <3>1, <3>2 DEF ensureEgressTagAvailable
  <2>2. lastOutbound \in Nat /\ lastOutbound' = lastOutbound + 1
    BY <1>6 DEF NewOutbound, Shapes
  <2> QED
    BY <1>6, <2>1, <2>2 DEF NewOutbound, OutboundStep
<1>7. ASSUME NEW id \in 1..lastOutbound, NEW tag, EditOutbound(id, tag)
      PROVE  OutboundStep /\ devices' = devices
  BY <1>7 DEF EditOutbound, OutboundStep, Shapes
<1>8. ASSUME NEW tag, DeleteOutbound(tag) PROVE OutboundStep /\ devices' = devices
  BY <1>8 DEF DeleteOutbound, OutboundStep, Shapes
<1>9. ASSUME NEW tag, DeleteEndpoint(tag) PROVE devices' = devices
  BY <1>9 DEF DeleteEndpoint
<1>10. ASSUME NEW id \in DOMAIN endpoints, OpenForm(id)
       PROVE  devices' = devices /\ NotStored /\ FormStep
  BY <1>10 DEF OpenForm, NotStored, FormStep
<1>11. CASE CloseForm \/ (\E R \in world.rules : SaveConfig(R)) \/ UNCHANGED vars
  BY <1>1, <1>2, <1>11 DEF CloseForm, SaveConfig, vars, NotStored, FormStep
<1> QED
  <2>1. FormStep \/ form' # form
    BY DEF FormStep
  <2> QED
    BY <1>1, <1>2, <1>3, <1>4, <1>5, <1>6, <1>7, <1>8, <1>9, <1>10, <1>11, <2>1 DEF Next

-----------------------------------------------------------------------------
(* Invariants *)

\* Row r is in the table as n, the other rows are as they were, and the managed
\* routes are those of n.
StoredAs(id, tag, r, n) ==
    /\ IsRow(n) /\ SameIdentity(n, r) /\ (ForgetsNoKey(r) => ForgetsNoKey(n))
    /\ DOMAIN endpoints' = DOMAIN endpoints \cup {id}
    /\ endpoints'[id] = n
    /\ \A e \in DOMAIN endpoints \ {id} : endpoints'[e] = endpoints[e]
    /\ ensureEgressTagAvailable("endpoint", id, n.tag)
    /\ routes' = (routes \ RoutesOf({tag, n.tag})) \cup ManagedRoutes(n)

\* What a stored row is.
LEMMA StoredRow ==
    ASSUME NEW id, NEW tag, NEW r, IsRow(r), Store(id, tag, r)
    PROVE  StoredAs(id, tag, r, normalizeAndValidateWireGuard(r))
  BY NormalRow DEF Store, Put, ForgetsNoKey, syncWireGuardManagedRoute, StoredAs

\* The tables hold rows under ids that were given out, and an open form is a
\* form of the row of its id as long as there is one.
LEMMA ShapesKept == Shapes /\ [Next]_vars => Shapes'
<1> SUFFICES ASSUME Shapes, [Next]_vars PROVE Shapes'
  OBVIOUS
<1>0. world' = world /\ Grown
  BY StepKinds
<1>1. lastId \in Nat
  BY DEF Shapes
<1>2. ASSUME NEW r, Added(r) PROVE Shapes'
  <2> DEFINE n == normalizeAndValidateWireGuard(r)
  <2>1. /\ IsRow(n) /\ ForgetsNoKey(n)
        /\ DOMAIN endpoints' = DOMAIN endpoints \cup {lastId + 1}
        /\ endpoints'[lastId + 1] = n
        /\ \A e \in DOMAIN endpoints \ {lastId + 1} : endpoints'[e] = endpoints[e]
    <3>1. IsRow(r) /\ Store(lastId + 1, r.tag, r) /\ ForgetsNoKey(r)
      BY <1>2 DEF Added
    <3>2. StoredAs(lastId + 1, r.tag, r, n)
      BY <3>1, StoredRow
    <3> HIDE DEF n
    <3> QED
      BY <3>1, <3>2 DEF StoredAs
  <2> HIDE DEF n
  <2>2. lastId' = lastId + 1 /\ UNCHANGED <<outbounds, lastOutbound, form>>
    BY <1>2 DEF Added
  <2>3. FormOpen'
    BY <1>1, <2>1, <2>2 DEF Shapes, FormOpen
  <2> QED
    BY <1>0, <1>1, <2>1, <2>2, <2>3 DEF Shapes, Grown
<1>3. ASSUME NEW id, NEW r, Changed(id, r), FormStep PROVE Shapes'
  <2> DEFINE n == normalizeAndValidateWireGuard(r)
  <2>1. /\ IsRow(n) /\ (n.type = "wireguard" => ForgetsNoKey(n))
        /\ n.type = endpoints[id].type /\ n.device = endpoints[id].device
        /\ DOMAIN endpoints' = DOMAIN endpoints /\ id \in DOMAIN endpoints
        /\ endpoints'[id] = n
        /\ \A e \in DOMAIN endpoints \ {id} : endpoints'[e] = endpoints[e]
    <3>1. /\ IsRow(r) /\ Store(id, endpoints[id].tag, r) /\ id \in DOMAIN endpoints
          /\ r.type = "wireguard" => ForgetsNoKey(r)
          /\ r.type = endpoints[id].type /\ r.device = endpoints[id].device
      BY <1>3 DEF Changed
    <3>2. /\ IsRow(n) /\ SameIdentity(n, r) /\ (ForgetsNoKey(r) => ForgetsNoKey(n))
          /\ DOMAIN endpoints' = DOMAIN endpoints \cup {id}
          /\ endpoints'[id] = n
          /\ \A e \in DOMAIN endpoints \ {id} : endpoints'[e] = endpoints[e]
      <4>1. StoredAs(id, endpoints[id].tag, r, n)
        BY <3>1, StoredRow
      <4> HIDE DEF n
      <4> QED
        BY <4>1 DEF StoredAs
    <3>3. n.type = r.type /\ n.device = r.device
      BY <3>2 DEF SameIdentity
    <3> HIDE DEF n
    <3> QED
      BY <3>1, <3>2, <3>3
  <2> HIDE DEF n
  <2>2. UNCHANGED <<lastId, outbounds, lastOutbound>>
    BY <1>3 DEF Changed
  <2>3. \A e \in DOMAIN endpoints : /\ endpoints'[e].type = endpoints[e].type
                                    /\ endpoints'[e].device = endpoints[e].device
    BY <2>1
  <2>4. FormOpen'
    <3>1. CASE form' = form \/ form' = NoForm
      BY <2>1, <2>2, <2>3, <3>1 DEF Shapes, FormOpen
    <3>2. CASE \E k \in DOMAIN endpoints : form' = [id |-> k, row |-> Redact(endpoints[k])]
      <4>1. PICK k \in DOMAIN endpoints : form' = [id |-> k, row |-> Redact(endpoints[k])]
        BY <3>2
      <4>2. IsRow(endpoints[k]) /\ (endpoints[k].type = "wireguard" => ForgetsNoKey(endpoints[k]))
        BY DEF Shapes
      <4>3. k \in 1..lastId'
        BY <2>2 DEF Shapes
      <4> QED
        BY <2>1, <2>3, <4>1, <4>2, <4>3, RedactedRow DEF FormOpen
    <3> QED
      BY <1>3, <3>1, <3>2 DEF FormStep
  <2> QED
    BY <1>0, <2>1, <2>2, <2>4 DEF Shapes, Grown
<1>4. ASSUME NEW tag, DeleteEndpoint(tag) PROVE Shapes'
  <2>1. DOMAIN endpoints' \subseteq DOMAIN endpoints
        /\ \A e \in DOMAIN endpoints' : endpoints'[e] = endpoints[e]
    BY <1>4 DEF DeleteEndpoint, Drop
  <2>2. UNCHANGED <<lastId, outbounds, lastOutbound, form>>
    BY <1>4 DEF DeleteEndpoint
  <2>3. FormOpen'
    BY <2>1, <2>2 DEF Shapes, FormOpen
  <2> QED
    BY <1>0, <2>1, <2>2, <2>3 DEF Shapes, Grown
<1>5. CASE OutboundStep
  <2>1. FormOpen'
    BY <1>5 DEF OutboundStep, Shapes, FormOpen
  <2>2. DOMAIN outbounds' \subseteq 1..lastOutbound' /\ lastOutbound' \in Nat
    <3>1. /\ lastOutbound \in Nat /\ lastOutbound' \in Nat /\ lastOutbound <= lastOutbound'
          /\ DOMAIN outbounds \subseteq 1..lastOutbound
      BY <1>5 DEF OutboundStep, Shapes
    <3>2. DOMAIN outbounds \subseteq 1..lastOutbound'
      BY <3>1
    <3>3. ASSUME NEW i \in 1..lastOutbound', NEW tag, outbounds' = Put(outbounds, i, tag)
          PROVE  DOMAIN outbounds' \subseteq 1..lastOutbound'
      BY <3>2, <3>3 DEF Put
    <3>4. ASSUME NEW S, outbounds' = Drop(outbounds, S)
          PROVE  DOMAIN outbounds' \subseteq 1..lastOutbound'
      BY <3>2, <3>4 DEF Drop
    <3> QED
      BY <1>5, <3>1, <3>3, <3>4 DEF OutboundStep
  <2> QED
    BY <1>0, <1>5, <2>1, <2>2 DEF OutboundStep, Shapes, Grown
<1>6. CASE NotStored /\ FormStep
  <2>1. FormOpen'
    <3>1. CASE form' = form \/ form' = NoForm
      BY <1>6, <3>1 DEF Shapes, FormOpen, NotStored
    <3>2. CASE \E k \in DOMAIN endpoints : form' = [id |-> k, row |-> Redact(endpoints[k])]
      <4>1. PICK k \in DOMAIN endpoints : form' = [id |-> k, row |-> Redact(endpoints[k])]
        BY <3>2
      <4>2. IsRow(endpoints[k]) /\ (endpoints[k].type = "wireguard" => ForgetsNoKey(endpoints[k]))
        BY DEF Shapes
      <4>3. k \in 1..lastId'
        BY <1>6 DEF Shapes, NotStored
      <4> QED
        BY <1>6, <4>1, <4>2, <4>3, RedactedRow DEF FormOpen, NotStored
    <3> QED
      BY <1>6, <3>1, <3>2 DEF FormStep
  <2> QED
    BY <1>0, <1>6, <2>1 DEF Shapes, Grown, NotStored
<1> QED
  BY <1>2, <1>3, <1>4, <1>5, <1>6, StepKinds

\* At the start there are no rows and no form.
LEMMA InitShapes == Init => Shapes
  BY DEF Init, Shapes, FormOpen, NoForm

\* A tag that is checked before its row is stored stays one row's.
LEMMA OneNamespaceKept == Shapes /\ OneNamespace /\ [Next]_vars => OneNamespace'
<1> SUFFICES ASSUME Shapes, OneNamespace, [Next]_vars PROVE OneNamespace'
  OBVIOUS
<1>1. ASSUME NEW id, NEW tag, NEW r, IsRow(r), Store(id, tag, r), outbounds' = outbounds
      PROVE  OneNamespace'
  <2> DEFINE n == normalizeAndValidateWireGuard(r)
  <2>1. /\ DOMAIN endpoints' = DOMAIN endpoints \cup {id}
        /\ endpoints'[id] = n
        /\ \A e \in DOMAIN endpoints \ {id} : endpoints'[e] = endpoints[e]
        /\ ensureEgressTagAvailable("endpoint", id, n.tag)
    <3>1. StoredAs(id, tag, r, n)
      BY <1>1, StoredRow
    <3> HIDE DEF n
    <3> QED
      BY <3>1 DEF StoredAs
  <2> HIDE DEF n
  <2>2. /\ \A e \in DOMAIN endpoints \ {id} : endpoints[e].tag # n.tag
        /\ \A o \in DOMAIN outbounds : outbounds[o] # n.tag
    BY <2>1 DEF ensureEgressTagAvailable, EndpointTags, OutboundTags
  <2> QED
    BY <1>1, <2>1, <2>2 DEF OneNamespace, EndpointTags, OutboundTags
<1>2. ASSUME NEW tag, DeleteEndpoint(tag) PROVE OneNamespace'
  <2>1. /\ DOMAIN endpoints' \subseteq DOMAIN endpoints /\ outbounds' = outbounds
        /\ \A e \in DOMAIN endpoints' : endpoints'[e] = endpoints[e]
    BY <1>2 DEF DeleteEndpoint, Drop
  <2> QED
    BY <2>1 DEF OneNamespace, EndpointTags, OutboundTags
<1>3. ASSUME endpoints' = endpoints, NEW id, NEW tag,
             ensureEgressTagAvailable("outbound", id, tag), outbounds' = Put(outbounds, id, tag)
      PROVE  OneNamespace'
  <2>1. /\ \A o \in DOMAIN outbounds \ {id} : outbounds[o] # tag
        /\ \A e \in DOMAIN endpoints : endpoints[e].tag # tag
    BY <1>3 DEF ensureEgressTagAvailable, EndpointTags, OutboundTags
  <2>2. /\ DOMAIN outbounds' = DOMAIN outbounds \cup {id} /\ outbounds'[id] = tag
        /\ \A o \in DOMAIN outbounds \ {id} : outbounds'[o] = outbounds[o]
    BY <1>3 DEF Put
  <2> QED
    BY <1>3, <2>1, <2>2 DEF OneNamespace, EndpointTags, OutboundTags
<1>4. ASSUME endpoints' = endpoints, NEW S, outbounds' = Drop(outbounds, S)
      PROVE  OneNamespace'
  <2>1. /\ DOMAIN outbounds' \subseteq DOMAIN outbounds
        /\ \A o \in DOMAIN outbounds' : outbounds'[o] = outbounds[o]
    BY <1>4 DEF Drop
  <2> QED
    BY <1>4, <2>1 DEF OneNamespace, EndpointTags, OutboundTags
<1>5. CASE NotStored
  BY <1>5 DEF NotStored, OneNamespace, EndpointTags, OutboundTags
<1> QED
  BY <1>1, <1>2, <1>3, <1>4, <1>5, StepKinds DEF Added, Changed, OutboundStep

\* The table of managed routes holds the routes of the stored tunnels.
RoutesOwned == routes = UNION {ManagedRoutes(endpoints[e]) : e \in DOMAIN endpoints}

\* A managed route bears the tag of its tunnel and applies to some inbound.
LEMMA RouteTags ==
    ASSUME NEW row, NEW m \in ManagedRoutes(row)
    PROVE  m.tag = row.tag /\ m.inbounds # {}
  BY DEF ManagedRoutes

\* A save replaces the routes of the old and the new tag; those are its own,
\* because tags are not shared.
LEMMA RoutesOwnedKept ==
    Shapes /\ OneNamespace /\ RoutesOwned /\ [Next]_vars => RoutesOwned'
<1> SUFFICES ASSUME Shapes, OneNamespace, RoutesOwned, [Next]_vars PROVE RoutesOwned'
  OBVIOUS
<1>0. \A m : m \in routes <=> \E e \in DOMAIN endpoints : m \in ManagedRoutes(endpoints[e])
  BY DEF RoutesOwned
<1>1. ASSUME NEW id, NEW r, IsRow(r), NEW tag, Store(id, tag, r),
             id \in DOMAIN endpoints => tag = endpoints[id].tag,
             id \notin DOMAIN endpoints => tag = r.tag
      PROVE  RoutesOwned'
  <2> DEFINE n == normalizeAndValidateWireGuard(r)
  <2>1. /\ DOMAIN endpoints' = DOMAIN endpoints \cup {id}
        /\ endpoints'[id] = n /\ n.tag = r.tag
        /\ \A e \in DOMAIN endpoints \ {id} : endpoints'[e] = endpoints[e]
        /\ ensureEgressTagAvailable("endpoint", id, n.tag)
        /\ routes' = (routes \ RoutesOf({tag, n.tag})) \cup ManagedRoutes(n)
    <3>1. StoredAs(id, tag, r, n)
      BY <1>1, StoredRow
    <3> HIDE DEF n
    <3>2. n.tag = r.tag
      BY <3>1 DEF StoredAs, SameIdentity
    <3> QED
      BY <3>1, <3>2 DEF StoredAs
  <2> HIDE DEF n
  <2>2. \A e \in DOMAIN endpoints \ {id} : endpoints[e].tag # n.tag /\ endpoints[e].tag # tag
    <3>1. n.tag \notin EndpointTags({id})
      BY <2>1 DEF ensureEgressTagAvailable
    <3>2. \A e \in DOMAIN endpoints \ {id} : endpoints[e].tag # n.tag
      BY <3>1 DEF EndpointTags
    <3>3. ASSUME NEW e \in DOMAIN endpoints \ {id}, id \in DOMAIN endpoints
          PROVE  endpoints[e].tag # endpoints[id].tag
      BY <3>3 DEF OneNamespace
    <3>4. id \notin DOMAIN endpoints => tag = n.tag
      BY <1>1, <2>1
    <3> QED
      BY <1>1, <3>2, <3>3, <3>4
  <2>3. ASSUME NEW m PROVE m \in routes' <=>
              m \in ManagedRoutes(n)
                \/ \E e \in DOMAIN endpoints \ {id} : m \in ManagedRoutes(endpoints[e])
    <3>1. m \in routes' <=>
            (m \in routes /\ ~(m.tag \in {tag, n.tag})) \/ m \in ManagedRoutes(n)
      BY <2>1 DEF RoutesOf
    <3>2. ASSUME NEW e \in DOMAIN endpoints \ {id}, m \in ManagedRoutes(endpoints[e])
          PROVE  m \in routes /\ ~(m.tag \in {tag, n.tag})
      BY <1>0, <2>2, <3>2, RouteTags
    <3>3. ASSUME id \in DOMAIN endpoints, m \in ManagedRoutes(endpoints[id]) PROVE m.tag = tag
      BY <1>1, <3>3, RouteTags
    <3> QED
      BY <1>0, <3>1, <3>2, <3>3
  <2>4. \A m : m \in routes' <=> \E e \in DOMAIN endpoints' : m \in ManagedRoutes(endpoints'[e])
    BY <2>1, <2>3
  <2>5. routes' = UNION {ManagedRoutes(endpoints'[e]) : e \in DOMAIN endpoints'}
    BY <2>4
  <2> QED
    BY <2>5 DEF RoutesOwned
<1>2. ASSUME NEW tag, DeleteEndpoint(tag) PROVE RoutesOwned'
  <2>1. /\ DOMAIN endpoints' = {e \in DOMAIN endpoints : endpoints[e].tag # tag}
        /\ \A e \in DOMAIN endpoints' : endpoints'[e] = endpoints[e]
        /\ routes' = {m \in routes : m.tag # tag}
    BY <1>2 DEF DeleteEndpoint, Drop, RoutesOf
  <2>2. \A e \in DOMAIN endpoints : \A m \in ManagedRoutes(endpoints[e]) :
            m.tag = endpoints[e].tag
    BY RouteTags
  <2>3. \A m : m \in routes' <=> \E e \in DOMAIN endpoints' : m \in ManagedRoutes(endpoints'[e])
    BY <1>0, <2>1, <2>2
  <2>4. routes' = UNION {ManagedRoutes(endpoints'[e]) : e \in DOMAIN endpoints'}
    BY <2>3
  <2> QED
    BY <2>4 DEF RoutesOwned
<1>3. CASE UNCHANGED <<endpoints, routes>>
  BY <1>3 DEF RoutesOwned
<1>4. ASSUME NEW r, Added(r) PROVE RoutesOwned'
  <2>1. lastId + 1 \notin DOMAIN endpoints
    BY DEF Shapes
  <2> QED
    BY <1>1, <1>4, <2>1 DEF Added
<1>5. ASSUME NEW id, NEW r, Changed(id, r) PROVE RoutesOwned'
  BY <1>1, <1>5 DEF Changed
<1> QED
  BY <1>2, <1>3, <1>4, <1>5, StepKinds DEF OutboundStep, NotStored

\* No two rows of tunnels and outbounds ever have one tag, whatever is renamed,
\* deleted and brought back by an old form (ensureEgressTagAvailable).
THEOREM OneTagOneRow == Spec => []OneNamespace
<1>1. Init => Shapes /\ OneNamespace
  BY InitShapes DEF Init, OneNamespace, EndpointTags, OutboundTags
<1>2. Shapes /\ OneNamespace /\ [Next]_vars => Shapes' /\ OneNamespace'
  BY ShapesKept, OneNamespaceKept
<1> QED
  BY <1>1, <1>2, PTL DEF Spec

\* The configuration routes exactly what the stored tunnels forward, through
\* every rename, deletion and reuse of a tag (syncWireGuardManagedRoute).
THEOREM RoutesFollow == Spec => []RoutesFollowTunnels
<1>1. Init => Shapes /\ OneNamespace /\ RoutesOwned
  BY InitShapes DEF Init, OneNamespace, EndpointTags, OutboundTags, RoutesOwned
<1>2. Shapes /\ OneNamespace /\ RoutesOwned /\ [Next]_vars
        => Shapes' /\ OneNamespace' /\ RoutesOwned'
  BY ShapesKept, OneNamespaceKept, RoutesOwnedKept
<1>3. RoutesOwned => RoutesFollowTunnels
  <2> SUFFICES ASSUME RoutesOwned PROVE RoutesFollowTunnels
    OBVIOUS
  <2>1. \A m \in routes : m.inbounds # {}
    BY RouteTags DEF RoutesOwned
  <2>2. injectManagedRoutes(rules, routes) = rules \cup {m \in routes : m.cidrs # {}}
    BY <2>1 DEF injectManagedRoutes
  <2> QED
    BY <2>2 DEF RoutesOwned, RoutesFollowTunnels
<1> QED
  BY <1>1, <1>2, <1>3, PTL DEF Spec

-----------------------------------------------------------------------------
(* WARP devices *)

\* Only WARP rows name a device.
NoOtherDevices == \A e \in DOMAIN endpoints : endpoints[e].type # "warp" => endpoints[e].device = ""

\* A row gets a device nobody has, and keeps it; no license is forgotten.
LEMMA WarpKept ==
    Shapes /\ NoOtherDevices /\ WarpCredentialsHold /\ [Next]_vars
        => NoOtherDevices' /\ WarpCredentialsHold'
<1> SUFFICES ASSUME Shapes, NoOtherDevices, WarpCredentialsHold, [Next]_vars
             PROVE  NoOtherDevices' /\ WarpCredentialsHold'
  OBVIOUS
<1> DEFINE Holds(row) == /\ row.device \in DOMAIN devices
                         /\ row.token = row.device /\ row.priv = row.device
                         /\ row.license \in devices[row.device].had
           HoldsNow(row) == /\ row.device \in DOMAIN devices'
                            /\ row.token = row.device /\ row.priv = row.device
                            /\ row.license \in devices'[row.device].had
<1>0. /\ DOMAIN devices \subseteq DOMAIN devices'
      /\ \A d \in DOMAIN devices : devices[d].had \subseteq devices'[d].had
      /\ DOMAIN devices \subseteq Devices /\ "" \notin Devices
  BY StepKinds, TunnelsAssumption DEF Grown, Shapes
<1>1. ASSUME NEW e \in DOMAIN endpoints, endpoints[e].type = "warp"
      PROVE  /\ Holds(endpoints[e]) /\ HoldsNow(endpoints[e])
             /\ \A f \in DOMAIN endpoints : endpoints[f].device = endpoints[e].device => f = e
  <2>1. /\ Holds(endpoints[e])
        /\ \A f \in DOMAIN endpoints : endpoints[f].device = endpoints[e].device => f = e
    BY <1>1 DEF WarpCredentialsHold
  <2> QED
    BY <1>0, <2>1
<1>2. ASSUME NEW r, Added(r) PROVE NoOtherDevices' /\ WarpCredentialsHold'
  <2> DEFINE n == normalizeAndValidateWireGuard(r)
             new == lastId + 1
  <2>0. new \notin DOMAIN endpoints
    BY DEF Shapes
  <2>1. /\ IsRow(r) /\ Store(new, r.tag, r)
        /\ r.type = "warp" =>
              /\ r.device \in Devices \ DOMAIN devices /\ r.device \in DOMAIN devices'
              /\ r.priv = r.device /\ r.token = r.device
              /\ r.license \in devices'[r.device].had
        /\ r.type # "warp" => r.device = ""
    BY <1>2 DEF Added
  <2>2. /\ SameIdentity(n, r) /\ DOMAIN endpoints' = DOMAIN endpoints \cup {new}
        /\ endpoints'[new] = n
        /\ \A e \in DOMAIN endpoints \ {new} : endpoints'[e] = endpoints[e]
    <3>1. StoredAs(new, r.tag, r, n)
      BY <2>1, StoredRow
    <3> HIDE DEF n
    <3> QED
      BY <3>1 DEF StoredAs
  <2> HIDE DEF n, new
  <2>3. /\ n.type = r.type /\ n.device = r.device /\ n.priv = r.priv /\ n.token = r.token
        /\ n.license = r.license
    BY <2>2 DEF SameIdentity
  <2>4. \A e \in DOMAIN endpoints : endpoints'[e] = endpoints[e]
    BY <2>0, <2>2
  <2>5. NoOtherDevices'
    BY <2>1, <2>2, <2>3, <2>4 DEF NoOtherDevices
  <2>6. ASSUME n.type = "warp", NEW e \in DOMAIN endpoints PROVE endpoints[e].device # n.device
    <3>1. n.device \in Devices \ DOMAIN devices
      BY <2>1, <2>3, <2>6
    <3>2. CASE endpoints[e].type = "warp"
      BY <1>1, <3>1, <3>2
    <3>3. CASE endpoints[e].type # "warp"
      BY <1>0, <3>1, <3>3 DEF NoOtherDevices
    <3> QED
      BY <3>2, <3>3
  <2>7. n.type = "warp" => HoldsNow(n)
    BY <2>1, <2>3
  <2>8. ASSUME NEW e \in DOMAIN endpoints, endpoints[e].type = "warp"
        PROVE  endpoints[e].device # n.device
    <3>1. n.type = "warp" \/ n.device = ""
      BY <2>1, <2>3
    <3>2. endpoints[e].device # ""
      BY <1>0, <1>1, <2>8
    <3> QED
      BY <2>6, <3>1, <3>2
  <2>9. ASSUME NEW e \in DOMAIN endpoints', endpoints'[e].type = "warp"
        PROVE  /\ HoldsNow(endpoints'[e])
               /\ \A f \in DOMAIN endpoints' : endpoints'[f].device = endpoints'[e].device => f = e
    <3>1. CASE e = new
      BY <2>2, <2>4, <2>6, <2>7, <2>9, <3>1
    <3>2. CASE e \in DOMAIN endpoints
      <4>1. endpoints'[e] = endpoints[e] /\ endpoints[e].type = "warp"
        BY <2>4, <2>9, <3>2
      <4>2. HoldsNow(endpoints[e])
        BY <1>1, <3>2, <4>1
      <4>3. ASSUME NEW f \in DOMAIN endpoints', endpoints'[f].device = endpoints'[e].device
            PROVE  f = e
        <5>1. CASE f = new
          BY <2>2, <2>8, <3>2, <4>1, <4>3, <5>1
        <5>2. CASE f \in DOMAIN endpoints
          BY <1>1, <2>4, <3>2, <4>1, <4>3, <5>2
        <5> QED
          BY <2>2, <5>1, <5>2
      <4> QED
        BY <4>1, <4>2, <4>3
    <3> QED
      BY <2>2, <3>1, <3>2
  <2>10. WarpCredentialsHold'
    BY <2>9 DEF WarpCredentialsHold
  <2> QED
    BY <2>5, <2>10
<1>3. ASSUME NEW id, NEW r, Changed(id, r) PROVE NoOtherDevices' /\ WarpCredentialsHold'
  <2> DEFINE n == normalizeAndValidateWireGuard(r)
  <2>1. /\ id \in DOMAIN endpoints /\ IsRow(r) /\ Store(id, endpoints[id].tag, r)
        /\ r.type = endpoints[id].type /\ r.device = endpoints[id].device
        /\ r.type = "warp" =>
              /\ endpoints[id].priv # "" => r.priv = endpoints[id].priv
              /\ r.token = endpoints[id].token
              /\ \/ r.license = endpoints[id].license
                 \/ r.license \in devices'[r.device].had
    BY <1>3 DEF Changed
  <2>2. /\ SameIdentity(n, r) /\ DOMAIN endpoints' = DOMAIN endpoints \cup {id}
        /\ endpoints'[id] = n
        /\ \A e \in DOMAIN endpoints \ {id} : endpoints'[e] = endpoints[e]
    <3>1. StoredAs(id, endpoints[id].tag, r, n)
      BY <2>1, StoredRow
    <3> HIDE DEF n
    <3> QED
      BY <3>1 DEF StoredAs
  <2> HIDE DEF n
  <2>3. /\ n.type = r.type /\ n.device = r.device /\ n.priv = r.priv /\ n.token = r.token
        /\ n.license = r.license
    BY <2>2 DEF SameIdentity
  <2>4. /\ DOMAIN endpoints' = DOMAIN endpoints
        /\ \A e \in DOMAIN endpoints : /\ endpoints'[e].type = endpoints[e].type
                                       /\ endpoints'[e].device = endpoints[e].device
    BY <2>1, <2>2, <2>3
  <2>5. n.type = "warp" => HoldsNow(n)
    <3> SUFFICES ASSUME n.type = "warp" PROVE HoldsNow(n)
      OBVIOUS
    <3>1. Holds(endpoints[id]) /\ HoldsNow(endpoints[id])
      <4>1. endpoints[id].type = "warp"
        BY <2>1, <2>3
      <4> QED
        BY <1>0, <1>1, <2>1, <4>1
    <3> QED
      BY <1>0, <2>1, <2>3, <3>1
  <2>6. \A e \in DOMAIN endpoints : endpoints'[e].type = "warp" => HoldsNow(endpoints'[e])
    BY <1>1, <2>2, <2>5
  <2>7. NoOtherDevices'
    BY <2>4 DEF NoOtherDevices
  <2>8. WarpCredentialsHold'
    BY <1>1, <2>4, <2>6, ZenonT(60) DEF WarpCredentialsHold
  <2> QED
    BY <2>7, <2>8
<1>4. ASSUME DOMAIN endpoints' \subseteq DOMAIN endpoints,
             \A e \in DOMAIN endpoints' : endpoints'[e] = endpoints[e]
      PROVE  NoOtherDevices' /\ WarpCredentialsHold'
  <2>1. NoOtherDevices'
    BY <1>4 DEF NoOtherDevices
  <2>2. ASSUME NEW e \in DOMAIN endpoints', endpoints'[e].type = "warp"
        PROVE  /\ HoldsNow(endpoints'[e])
               /\ \A f \in DOMAIN endpoints' : endpoints'[f].device = endpoints'[e].device => f = e
    <3>1. e \in DOMAIN endpoints /\ endpoints'[e] = endpoints[e] /\ endpoints[e].type = "warp"
      BY <1>4, <2>2
    <3> HIDE DEF HoldsNow, Holds
    <3> QED
      BY <1>1, <1>4, <3>1
  <2>3. WarpCredentialsHold'
    BY <2>2 DEF WarpCredentialsHold
  <2> QED
    BY <2>1, <2>3
<1>5. ASSUME NEW tag, DeleteEndpoint(tag)
      PROVE  /\ DOMAIN endpoints' \subseteq DOMAIN endpoints
             /\ \A e \in DOMAIN endpoints' : endpoints'[e] = endpoints[e]
  BY <1>5 DEF DeleteEndpoint, Drop
<1> QED
  BY <1>2, <1>3, <1>4, <1>5, StepKinds DEF OutboundStep, NotStored

\* A stored WARP tunnel always holds the key, the token and a license of one
\* device that Cloudflare knows, and shares it with no other row, although
\* steps after a registration or a change of license fail (RegisterWarp,
\* SetWarpLicense).
THEOREM WarpCredentials == Spec => []WarpCredentialsHold
<1>1. Init => Shapes /\ NoOtherDevices /\ WarpCredentialsHold
  BY InitShapes DEF Init, NoOtherDevices, WarpCredentialsHold
<1>2. Shapes /\ NoOtherDevices /\ WarpCredentialsHold /\ [Next]_vars
        => Shapes' /\ NoOtherDevices' /\ WarpCredentialsHold'
  BY ShapesKept, WarpKept
<1> QED
  BY <1>1, <1>2, PTL DEF Spec

-----------------------------------------------------------------------------
(* Secrets come back to their owner. *)

\* No two peers of a row that was checked have one public key.
KeysApart(row) ==
    \A i, j \in DOMAIN row.peers :
        row.peers[i].pub # "" /\ (row.peers[i].pub = row.peers[j].pub => i = j)

\* The rows that were checked have distinct keys.
DistinctKeys == \A e \in DOMAIN endpoints : Checked(endpoints[e]) => KeysApart(endpoints[e])

\* What is accepted has distinct keys when it is stored.
LEMMA AcceptedKeys ==
    ASSUME NEW r, IsRow(r), Accepted(r), Checked(normalizeAndValidateWireGuard(r))
    PROVE  KeysApart(normalizeAndValidateWireGuard(r))
<1> DEFINE n == normalizeAndValidateWireGuard(r)
           ns == NormalPeers(r)
<1>1. Checked(r) /\ IsRow(n)
  BY NormalRow
<1>2. n.peers = ns
  BY <1>1 DEF normalizeAndValidateWireGuard, IsRow, RowFields
<1>3. /\ \A i \in DOMAIN ns : ns[i].pub # ""
      /\ \A i, j \in DOMAIN ns : j < i => ns[i].pub # ns[j].pub
  BY <1>1 DEF Accepted, PeerAccepted, Apart
<1>4. Len(n.peers) \in Nat /\ DOMAIN n.peers = 1..Len(n.peers)
  BY <1>1, Peers
<1> HIDE DEF ns, n
<1>5. \A i, j \in DOMAIN ns : ns[i].pub = ns[j].pub => i = j
  <2> SUFFICES ASSUME NEW i \in DOMAIN ns, NEW j \in DOMAIN ns, ns[i].pub = ns[j].pub, i # j
               PROVE  FALSE
    OBVIOUS
  <2>1. i \in Int /\ j \in Int
    BY <1>2, <1>4
  <2>2. i < j \/ j < i
    BY <2>1
  <2> QED
    BY <1>3, <2>2
<1> QED
  BY <1>2, <1>3, <1>5 DEF KeysApart, n

\* Only rows that were accepted are stored.
LEMMA DistinctKeysKept == Shapes /\ DistinctKeys /\ [Next]_vars => DistinctKeys'
<1> SUFFICES ASSUME Shapes, DistinctKeys, [Next]_vars PROVE DistinctKeys'
  OBVIOUS
<1>1. ASSUME NEW id, NEW tag, NEW r, IsRow(r), Store(id, tag, r) PROVE DistinctKeys'
  <2> DEFINE n == normalizeAndValidateWireGuard(r)
  <2>1. /\ DOMAIN endpoints' = DOMAIN endpoints \cup {id} /\ endpoints'[id] = n
        /\ \A e \in DOMAIN endpoints \ {id} : endpoints'[e] = endpoints[e]
    <3>1. StoredAs(id, tag, r, n)
      BY <1>1, StoredRow
    <3> HIDE DEF n
    <3> QED
      BY <3>1 DEF StoredAs
  <2>2. Checked(n) => KeysApart(n)
    BY <1>1, AcceptedKeys DEF Store
  <2> HIDE DEF n
  <2> QED
    BY <2>1, <2>2 DEF DistinctKeys
<1>2. ASSUME NEW tag, DeleteEndpoint(tag) PROVE DistinctKeys'
  <2>1. /\ DOMAIN endpoints' \subseteq DOMAIN endpoints
        /\ \A e \in DOMAIN endpoints' : endpoints'[e] = endpoints[e]
    BY <1>2 DEF DeleteEndpoint, Drop
  <2> QED
    BY <2>1 DEF DistinctKeys
<1>3. CASE endpoints' = endpoints
  BY <1>3 DEF DistinctKeys
<1> QED
  BY <1>1, <1>2, <1>3, StepKinds DEF Added, Changed, OutboundStep, NotStored

\* The redacted secrets of peer p are those of peer q in peer m.
GetsBack(p, q, m) ==
    /\ p.psk = Redacted /\ q.psk # "" => m.psk = q.psk
    /\ p.ckey = Redacted /\ q.ckey # "" => m.ckey = q.ckey

\* The merge gives a peer the secrets of the stored peer with its public key.
LEMMA OwnSecrets ==
    ASSUME NEW old, IsRow(old), KeysApart(old), NEW j \in DOMAIN old.peers,
           NEW i, NEW p, DOMAIN p = PeerFields, ~p.pskClear, p.pub = old.peers[j].pub
    PROVE  GetsBack(p, old.peers[j], MergedPeer(old, i, p))
<1> DEFINE o == oldPeer(old, i, p.pub)
           was == old.peers[CHOOSE k \in o : TRUE]
           key == StoredKey(old, p.pub)
           clear == p.pskClear \/ (p.psk = "" /\ p.pskSet = "false")
           m == MergedPeer(old, i, p)
<1>0. /\ p.pub # "" /\ j <= j
      /\ \A k \in DOMAIN old.peers : old.peers[k].pub = p.pub => k = j
  <2>1. Len(old.peers) \in Nat /\ j \in 1..Len(old.peers)
    BY Peers
  <2>2. j <= j
    BY <2>1
  <2>3. \A k, l \in DOMAIN old.peers :
            old.peers[k].pub # "" /\ (old.peers[k].pub = old.peers[l].pub => k = l)
    BY DEF KeysApart
  <2>4. p.pub # ""
    BY <2>3
  <2>5. \A k \in DOMAIN old.peers : old.peers[k].pub = p.pub => k = j
    BY <2>3
  <2> QED
    BY <2>2, <2>4, <2>5
<1>1. o = {j}
  <2>1. LastWith(old.peers, LAMBDA q : q.pub = p.pub) = {j}
    BY <1>0 DEF LastWith
  <2> QED
    BY <1>0, <2>1 DEF oldPeer
<1>2. ASSUME old.peers[j].ckey # "" PROVE key = old.peers[j].ckey
  <2>1. LastWith(old.peers, LAMBDA q : q.pub = p.pub /\ q.ckey # "") = {j}
    BY <1>0, <1>2 DEF LastWith
  <2> QED
    BY <2>1 DEF StoredKey
<1>3. /\ m.psk = IF clear THEN ""
                 ELSE IF Blank(p.psk) /\ o # {} /\ was.psk # "" THEN was.psk ELSE p.psk
      /\ m.ckey = IF ~Blank(p.ckey) THEN p.ckey ELSE IF key # "" THEN key
                  ELSE IF o # {} /\ was.ckey # "" THEN was.ckey ELSE p.ckey
  BY DEF MergedPeer, PeerFields
<1> HIDE DEF o, key, m
<1>4. was = old.peers[j]
  BY <1>1
<1> HIDE DEF was
<1>5. p.psk = Redacted => ~clear /\ Blank(p.psk)
  BY DEF Redacted, Blank
<1>6. p.ckey = Redacted => Blank(p.ckey)
  BY DEF Redacted, Blank
<1>7. ASSUME p.psk = Redacted, old.peers[j].psk # "" PROVE m.psk = old.peers[j].psk
  <2> HIDE DEF clear
  <2> QED
    BY <1>1, <1>3, <1>4, <1>5, <1>7
<1>8. ASSUME p.ckey = Redacted, old.peers[j].ckey # "" PROVE m.ckey = old.peers[j].ckey
  <2> HIDE DEF clear
  <2> QED
    BY <1>2, <1>3, <1>6, <1>8
<1>9. GetsBack(p, old.peers[j], m)
  BY <1>7, <1>8 DEF GetsBack
<1> QED
  BY <1>9 DEF m

\* A form that was opened before other saves still gives every peer its own
\* secrets back, by public key, wherever the peer is in the stored row now
\* (mergeWireGuardSecrets).
THEOREM SecretsRestored == Spec => []OwnSecretsRestored
<1>1. Init => Shapes /\ DistinctKeys
  BY InitShapes DEF Init, DistinctKeys
<1>2. Shapes /\ DistinctKeys /\ [Next]_vars => Shapes' /\ DistinctKeys'
  BY ShapesKept, DistinctKeysKept
<1>3. Shapes /\ DistinctKeys => OwnSecretsRestored
  <2> SUFFICES ASSUME Shapes, DistinctKeys, form # NoForm, form.id \in DOMAIN endpoints,
                      Checked(endpoints[form.id])
               PROVE  LET old == endpoints[form.id]
                          new == Merge(form.row, old)
                      IN  /\ ~Blank(old.priv) => new.priv = old.priv
                          /\ \A i \in DOMAIN new.peers, j \in DOMAIN old.peers :
                                new.peers[i].pub = old.peers[j].pub =>
                                    /\ form.row.peers[i].psk = Redacted /\ old.peers[j].psk # ""
                                          => new.peers[i].psk = old.peers[j].psk
                                    /\ form.row.peers[i].ckey = Redacted /\ old.peers[j].ckey # ""
                                          => new.peers[i].ckey = old.peers[j].ckey
    BY DEF OwnSecretsRestored
  <2> DEFINE f == form.row
             old == endpoints[form.id]
             new == Merge(f, old)
             P == [i \in DOMAIN f.peers |-> MergedPeer(old, i, f.peers[i])]
  <2>1. /\ IsRow(f) /\ IsRow(old) /\ Blank(f.priv) /\ f.type = "wireguard"
        /\ ForgetsNoKey(f) /\ KeysApart(old)
    BY DEF Shapes, FormOpen, DistinctKeys, Checked
  <2>2. new = [f EXCEPT !.priv = IF Blank(f.priv) /\ old.priv # "" THEN old.priv ELSE f.priv,
                        !.peers = P]
    BY <2>1 DEF Merge, mergeWireGuardSecrets
  <2> HIDE DEF P, old
  <2>3. new.priv = (IF Blank(f.priv) /\ old.priv # "" THEN old.priv ELSE f.priv) /\ new.peers = P
    BY <2>1, <2>2 DEF IsRow, RowFields
  <2> HIDE DEF new
  <2>4. ~Blank(old.priv) => new.priv = old.priv
    BY <2>1, <2>3 DEF Blank
  <2>5. ASSUME NEW i \in DOMAIN f.peers
        PROVE  DOMAIN f.peers[i] = PeerFields /\ ~f.peers[i].pskClear
    BY <2>1 DEF IsRow, ForgetsNoKey
  <2>6. DOMAIN P = DOMAIN f.peers
        /\ \A i \in DOMAIN f.peers : P[i] = MergedPeer(old, i, f.peers[i])
    BY DEF P
  <2>7. \A i, p : DOMAIN p = PeerFields => MergedPeer(old, i, p).pub = p.pub
    BY DEF MergedPeer, PeerFields
  <2>8. ASSUME NEW i \in DOMAIN new.peers, NEW j \in DOMAIN old.peers,
               new.peers[i].pub = old.peers[j].pub
        PROVE  /\ f.peers[i].psk = Redacted /\ old.peers[j].psk # ""
                    => new.peers[i].psk = old.peers[j].psk
               /\ f.peers[i].ckey = Redacted /\ old.peers[j].ckey # ""
                    => new.peers[i].ckey = old.peers[j].ckey
    <3>1. i \in DOMAIN f.peers /\ new.peers[i] = MergedPeer(old, i, f.peers[i])
      BY <2>3, <2>6, <2>8
    <3>2. f.peers[i].pub = old.peers[j].pub
      BY <2>5, <2>7, <2>8, <3>1
    <3> DEFINE p == f.peers[i]
    <3>3. DOMAIN p = PeerFields /\ ~p.pskClear /\ p.pub = old.peers[j].pub
      BY <2>5, <3>1, <3>2
    <3> HIDE DEF p
    <3>4. GetsBack(p, old.peers[j], MergedPeer(old, i, p))
      BY <2>1, <3>3, OwnSecrets
    <3>5. new.peers[i] = MergedPeer(old, i, p)
      BY <3>1 DEF p
    <3>6. GetsBack(p, old.peers[j], new.peers[i])
      BY <3>4, <3>5
    <3> QED
      BY <3>6 DEF p, GetsBack
  <2> QED
    BY <2>4, <2>8 DEF new, old
<1> QED
  BY <1>1, <1>2, <1>3, PTL DEF Spec

-----------------------------------------------------------------------------
(* What is accepted can be relied on. *)

Presets == {"peer_addresses", "remote_networks", "full_tunnel", "custom"}

\* What is said of a peer of a checked row: what sing-box is given of it is
\* normalised and carries its networks, its shared key is a key, and only a
\* managed client has a key pair and routes of its own.
SoundPeer(p) ==
    /\ p.remote # "" /\ p.psk # Redacted
    /\ p.preset \in Presets /\ p.runtime # {} /\ p.runtime \subseteq Prefixes
    /\ p.allowed = p.runtime
    /\ RuntimeAllowed(p, p.preset, Assigned(p)) = p.runtime
    /\ \A s \in p.sites :
          s \in Prefixes /\ \E q \in p.runtime : q.bits <= s.bits /\ Contains(q, s)
    /\ \A q \in p.local : q.bits # 0
    /\ p.keyMode # "generated_client" => p.ckey = ""
    /\ p.keyMode = "generated_client" =>
          p.callowed # {} /\ \A q \in p.callowed : q.bits = 0 => p.cpreset = "full_tunnel"

\* No address is carried by two peers.
CarriedApart(row) ==
    \A i, j \in DOMAIN row.peers : i # j =>
        \A q \in row.peers[i].runtime, r \in row.peers[j].runtime : ~Overlaps(q, r)

SoundRow(row) ==
    /\ KeysApart(row) /\ CarriedApart(row)
    /\ \A i \in DOMAIN row.peers : SoundPeer(row.peers[i])

\* The fields that are written into a peer p, n being the result.
Written(row, p, n) ==
    LET a == Assigned(p)
        role == normalizePeerRole(p)
        include == Included(p, a)
    IN  /\ n.role = role /\ n.remote = RemoteMode(p) /\ n.keyMode = KeyMode(p, role)
        /\ n.assigned = a /\ n.preset = Preset(p, role, a)
        /\ n.runtime = RuntimeAllowed(p, n.preset, a) /\ n.allowed = n.runtime
        /\ n.local = (IF role = "site_gateway" THEN p.local ELSE {})
        /\ n.sites = p.sites /\ n.psk = p.psk /\ n.pub = p.pub /\ n.static = p.static
        /\ n.keyMode # "generated_client" => n.ckey = ""
        /\ n.keyMode = "generated_client" =>
              /\ n.include = include
              /\ n.callowed = {q \in ClientAllowed(row, p, role, include) : q.v6 \in include}

\* What the normalisation writes into a peer, field by field.
LEMMA WrittenFields ==
    ASSUME NEW row, NEW p, DOMAIN p = PeerFields
    PROVE  Written(row, p, NormalPeer(row, p))
  BY ZenonT(60) DEF NormalPeer, PeerFields, Written

\* Masking a prefix twice is masking it once.
LEMMA MaskedTwice ==
    ASSUME NEW p, Masked(p) \in Prefixes
    PROVE  Masked(Masked(p)) = Masked(p)
<1> DEFINE m == Masked(p)
<1>1. m = [v6 |-> m.v6, addr |-> m.addr, bits |-> m.bits] /\ m.addr \in Addresses
  BY DEF Prefixes
<1>2. /\ DOMAIN m = DOMAIN p /\ DOMAIN p = {"v6", "addr", "bits"} /\ m.bits = p.bits
      /\ m.addr = [i \in 1..Width |-> IF i <= p.bits THEN p.addr[i] ELSE 0]
  <2>1. DOMAIN m = DOMAIN p
    BY DEF Masked
  <2>2. DOMAIN m = {"v6", "addr", "bits"}
    BY <1>1
  <2> QED
    BY <2>1, <2>2 DEF Masked
<1> HIDE DEF m
<1>3. [i \in 1..Width |-> IF i <= m.bits THEN m.addr[i] ELSE 0] = m.addr
  BY <1>2
<1>4. [m EXCEPT !.addr = m.addr] = m
  BY <1>1
<1> QED
  BY <1>3, <1>4 DEF Masked, m

\* Normalising the routes of a normalised peer changes nothing, although the
\* routes it has now may count as addresses.
LEMMA RoutesStay ==
    ASSUME NEW p, NEW n, NEW a,
           n.preset \in Presets, n.runtime # {}, n.runtime \subseteq Prefixes,
           n.allowed = n.runtime, n.sites = p.sites, n.assigned = a,
           n.runtime = RuntimeAllowed(p, n.preset, a)
    PROVE  RuntimeAllowed(n, n.preset, Assigned(n)) = n.runtime
<1>1. ASSUME NEW S, n.runtime = {Masked(q) : q \in S}
      PROVE  /\ {Masked(q) : q \in n.runtime} = n.runtime
             /\ \A T \in SUBSET n.runtime : {Masked(q) : q \in T \cup S} = n.runtime
  <2>1. \A q \in S : Masked(q) \in Prefixes
    BY <1>1
  <2>2. \A q \in n.runtime : Masked(q) = q
    BY <1>1, <2>1, MaskedTwice
  <2> QED
    BY <1>1, <2>2
<1>2. a # {} => Assigned(n) = a
  BY DEF Assigned
<1>3. a = {} => Assigned(n) \in SUBSET n.runtime
  BY DEF Assigned
<1>4. CASE n.preset = "peer_addresses"
  <2>1. n.runtime = {Masked(q) : q \in a}
    BY <1>4 DEF RuntimeAllowed
  <2> QED
    BY <1>2, <1>4, <2>1 DEF RuntimeAllowed
<1>5. CASE n.preset = "remote_networks"
  <2>1. n.runtime = {Masked(q) : q \in a \cup p.sites}
    BY <1>5 DEF RuntimeAllowed
  <2>2. a = {} => n.runtime = {Masked(q) : q \in p.sites}
    BY <2>1
  <2>3. RuntimeAllowed(n, n.preset, Assigned(n)) = {Masked(q) : q \in Assigned(n) \cup p.sites}
    BY <1>5 DEF RuntimeAllowed
  <2> QED
    BY <1>1, <1>2, <1>3, <2>1, <2>2, <2>3
<1>6. CASE n.preset \in {"full_tunnel", "custom"}
  <2>1. \E S : n.runtime = {Masked(q) : q \in S}
    BY <1>6 DEF RuntimeAllowed
  <2>2. RuntimeAllowed(n, n.preset, Assigned(n)) = {Masked(q) : q \in n.runtime}
    BY <1>6 DEF RuntimeAllowed
  <2> QED
    BY <1>1, <2>1, <2>2
<1> QED
  BY <1>4, <1>5, <1>6 DEF Presets

\* A peer that is accepted is sound when it is stored.
LEMMA AcceptedPeer ==
    ASSUME NEW row, NEW p, DOMAIN p = PeerFields,
           PeerAccepted(row, p, NormalPeer(row, p)), NormalPeer(row, p).psk # Redacted
    PROVE  SoundPeer(NormalPeer(row, p))
<1> DEFINE n == NormalPeer(row, p)
<1>1. Written(row, p, n)
  BY WrittenFields
<1>2. PeerAccepted(row, p, n) /\ n.psk # Redacted
  OBVIOUS
<1> HIDE DEF n
<1>3. n.preset \in Presets /\ n.runtime # {} /\ n.runtime \subseteq Prefixes
  BY <1>2 DEF PeerAccepted, Presets
<1>4. n.remote # ""
  BY <1>1 DEF Written, RemoteMode
<1>5. RuntimeAllowed(n, n.preset, Assigned(n)) = n.runtime
  BY <1>1, <1>3, RoutesStay, ZenonT(60) DEF Written
<1>6. \A s \in n.sites :
          s \in Prefixes /\ \E q \in n.runtime : q.bits <= s.bits /\ Contains(q, s)
  BY <1>1, <1>2 DEF PeerAccepted, validateSiteCIDR, Written
<1>7. \A q \in n.local : q.bits # 0
  BY <1>1, <1>2 DEF PeerAccepted, validateSiteCIDR, Written
<1>8. ASSUME n.keyMode = "generated_client"
      PROVE  n.callowed # {} /\ \A q \in n.callowed : q.bits = 0 => n.cpreset = "full_tunnel"
  <2>1. ClientAccepted(row, p, n)
    BY <1>2, <1>8 DEF PeerAccepted
  <2>2. /\ n.callowed # {}
        /\ \A q \in ClientAllowed(row, p, n.role, n.include) :
              q.bits = 0 => n.cpreset = "full_tunnel"
    BY <2>1 DEF ClientAccepted
  <2> QED
    BY <1>1, <1>8, <2>2 DEF Written
<1>9. SoundPeer(n)
  BY <1>1, <1>2, <1>3, <1>4, <1>5, <1>6, <1>7, <1>8 DEF SoundPeer, Written
<1> QED
  BY <1>9 DEF n

\* A row that is accepted is sound when it is stored.
LEMMA AcceptedRow ==
    ASSUME NEW r, IsRow(r), Accepted(r), ValidateConfig(normalizeAndValidateWireGuard(r)),
           Checked(normalizeAndValidateWireGuard(r))
    PROVE  SoundRow(normalizeAndValidateWireGuard(r))
<1> DEFINE n == normalizeAndValidateWireGuard(r)
           ns == NormalPeers(r)
<1>1. Checked(r) /\ IsRow(n) /\ KeysApart(n)
  BY NormalRow, AcceptedKeys
<1>2. n.peers = ns
  BY <1>1 DEF normalizeAndValidateWireGuard, IsRow, RowFields
<1>3. DOMAIN ns = DOMAIN r.peers /\ \A i \in DOMAIN ns : ns[i] = NormalPeer(r, r.peers[i])
  BY DEF NormalPeers
<1>4. Len(n.peers) \in Nat /\ DOMAIN n.peers = 1..Len(n.peers)
  BY <1>1, Peers
<1>5. ValidateConfig(n)
  OBVIOUS
<1>6. /\ \A i \in DOMAIN ns : PeerAccepted(r, r.peers[i], ns[i])
      /\ \A i, j \in DOMAIN ns : j < i =>
            \A q \in ns[i].runtime, s \in ns[j].runtime : ~Overlaps(q, s)
  BY <1>1 DEF Accepted, Apart
<1> HIDE DEF n, ns
<1>7. \A q, s : Overlaps(q, s) => Overlaps(s, q)
  BY DEF Overlaps
<1>8. CarriedApart(n)
  <2> SUFFICES ASSUME NEW i \in DOMAIN ns, NEW j \in DOMAIN ns, i # j,
                      NEW q \in ns[i].runtime, NEW s \in ns[j].runtime
               PROVE  ~Overlaps(q, s)
    BY <1>2 DEF CarriedApart
  <2>1. i \in Int /\ j \in Int
    BY <1>2, <1>4
  <2>2. j < i \/ i < j
    BY <2>1
  <2> QED
    BY <1>6, <1>7, <2>2
<1>9. ASSUME NEW i \in DOMAIN ns PROVE SoundPeer(ns[i])
  <2>1. DOMAIN r.peers[i] = PeerFields /\ ns[i] = NormalPeer(r, r.peers[i])
    BY <1>3, <1>9 DEF IsRow
  <2>2. ns[i].psk # Redacted
    <3>1. wireGuardRuntimeOptions(n)[i].psk # Redacted
      BY <1>2, <1>5, <1>9 DEF ValidateConfig
    <3>2. wireGuardRuntimeOptions(n)[i].psk = ns[i].psk
      BY <1>2, <1>9 DEF wireGuardRuntimeOptions
    <3> QED
      BY <3>1, <3>2
  <2> QED
    BY <1>6, <1>9, <2>1, <2>2, AcceptedPeer
<1>10. SoundRow(n)
  BY <1>1, <1>2, <1>8, <1>9 DEF SoundRow
<1> QED
  BY <1>10 DEF n

\* The stored rows that were checked are sound.
StoredSound == \A e \in DOMAIN endpoints : Checked(endpoints[e]) => SoundRow(endpoints[e])

\* The stored rows that were checked hold no private key beside their peers.
StoredKeys == \A e \in DOMAIN endpoints : Checked(endpoints[e]) => NoKeys(endpoints[e])

\* Row r is stored under an id.
Stores(id, r) ==
    /\ IsRow(r) /\ Accepted(r) /\ ValidateConfig(normalizeAndValidateWireGuard(r))
    /\ OldKeysOnly /\ Checked(r) => NoKeys(r)
    /\ endpoints'[id] = normalizeAndValidateWireGuard(r)
    /\ DOMAIN endpoints' = DOMAIN endpoints \cup {id}
    /\ \A e \in DOMAIN endpoints \ {id} : endpoints'[e] = endpoints[e]

\* Rows are taken away, or none.
TakesAway ==
    /\ DOMAIN endpoints' \subseteq DOMAIN endpoints
    /\ \A e \in DOMAIN endpoints' : endpoints'[e] = endpoints[e]

\* A step stores one row, or takes rows away.
LEMMA StoreKinds ==
    ASSUME Shapes, [Next]_vars
    PROVE  (\E id, r : Stores(id, r)) \/ TakesAway
<1>1. ASSUME NEW id, NEW tag, NEW r, IsRow(r), Store(id, tag, r),
             OldKeysOnly /\ Checked(r) => NoKeys(r)
      PROVE  Stores(id, r)
  <2>1. Accepted(r) /\ ValidateConfig(normalizeAndValidateWireGuard(r))
    BY <1>1 DEF Store
  <2> QED
    BY <1>1, <2>1, StoredRow DEF Stores, StoredAs
<1>2. ASSUME NEW tag, DeleteEndpoint(tag) PROVE TakesAway
  BY <1>2 DEF DeleteEndpoint, Drop, TakesAway
<1>3. ASSUME NEW r, Added(r) PROVE Stores(lastId + 1, r)
  BY <1>1, <1>3 DEF Added, Checked
<1>4. ASSUME NEW id, NEW r, Changed(id, r) PROVE Stores(id, r)
  BY <1>1, <1>4 DEF Changed, Checked
<1>5. endpoints' = endpoints => TakesAway
  BY DEF TakesAway
<1> QED
  BY <1>2, <1>3, <1>4, <1>5, StepKinds DEF OutboundStep, NotStored

\* Every step keeps what is stored sound.
LEMMA StoredSoundKept == Shapes /\ StoredSound /\ [Next]_vars => StoredSound'
<1> SUFFICES ASSUME Shapes, StoredSound, [Next]_vars PROVE StoredSound'
  OBVIOUS
<1>1. ASSUME NEW id, NEW r, Stores(id, r) PROVE StoredSound'
  <2>1. Checked(endpoints'[id]) => SoundRow(endpoints'[id])
    BY <1>1, AcceptedRow DEF Stores
  <2>2. \A e \in DOMAIN endpoints \ {id} : Checked(endpoints'[e]) => SoundRow(endpoints'[e])
    BY <1>1 DEF Stores, StoredSound
  <2> QED
    BY <1>1, <2>1, <2>2 DEF Stores, StoredSound
<1>2. ASSUME TakesAway PROVE StoredSound'
  BY <1>2 DEF TakesAway, StoredSound
<1> QED
  BY <1>1, <1>2, StoreKinds

\* No step puts a private key beside the peers of a checked row, when only rows of the
\* earlier schema bring one.
LEMMA StoredKeysKept == OldKeysOnly /\ Shapes /\ StoredKeys /\ [Next]_vars => StoredKeys'
<1> SUFFICES ASSUME OldKeysOnly, Shapes, StoredKeys, [Next]_vars PROVE StoredKeys'
  OBVIOUS
<1>1. ASSUME NEW id, NEW r, Stores(id, r) PROVE StoredKeys'
  <2> DEFINE n == normalizeAndValidateWireGuard(r)
  <2>1. SameIdentity(n, r) /\ (Checked(n) <=> Checked(r))
    BY <1>1, NormalRow DEF Stores
  <2>2. endpoints'[id] = n
    BY <1>1 DEF Stores
  <2> HIDE DEF n
  <2>3. Checked(n) => NoKeys(n)
    BY <1>1, <2>1 DEF Stores, SameIdentity, NoKeys
  <2> QED
    BY <1>1, <2>2, <2>3 DEF Stores, StoredKeys
<1>2. ASSUME TakesAway PROVE StoredKeys'
  BY <1>2 DEF TakesAway, StoredKeys
<1> QED
  BY <1>1, <1>2, StoreKinds

\* Traffic has one peer to go to: in every stored tunnel no address is carried
\* by two peers, no two peers have one key, and the networks behind a site
\* gateway are carried by it (normalizeAndValidateWireGuard).
THEOREM OnePeer == Spec => []OnePeerPerAddress
<1>1. Init => Shapes /\ StoredSound
  BY InitShapes DEF Init, StoredSound
<1>2. Shapes /\ StoredSound /\ [Next]_vars => Shapes' /\ StoredSound'
  BY ShapesKept, StoredSoundKept
<1>3. StoredSound => OnePeerPerAddress
  <2> SUFFICES ASSUME NEW row, SoundRow(row)
               PROVE  LET given == wireGuardRuntimeOptions(row)
                      IN  \A i, j \in DOMAIN given :
                            /\ i # j => \A q \in given[i].allowed, r \in given[j].allowed :
                                            ~Overlaps(q, r)
                            /\ i # j => given[i].pub # given[j].pub
                            /\ \A s \in row.peers[i].sites :
                                  \E q \in given[i].allowed :
                                      Net(s) \subseteq Net(q) /\ s.v6 = q.v6
    BY DEF StoredSound, OnePeerPerAddress
  <2> DEFINE given == wireGuardRuntimeOptions(row)
  <2>1. DOMAIN given = DOMAIN row.peers
    BY DEF wireGuardRuntimeOptions
  <2>2. ASSUME NEW i \in DOMAIN row.peers
        PROVE  given[i].allowed = row.peers[i].runtime /\ given[i].pub = row.peers[i].pub
    BY DEF wireGuardRuntimeOptions, SoundRow, SoundPeer
  <2>3. ASSUME NEW s \in Prefixes, NEW q \in Prefixes, q.bits <= s.bits, Contains(q, s)
        PROVE  Net(s) \subseteq Net(q) /\ s.v6 = q.v6
    <3>1. q.bits \in 0..Width /\ s.bits \in 0..Width
      BY DEF Prefixes
    <3>2. 1..q.bits \subseteq 1..s.bits
      BY <2>3, <3>1, FormAssumption
    <3>3. s.addr \in Net(q) /\ s.v6 = q.v6
      BY <2>3 DEF Contains
    <3> QED
      BY <3>2, <3>3 DEF Net
  <2>4. ASSUME NEW i \in DOMAIN row.peers, NEW s \in row.peers[i].sites
        PROVE  \E q \in row.peers[i].runtime : Net(s) \subseteq Net(q) /\ s.v6 = q.v6
    <3>1. /\ s \in Prefixes /\ row.peers[i].runtime \subseteq Prefixes
          /\ \E q \in row.peers[i].runtime : q.bits <= s.bits /\ Contains(q, s)
      BY <2>4 DEF SoundRow, SoundPeer
    <3> QED
      BY <2>3, <3>1
  <2> HIDE DEF given
  <2>5. ASSUME NEW i \in DOMAIN given, NEW j \in DOMAIN given
        PROVE  /\ i # j => \A q \in given[i].allowed, r \in given[j].allowed : ~Overlaps(q, r)
               /\ i # j => given[i].pub # given[j].pub
    <3>1. i \in DOMAIN row.peers /\ j \in DOMAIN row.peers
      BY <2>1, <2>5
    <3>2. KeysApart(row) /\ CarriedApart(row)
      BY DEF SoundRow
    <3> QED
      BY <2>2, <3>1, <3>2 DEF KeysApart, CarriedApart
  <2>6. \A i \in DOMAIN given : \A s \in row.peers[i].sites :
            \E q \in given[i].allowed : Net(s) \subseteq Net(q) /\ s.v6 = q.v6
    BY <2>1, <2>2, <2>4
  <2> QED
    BY <2>5, <2>6 DEF given
<1> QED
  BY <1>1, <1>2, <1>3, PTL DEF Spec

\* A default route is exported only under the full-tunnel preset, where rows of
\* the present schema hold no private keys beside their peers
\* (normalizeAndValidateWireGuard, ExportWireGuardPeer).
THEOREM DefaultRoute == OldKeysOnly => (Spec => []DefaultRouteByPreset)
<1> SUFFICES ASSUME OldKeysOnly PROVE Spec => []DefaultRouteByPreset
  OBVIOUS
<1>1. Init => Shapes /\ StoredSound /\ StoredKeys
  BY InitShapes DEF Init, StoredSound, StoredKeys
<1>2. Shapes /\ StoredSound /\ StoredKeys /\ [Next]_vars
        => Shapes' /\ StoredSound' /\ StoredKeys'
  BY ShapesKept, StoredSoundKept, StoredKeysKept
<1>3. StoredSound /\ StoredKeys => DefaultRouteByPreset
  <2> SUFFICES ASSUME NEW row, NEW p, SoundPeer(p), NoKeys(row), Exportable(row, p),
                      NEW q \in ExportAllowed(row, p), q.bits = 0
               PROVE  p.cpreset = "full_tunnel"
    BY DEF StoredSound, StoredKeys, DefaultRouteByPreset, SoundRow
  <2>1. p.ckey # ""
    BY DEF Exportable, ExportKey, NoKeys
  <2>2. p.callowed # {} /\ \A c \in p.callowed : c.bits = 0 => p.cpreset = "full_tunnel"
    BY <2>1 DEF SoundPeer
  <2>3. q \in p.callowed \cup p.local
    BY <2>2 DEF ExportAllowed
  <2>4. q \notin p.local
    BY DEF SoundPeer
  <2> QED
    BY <2>2, <2>3, <2>4
<1> QED
  BY <1>1, <1>2, <1>3, PTL DEF Spec

\* A peer that is redacted and merged with itself is what it was, but for its
\* key pair and for what says that a shared key is set.
LEMMA ResavedPeer ==
    ASSUME NEW row, IsRow(row), KeysApart(row), NEW i \in DOMAIN row.peers,
           ~row.peers[i].pskClear
    PROVE  LET p == row.peers[i]
               m == MergedPeer(row, i, HiddenKeys(p))
           IN  /\ DOMAIN m = PeerFields
               /\ \A x \in PeerFields \ {"ckey", "pskSet", "pskClear"} : m[x] = p[x]
<1> DEFINE p == row.peers[i]
           h == HiddenKeys(p)
           m == MergedPeer(row, i, h)
           o == oldPeer(row, i, h.pub)
           was == row.peers[CHOOSE j \in o : TRUE]
           clear == h.pskClear \/ (h.psk = "" /\ h.pskSet = "false")
<1>1. DOMAIN p = PeerFields /\ ~p.pskClear
  BY DEF IsRow
<1>2. /\ DOMAIN h = PeerFields /\ h.psk = Hide(p.psk)
      /\ \A x \in PeerFields \ {"ckey", "psk", "pskSet"} : h[x] = p[x]
  BY <1>1 DEF HiddenKeys, PeerFields
<1> HIDE DEF p, h
<1>3. /\ DOMAIN m = PeerFields
      /\ \A x \in PeerFields \ {"ckey", "psk", "pskClear"} : m[x] = h[x]
      /\ m.psk = IF clear THEN ""
                 ELSE IF Blank(h.psk) /\ o # {} /\ was.psk # "" THEN was.psk ELSE h.psk
  BY <1>2 DEF MergedPeer, PeerFields
<1>4. h.pub = p.pub /\ h.pskClear = p.pskClear
  BY <1>2 DEF PeerFields
<1>5. o = {i}
  <2>1. Len(row.peers) \in Nat /\ i \in 1..Len(row.peers)
    BY Peers
  <2>2. i <= i
    BY <2>1
  <2>3. p.pub # "" /\ \A k \in DOMAIN row.peers : row.peers[k].pub = p.pub => k = i
    BY DEF KeysApart, p
  <2>4. LastWith(row.peers, LAMBDA q : q.pub = h.pub) = {i}
    BY <1>4, <2>2, <2>3 DEF LastWith, p
  <2> QED
    BY <1>4, <2>3, <2>4 DEF oldPeer
<1>6. was = p
  BY <1>5 DEF p
<1> HIDE DEF m, o, was
<1>7. m.psk = p.psk
  <2>1. CASE p.psk = ""
    BY <1>2, <1>3, <1>6, <2>1 DEF Hide
  <2>2. CASE p.psk # ""
    <3>1. h.psk = Redacted /\ h.psk # "" /\ Blank(h.psk)
      BY <1>2, <2>2 DEF Hide, Redacted, Blank
    <3> QED
      BY <1>1, <1>3, <1>4, <1>5, <1>6, <2>2, <3>1
  <2> QED
    BY <2>1, <2>2
<1>8. \A x \in PeerFields \ {"ckey", "pskSet", "pskClear"} : m[x] = p[x]
  BY <1>2, <1>3, <1>7
<1> QED
  BY <1>3, <1>8 DEF m, h, p

\* Normalising a peer that is sound but for its key pair gives sing-box what
\* it had.
LEMMA NormalAgain ==
    ASSUME NEW row, NEW p, NEW m, SoundPeer(p), DOMAIN m = PeerFields,
           \A x \in PeerFields \ {"ckey", "pskSet", "pskClear"} : m[x] = p[x]
    PROVE  LET n == NormalPeer(row, m)
           IN  /\ n.pub = p.pub /\ n.psk = p.psk /\ n.remote = p.remote
               /\ n.static = p.static /\ n.runtime = p.runtime /\ n.allowed = p.allowed
<1> DEFINE n == NormalPeer(row, m)
<1>1. /\ m.pub = p.pub /\ m.psk = p.psk /\ m.remote = p.remote /\ m.static = p.static
      /\ m.runtime = p.runtime /\ m.allowed = p.allowed /\ m.assigned = p.assigned
      /\ m.sites = p.sites /\ m.preset = p.preset
  BY DEF PeerFields
<1>2. Written(row, m, n)
  BY WrittenFields
<1> HIDE DEF n
<1>4. /\ p.remote # "" /\ p.preset \in Presets /\ p.allowed = p.runtime
      /\ RuntimeAllowed(p, p.preset, Assigned(p)) = p.runtime
  BY DEF SoundPeer
<1>5. n.remote = p.remote
  BY <1>1, <1>2, <1>4 DEF Written, RemoteMode
<1>6. n.preset = p.preset
  BY <1>1, <1>2, <1>4 DEF Written, Preset, Presets
<1>7. Assigned(m) = Assigned(p)
  BY <1>1 DEF Assigned
<1>8. RuntimeAllowed(m, p.preset, Assigned(p)) = RuntimeAllowed(p, p.preset, Assigned(p))
  BY <1>1 DEF RuntimeAllowed
<1>9. n.runtime = p.runtime
  BY <1>2, <1>4, <1>6, <1>7, <1>8 DEF Written
<1> QED
  BY <1>1, <1>2, <1>4, <1>5, <1>9 DEF Written, n

\* A stored tunnel that is read and saved without a change gives sing-box what
\* it gave before, when it is accepted (redact, merge, normalise).
THEOREM ResaveStable == Spec => []ResaveChangesNothing
<1>1. Init => Shapes /\ StoredSound
  BY InitShapes DEF Init, StoredSound
<1>2. Shapes /\ StoredSound /\ [Next]_vars => Shapes' /\ StoredSound'
  BY ShapesKept, StoredSoundKept
<1>3. Shapes /\ StoredSound => ResaveChangesNothing
  <2> SUFFICES ASSUME NEW row, IsRow(row), ForgetsNoKey(row), Checked(row), SoundRow(row)
               PROVE  wireGuardRuntimeOptions(normalizeAndValidateWireGuard(Resaved(row)))
                          = wireGuardRuntimeOptions(row)
    BY DEF Shapes, StoredSound, ResaveChangesNothing, Checked
  <2> DEFINE f == Redact(row)
             again == Resaved(row)
             n == normalizeAndValidateWireGuard(again)
             M == [i \in DOMAIN row.peers |-> MergedPeer(row, i, HiddenKeys(row.peers[i]))]
             N == [i \in DOMAIN row.peers |-> NormalPeer(again, M[i])]
  <2>1. DOMAIN row = RowFields /\ row.type = "wireguard" /\ row.strict
    BY DEF IsRow, Checked
  <2>2. /\ DOMAIN f = RowFields /\ f.type = "wireguard" /\ f.strict
        /\ f.peers = [i \in DOMAIN row.peers |-> HiddenKeys(row.peers[i])]
    BY <2>1 DEF Redact, redactWireGuardSecrets, RowFields
  <2>3. /\ DOMAIN again = RowFields /\ again.type = "wireguard" /\ again.strict
        /\ again.peers = M
    <3> DEFINE P == [i \in DOMAIN f.peers |-> MergedPeer(row, i, f.peers[i])]
               k == IF Blank(f.priv) /\ row.priv # "" THEN row.priv ELSE f.priv
    <3>1. again = [f EXCEPT !.priv = k, !.peers = P]
      BY <2>2 DEF Resaved, Merge, mergeWireGuardSecrets
    <3>2. P = M
      BY <2>2
    <3> HIDE DEF P, k, M, again, f
    <3> QED
      BY <2>2, <3>1, <3>2 DEF RowFields
  <2> HIDE DEF f, again
  <2>4. n.peers = N
    <3>1. NormalPeers(again) = N
      <4>1. DOMAIN M = DOMAIN row.peers
        OBVIOUS
      <4> HIDE DEF M
      <4> QED
        BY <2>3, <4>1 DEF NormalPeers
    <3>2. n = [again EXCEPT !.peers = NormalPeers(again)]
      BY <2>3 DEF normalizeAndValidateWireGuard, Checked
    <3> HIDE DEF n, N, M
    <3> QED
      BY <2>3, <3>1, <3>2 DEF RowFields
  <2>5. ASSUME NEW i \in DOMAIN row.peers
        PROVE  LET p == row.peers[i]
               IN  /\ N[i].pub = p.pub /\ N[i].psk = p.psk /\ N[i].remote = p.remote
                   /\ N[i].static = p.static /\ N[i].runtime = p.runtime
                   /\ N[i].allowed = p.allowed
    <3>1. /\ DOMAIN M[i] = PeerFields
          /\ \A x \in PeerFields \ {"ckey", "pskSet", "pskClear"} : M[i][x] = row.peers[i][x]
      BY <2>5, ResavedPeer DEF SoundRow, ForgetsNoKey
    <3>2. SoundPeer(row.peers[i])
      BY <2>5 DEF SoundRow
    <3> HIDE DEF M
    <3> QED
      BY <3>1, <3>2, NormalAgain
  <2>6. DOMAIN N = DOMAIN row.peers
    OBVIOUS
  <2> HIDE DEF n, N, M
  <2>7. wireGuardRuntimeOptions(n) = wireGuardRuntimeOptions(row)
    BY <2>4, <2>5, <2>6 DEF wireGuardRuntimeOptions
  <2> QED
    BY <2>7 DEF n, again
<1> QED
  BY <1>1, <1>2, <1>3, PTL DEF Spec

=============================================================================
