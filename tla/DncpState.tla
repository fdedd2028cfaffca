----------------------------- MODULE DncpState -----------------------------
(***************************************************************************)
(* The state of one DNCP instance (struct dncp_struct, dncp_i.h) and the   *)
(* operations of dncp.c on it.                                             *)
(*                                                                         *)
(* hnetd is single threaded: uloop runs one handler to completion before   *)
(* the next.  A C function that mutates the instance is therefore an       *)
(* operator from an instance record to an instance record, and a handler   *)
(* is their composition in source order.  Fields, functions and constants  *)
(* keep their C names.                                                     *)
(*                                                                         *)
(* Abstractions.  Node data (tlv_container) is a set of TLVs; NoData is    *)
(* the NULL pointer.  Hashes are injective: the hash of node data is the   *)
(* set itself.  The heap never runs out.  The answers of the world to a    *)
(* handler (random(), what a subscriber publishes when it is called back)  *)
(* are chosen before the handler runs and kept in the field env.           *)
(***************************************************************************)
EXTENDS Integers, FiniteSets, FiniteSetsExt

CONSTANTS
  NodeId,          \* node identifiers, ordered as memcmp orders them
  Ep,              \* endpoint identifiers; every node numbers its own
  AppTLV,          \* what the profile's components may publish
  VersionTLV,      \* the HNCP version TLV, one of AppTLV
  NoData,          \* the NULL tlv_attr pointer
  PeerInterval,    \* keep-alive intervals other nodes may publish
  UpdateMod,       \* 2^32: update numbers and intervals are uint32_t
  GraceInterval,   \* grace_interval
  MinPruneInterval,\* minimum_prune_interval
  RollOverAge,     \* 2^32 - 2^16 ms: when own data is re-originated
  ExpirationAge,   \* 2^32 - 2^15 ms: when node data expires
  TrickleImin,     \* trickle_imin
  TrickleImax      \* trickle_imax

ASSUME ConstAssumption ==
  /\ NodeId \subseteq Nat
  /\ IsFiniteSet(NodeId)
  /\ 0 \notin Ep
  /\ VersionTLV \in AppTLV
  /\ UpdateMod \in Nat
  /\ 2 <= UpdateMod
  /\ PeerInterval \subseteq 0 .. UpdateMod - 1
  /\ GraceInterval \in Nat
  /\ MinPruneInterval \in Nat \ {0}
  /\ RollOverAge \in Nat
  /\ ExpirationAge \in Nat \ {0}
  /\ RollOverAge < ExpirationAge
  /\ TrickleImin \in Nat
  /\ TrickleImax \in Nat
  /\ 2 <= TrickleImin
  /\ TrickleImin <= TrickleImax

\* A DNCP_T_PEER TLV: "my endpoint ep hears endpoint peer_ep of node".
PeerTLV == [node : NodeId, ep : Ep, peer_ep : Ep]
\* A DNCP_T_KEEPALIVE_INTERVAL TLV, for all endpoints of its node if ep is 0.
KeepaliveTLV == [ep : {0} \cup Ep, interval : PeerInterval]
TLV == PeerTLV \cup KeepaliveTLV \cup AppTLV
Data == {NoData} \cup SUBSET TLV

ASSUME DataAssumption == /\ \A a \in SUBSET TLV : a # NoData
                         /\ AppTLV \cap PeerTLV = {}

Tlvs(a) == IF a = NoData THEN {} ELSE a

\* ext->cb.hash over node data; NULL hashes as zero bytes, like empty data.
DataHash(a) == Tlvs(a)

\* struct dncp_trickle_struct, dncp_ep_i_struct and dncp_node_struct; the
\* counters num_sent and num_skipped are left out.
Trickle == [i : Nat, send_time : Nat, interval_end_time : Nat, c : Nat,
            last_sent : Nat]

Endpoint == [enabled : BOOLEAN, last_req_network_state : Nat,
             send_reply_at : Nat, trickle : Trickle]

NodeRecord == [update_number : 0 .. UpdateMod - 1, last_reachable_prune : Int,
               node_data_hash : Data, node_data_hash_dirty : BOOLEAN,
               origination_time : Int,
               tlv_container : Data, tlv_container_valid : Data]

\* A freshly calloc'ed struct dncp_node_struct.
BlankNode == [update_number |-> 0, last_reachable_prune |-> 0,
              node_data_hash |-> NoData, node_data_hash_dirty |-> TRUE,
              origination_time |-> 0,
              tlv_container |-> NoData, tlv_container_valid |-> NoData]

\* origination_time and expiration_time are only ever assigned together.
expiration_time(r) ==
  IF r.origination_time = 0 THEN 0 ELSE r.origination_time + ExpirationAge

----------------------------------------------------------------------------
(* Wake-ups and local TLVs.                                                *)

\* timer is when the one uloop timeout of the instance is due, 0 if unarmed.
dncp_schedule(o) ==
  IF o.immediate_scheduled THEN o
  ELSE [o EXCEPT !.timer = o.time, !.immediate_scheduled = TRUE]

\* Slip: nobody is woken.
UpdateTlvUnscheduled(o, tlvs) == [o EXCEPT !.tlvs = tlvs, !.tlvs_dirty = TRUE]

\* update_tlv: any vlist_add or vlist_delete on o->tlvs ends here.
update_tlv(o, tlvs) ==
  dncp_schedule([o EXCEPT !.tlvs = tlvs, !.tlvs_dirty = TRUE])

dncp_add_tlv(o, t) == update_tlv(o, o.tlvs \cup {t})

\* Removing frees the TLV and the dncp_peer kept behind a PEER TLV.
dncp_remove_tlvs(o, ts) ==
  IF ts \cap o.tlvs = {} THEN o
  ELSE update_tlv([o EXCEPT !.last_contact =
                     [p \in PeerTLV |-> IF p \in ts THEN 0 ELSE @[p]]],
                  o.tlvs \ ts)

\* A subscriber called back may add and remove TLVs of its own (hncp_sd,
\* hncp_pa and dncp_trust do); r is the set it leaves, NoData if it does
\* nothing.  PEER TLVs are DNCP's own.
React(o, r) ==
  IF r = NoData THEN o ELSE update_tlv(o, (o.tlvs \cap PeerTLV) \cup r)

----------------------------------------------------------------------------
(* Nodes.                                                                  *)

Reachable(o) ==
  {n \in o.known : o.node[n].last_reachable_prune = o.last_prune}

\* hncp_validate_node_data: once the own node has published the version TLV,
\* data of another node without it is not used.
validate_node_data(o, n, a) ==
  IF /\ n # o.own_node
     /\ VersionTLV \in Tlvs(o.node[o.own_node].tlv_container)
     /\ VersionTLV \notin Tlvs(a)
  THEN NoData ELSE a

\* Slip: removals are not reported.
tlvs_only_added(seen, old, new) == seen \cup (Tlvs(new) \ Tlvs(old))

\* dncp_notify_subscribers_tlvs_changed: remove the missing, add the new.
tlvs_changed(seen, old, new) ==
  (seen \ (Tlvs(old) \ Tlvs(new))) \cup (Tlvs(new) \ Tlvs(old))

dncp_node_set(o, n, update_number, t, a) ==
  LET r == o.node[n]
      replaced == a # r.tlv_container
      a_valid == IF ~replaced THEN r.tlv_container_valid
                 ELSE validate_node_data(o, n, a)
      heard == replaced /\ r.last_reachable_prune = o.last_prune
      told == IF heard /\ Tlvs(a_valid) # Tlvs(r.tlv_container_valid)
              THEN React([o EXCEPT !.sub_tlvs[n] =
                            tlvs_changed(@, r.tlv_container_valid, a_valid)],
                         o.env.change_cb)
              ELSE o
      r2 == [r EXCEPT !.update_number = update_number,
                      !.origination_time = IF t # 0 THEN t ELSE @,
                      !.tlv_container = a,
                      !.tlv_container_valid = a_valid,
                      !.node_data_hash_dirty = @ \/ replaced]
  IN IF update_number = r.update_number /\ (a = NoData \/ ~replaced)
     THEN o
     ELSE dncp_schedule([told EXCEPT !.node[n] = r2,
                                     !.graph_dirty = @ \/ replaced,
                                     !.network_hash_dirty = TRUE])

\* update_node with a new node: unreachable until a prune reaches it.
AddNode(o, n) ==
  dncp_schedule([o EXCEPT
    !.known = @ \cup {n},
    !.node[n] = [BlankNode EXCEPT !.last_reachable_prune = o.last_prune - 1],
    !.network_hash_dirty = TRUE, !.graph_dirty = TRUE])

\* Slip: the node is freed without withdrawing its data.
FreeNodeSilently(o, n) ==
  dncp_schedule([o EXCEPT !.known = @ \ {n}, !.node[n] = BlankNode,
                          !.network_hash_dirty = TRUE, !.graph_dirty = TRUE])

\* update_node with an old node: its data is withdrawn, then it is freed.
FreeNode(o, n) ==
  dncp_schedule([dncp_node_set(o, n, 0, 0, NoData) EXCEPT
    !.known = @ \ {n}, !.node[n] = BlankNode,
    !.network_hash_dirty = TRUE, !.graph_dirty = TRUE])

dncp_find_node_by_node_id(o, n) == IF n \in o.known THEN o ELSE AddNode(o, n)

\* The identifier is fresh: a random one that names a known node is left out.
dncp_set_own_node_id(o, n) ==
  dncp_schedule([AddNode(FreeNode(o, o.own_node), n) EXCEPT
    !.own_node = n, !.tlvs_dirty = TRUE,
    !.node[n].last_reachable_prune = o.last_prune])
----------------------------------------------------------------------------
(* Publishing the own node and the network hash.                           *)

\* produce_new_tlvs: the local TLVs, or NoData when there is nothing new.
\* (Its other effect, clearing tlvs_dirty, is in dncp_self_flush.)
produce_new_tlvs(o) ==
  IF o.tlvs_dirty /\ o.tlvs # o.node[o.own_node].tlv_container
  THEN o.tlvs ELSE NoData

\* Slip: new data goes out under the old update number.
same_update_number(r) == r.update_number

next_update_number(r) == (r.update_number + 1) % UpdateMod

dncp_self_flush(o) ==
  LET a == produce_new_tlvs(o)
      clean == [o EXCEPT !.tlvs_dirty = FALSE]
      told == React(clean, o.env.republish_cb)
      a2 == produce_new_tlvs(told)
      own == o.node[o.own_node]
  IN IF a = NoData /\ ~o.republish_tlvs THEN clean
     ELSE dncp_node_set([told EXCEPT !.republish_tlvs = FALSE,
                                     !.tlvs_dirty = FALSE],
                        o.own_node, next_update_number(own), o.time,
                        IF a2 # NoData THEN a2
                        ELSE IF a # NoData THEN a ELSE own.tlv_container)

\* trickle_set_i; random is env's answer to random().
trickle_set_i(t, now, i, random) ==
  LET j == IF i < TrickleImin THEN TrickleImin
           ELSE IF i > TrickleImax THEN TrickleImax ELSE i
  IN [t EXCEPT !.i = j,
               !.send_time = now + (j \div 2) + (random % (j \div 2)),
               !.interval_end_time = now + j,
               !.c = 0]

dncp_trickle_reset(o) ==
  [o EXCEPT !.ep = [e \in Ep |->
     [o.ep[e] EXCEPT !.trickle =
        trickle_set_i(@, o.time, TrickleImin, o.env.random[e])]]]

\* The bytes hashed are (update number, data hash) of the reachable nodes in
\* identifier order; the identifiers are not among them.  A pair carries its
\* position in that order.
NetworkHash(f) ==
  {<<Cardinality({m \in DOMAIN f : m < n}), f[n]>> : n \in DOMAIN f}

\* Slip: the dirty flag is not looked at.
NodeDataHashStale(r) == r.node_data_hash

\* dncp_calculate_node_data_hash
NodeDataHash(r) == IF r.node_data_hash_dirty THEN DataHash(r.tlv_container)
                   ELSE r.node_data_hash

dncp_calculate_network_hash(o) ==
  LET h == NetworkHash([n \in Reachable(o) |->
             <<o.node[n].update_number, NodeDataHash(o.node[n])>>])
      o2 == [o EXCEPT
        !.node = [n \in NodeId |->
                    IF n \in Reachable(o)
                    THEN [@[n] EXCEPT !.node_data_hash = NodeDataHash(o.node[n]),
                                      !.node_data_hash_dirty = FALSE]
                    ELSE @[n]],
        !.network_hash = h, !.network_hash_dirty = FALSE]
  IN IF ~o.network_hash_dirty THEN o
     ELSE IF h # o.network_hash THEN dncp_trickle_reset(o2) ELSE o2
=============================================================================
