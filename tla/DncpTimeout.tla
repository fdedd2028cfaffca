---------------------------- MODULE DncpTimeout ----------------------------
(***************************************************************************)
(* dncp_timeout.c: pruning the node graph, Trickle and keep-alives, and    *)
(* the one timeout handler that drives everything DNCP does by itself.     *)
(*                                                                         *)
(* Own endpoints are multicast datagram endpoints with the default         *)
(* keep-alive interval, the way hncp.c configures them: unicast_only and   *)
(* unicast_is_reliable_stream are never set under src/, and with the       *)
(* default interval ep_i_set_keepalive_interval changes nothing.  Other    *)
(* nodes may publish intervals of their own.                               *)
(***************************************************************************)
EXTENDS DncpState

CONSTANTS
  TrickleK,            \* trickle_k
  KeepaliveInterval,   \* keepalive_interval
  MultiplierNum,       \* HNCP_KEEPALIVE_MULTIPLIER is the token sequence
  MultiplierDen,       \*   MultiplierNum / MultiplierDen (21/10)
  MaxDelay,            \* 1 << 16: the longest the instance sleeps
  MinDelay             \* 10 ms: the shortest, unless it does not sleep at all

ASSUME TimeoutAssumption ==
  /\ TrickleK \in Nat
  /\ KeepaliveInterval \in Nat \ {0}
  /\ MultiplierNum \in Nat \ {0}
  /\ MultiplierDen \in Nat \ {0}
  /\ MaxDelay \in Nat
  /\ MinDelay \in Nat \ {0}
  /\ MinDelay <= MaxDelay

\* .keepalive_multiplier_percent = HNCP_KEEPALIVE_MULTIPLIER * 100 expands to
\* 21/10 * 100, an integer division first.
keepalive_multiplier_percent == (MultiplierNum \div MultiplierDen) * 100

\* _neighbor_interval of the peer behind the PEER TLV p.  The loop ends at the
\* first TLV for the peer's endpoint, else the last one for all endpoints
\* counts; TLVs are published in the order of their bytes.  A node that is not
\* known has no data.
neighbor_interval(o, p) ==
  LET published(ep) == {t.interval : t \in
        {k \in Tlvs(o.node[p.node].tlv_container) \cap KeepaliveTLV : k.ep = ep}}
  IN IF published(p.peer_ep) # {} THEN Min(published(p.peer_ep))
     ELSE IF published(0) # {} THEN Max(published(0)) ELSE KeepaliveInterval

\* When a peer is given up if nothing more is heard of it.
PeerDeadline(o, p) ==
  o.last_contact[p]
    + (neighbor_interval(o, p) * keepalive_multiplier_percent) \div 100

----------------------------------------------------------------------------
(* Pruning.                                                                *)

\* dncp_node_find_neigh_bidir, over all the PEER TLVs of n
BidirNeighbor(o, n, m) ==
  \E p \in Tlvs(o.node[n].tlv_container) \cap PeerTLV :
    /\ p.node = m
    /\ [node |-> n, ep |-> p.peer_ep, peer_ep |-> p.ep]
         \in Tlvs(o.node[m].tlv_container)

Expired(o, n) == o.time >= expiration_time(o.node[n])

\* _prune_rec from the own node: the least set that holds it and, with a
\* node, all its unexpired bidirectional neighbours.
Visited(o) ==
  IF Expired(o, o.own_node) THEN {}
  ELSE {n \in o.known :
         \A S \in SUBSET o.known :
           (/\ o.own_node \in S
            /\ \A k \in S, m \in o.known \ S :
                 ~BidirNeighbor(o, k, m) \/ Expired(o, m))
           => n \in S}

\* TMIN over a set of times, 0 standing for "none"
MinTime(S) == IF S \ {0} = {} THEN 0 ELSE Min(S \ {0})

\* Slip: a dropped node keeps its data.
PruneNodeKept(o, visited, dropped, n) ==
  IF n \in visited THEN [o.node[n] EXCEPT !.last_reachable_prune = o.time]
  ELSE o.node[n]

\* The node as dncp_prune leaves it: visited (and stamped), dropped (freed by
\* vlist_flush), or kept unreachable for the rest of its grace period.
PruneNode(o, visited, dropped, n) ==
  IF n \in visited THEN [o.node[n] EXCEPT !.last_reachable_prune = o.time]
  ELSE IF n \in dropped THEN BlankNode ELSE o.node[n]

\* Slip: a node that goes is not reported.
PruneTlvsAddedOnly(o, visited, dropped, n) ==
  IF n \in visited \ Reachable(o)
  THEN tlvs_changed(o.sub_tlvs[n], NoData, o.node[n].tlv_container_valid)
  ELSE o.sub_tlvs[n]

\* What tlv_change_cb has told of the node: _node_set_reachable reports all
\* its valid data when it comes or goes; freeing a reachable node withdraws
\* it through dncp_node_set(n, 0, 0, NULL), which does nothing if the update
\* number already is 0.
PruneTlvs(o, visited, dropped, n) ==
  LET r == o.node[n]
      was == n \in Reachable(o)
      withdrawn == tlvs_changed(o.sub_tlvs[n], r.tlv_container_valid, NoData)
  IN IF n \in visited
     THEN IF was THEN o.sub_tlvs[n]
          ELSE tlvs_changed(o.sub_tlvs[n], NoData, r.tlv_container_valid)
     ELSE IF ~was \/ (n \in dropped /\ r.update_number = 0)
          THEN o.sub_tlvs[n] ELSE withdrawn

\* Slip: the grace period is one longer here than in the next wake-up.
DroppableLate(o, visited) ==
  {n \in o.known \ visited :
     o.node[n].last_reachable_prune < o.time - GraceInterval - 1}

\* Unreachable for longer than the grace period.
Droppable(o, visited) ==
  {n \in o.known \ visited :
     o.node[n].last_reachable_prune < o.time - GraceInterval}

\* dncp_prune once _prune_rec has marked the visited nodes
Sweep(o, visited, dropped) ==
  LET kept == o.known \ (visited \cup dropped)
      up == visited \ Reachable(o)
      down == kept \cap Reachable(o)
  IN [o EXCEPT
       !.node = [n \in NodeId |-> PruneNode(o, visited, dropped, n)],
       !.known = @ \ dropped,
       !.sub_tlvs = [n \in NodeId |-> PruneTlvs(o, visited, dropped, n)],
       !.sub_nodes = (@ \cup up) \ down,
       !.next_prune = MinTime(
         {expiration_time(o.node[n]) : n \in visited}
           \cup {o.node[n].last_reachable_prune + GraceInterval + 1 : n \in kept}),
       !.network_hash_dirty = @ \/ up \cup down \cup dropped # {},
       !.graph_dirty = @ \/ dropped # {},
       !.last_prune = o.time]

\* Subscribers were called back if the prune told them anything.
ReactToPrune(o, pruned) ==
  IF \/ pruned.sub_tlvs # o.sub_tlvs
     \/ \E n \in o.known : (n \in Reachable(o)) # (n \in Reachable(pruned))
                          /\ n \in pruned.known
  THEN React(pruned, o.env.change_cb) ELSE pruned

dncp_prune(o) ==
  ReactToPrune(o, Sweep(o, Visited(o), Droppable(o, Visited(o))))

----------------------------------------------------------------------------
(* Trickle and keep-alives.  Sending itself is last_sent.                  *)

handle_trickle_and_ka(t, now, random) ==
  LET ka == t.last_sent + KeepaliveInterval <= now
      t1 == IF ka THEN trickle_set_i([t EXCEPT !.last_sent = now], now, t.i, random)
            ELSE t
  IN IF t1.interval_end_time <= now
     THEN trickle_set_i(t1, now, t1.i * 2, random)
     ELSE IF t1.send_time # 0 /\ t1.send_time <= now
     THEN [t1 EXCEPT !.last_sent = IF t1.c < TrickleK THEN now ELSE @,
                     !.send_time = 0]
     ELSE t1

\* One enabled endpoint in dncp_ext_timeout: a due delayed reply goes out,
\* then Trickle.
EpTimeout(o, e) ==
  LET l == o.ep[e] IN
  IF ~l.enabled THEN l
  ELSE [l EXCEPT
    !.send_reply_at = IF @ <= o.time THEN 0 ELSE @,
    !.trickle = handle_trickle_and_ka(@, o.time, o.env.random[e])]

\* The wake-up for the next keep-alive is set before Trickle may send, so it
\* counts from the last transmission before that or from a keep-alive just sent.
KeepaliveNext(t, now) ==
  KeepaliveInterval
    + IF t.last_sent + KeepaliveInterval <= now THEN now ELSE t.last_sent

\* Slip: no wake-up for the end of the Trickle interval.
EpNextNoInterval(l0, l, now) ==
  IF ~l.enabled THEN {}
  ELSE {l.send_reply_at, KeepaliveNext(l0.trickle, now), l.trickle.send_time}

\* Slip: no wake-up for the keep-alive.
EpNextNoKeepalive(l0, l, now) ==
  IF ~l.enabled THEN {}
  ELSE {l.send_reply_at, l.trickle.interval_end_time, l.trickle.send_time}

\* The times an endpoint asks to be woken at; EpTimeout made l of l0.
EpNext(l0, l, now) ==
  IF ~l.enabled THEN {}
  ELSE {l.send_reply_at, KeepaliveNext(l0.trickle, now),
        l.trickle.interval_end_time, l.trickle.send_time}

\* The stages of dncp_ext_timeout, in order.  First the own TLV roll-over,
\* looked at only when there is nothing else to publish.
Quiet(o) == ~o.tlvs_dirty /\ ~o.republish_tlvs

roll_over(o) == o.node[o.own_node].origination_time + RollOverAge

\* Slip: own data is never re-originated.
StartTimeoutNoRollOver(o) == [o EXCEPT !.immediate_scheduled = TRUE]

StartTimeout(o) ==
  [o EXCEPT !.immediate_scheduled = TRUE,
            !.republish_tlvs = @ \/ (Quiet(o) /\ roll_over(o) <= o.time)]

DuePrune(o) ==
  IF o.next_prune # 0 /\ o.next_prune <= o.time
  THEN dncp_prune([o EXCEPT !.graph_dirty = FALSE]) ELSE o

PruneStage(o) ==
  DuePrune([o EXCEPT !.next_prune = IF o.graph_dirty
                                    THEN MinPruneInterval + o.last_prune ELSE @])

\* Slip: immediate_scheduled is not cleared.
HashStageFlagKept(o) == dncp_calculate_network_hash(o)

HashStage(o) ==
  dncp_calculate_network_hash([o EXCEPT !.immediate_scheduled = FALSE])

EpStage(o) == [o EXCEPT !.ep = [e \in Ep |-> EpTimeout(o, e)]]

\* Peers not heard of for too long are dropped.
PeerStage(o) ==
  dncp_remove_tlvs(o, {p \in o.tlvs \cap PeerTLV :
                         PeerDeadline(o, p) <= o.time})

\* Slips: no wake-up for peers, or for the roll-over of own data.
PeerTimesNone(o) == {}
RollOverTimesNone(o0, now) == {}

\* When the endpoints, the peers and the roll-over need the next wake-up.
EpTimes(o1, o) == UNION {EpNext(o1.ep[e], o.ep[e], o.time) : e \in Ep}
PeerTimes(o) == {PeerDeadline(o, p) : p \in o.tlvs \cap PeerTLV}
RollOverTimes(o0, now) ==
  IF Quiet(o0) /\ roll_over(o0) > now THEN {roll_over(o0)} ELSE {}

\* What SET_NEXT collects (as compiled at the default log level): o0 is the
\* instance at the start, o1 before the endpoints are looked at, o at the end.
NextTime(o0, o1, o) ==
  MinTime(RollOverTimes(o0, o.time) \cup {o.next_prune} \cup EpTimes(o1, o)
            \cup PeerTimes(o))

Delta(delta) == IF delta < 0 THEN 0 ELSE IF delta > MaxDelay THEN MaxDelay ELSE delta

\* _schedule_timeout waits MinDelay or more if it waits at all.
schedule_timeout(msecs) == IF 0 < msecs /\ msecs < MinDelay THEN MinDelay ELSE msecs

Rearm(o, next) ==
  IF next # 0 /\ ~o.immediate_scheduled
  THEN [o EXCEPT !.timer = o.time + schedule_timeout(Delta(next - o.time))] ELSE o

FinishTimeout(o0, o1, o) == Rearm(o, NextTime(o0, o1, o))

dncp_ext_timeout(o) ==
  LET o1 == HashStage(PruneStage(dncp_self_flush(StartTimeout(o))))
  IN FinishTimeout(o, o1, PeerStage(EpStage(o1)))

\* Slip: the peers of a disabled endpoint stay published.
EpReadyPeersKept(o, e, enabled) ==
  IF o.ep[e].enabled = enabled THEN o
  ELSE dncp_schedule([o EXCEPT
         !.ep[e].enabled = enabled,
         !.ep[e].trickle = trickle_set_i([@ EXCEPT !.last_sent = o.time],
                                         o.time, TrickleImin, o.env.random[e])])

\* dncp_ext_ep_ready
dncp_ext_ep_ready(o, e, enabled) ==
  LET l == o.ep[e] IN
  IF l.enabled = enabled THEN o
  ELSE IF enabled
  THEN dncp_schedule([o EXCEPT
         !.ep[e].enabled = TRUE,
         !.ep[e].trickle = trickle_set_i([l.trickle EXCEPT !.last_sent = o.time],
                                         o.time, TrickleImin, o.env.random[e])])
  ELSE dncp_remove_tlvs([o EXCEPT !.ep[e].enabled = FALSE],
                        {p \in PeerTLV : p.ep = e})
=============================================================================
