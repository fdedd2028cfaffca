------------------------------ MODULE DncpNode ------------------------------
(***************************************************************************)
(* One DNCP instance and its world: the uloop timeout and the clock, the   *)
(* components that publish TLVs, endpoints going up and down, and messages *)
(* from peers (dncp_proto.c).                                              *)
(*                                                                         *)
(* A message is received TLV by TLV: ReceiveMessage starts it (dncp.c puts *)
(* the NODE_ENDPOINT TLV first in everything it sends), one action stands  *)
(* for each further TLV, FinishMessage is the end of handle_message.  No   *)
(* other action is enabled while a message is being handled, as            *)
(* handle_message runs to completion.  The peers are unconstrained: they   *)
(* may send any TLVs of RemoteStates in any order, old ones included,      *)
(* which is what loss, duplication and reordering of datagrams amount to   *)
(* for one receiver.                                                       *)
(***************************************************************************)
EXTENDS DncpTimeout

CONSTANTS
  OwnId,          \* the identifier dncp_init computes from the MAC addresses
  InitTLV,        \* published before the loop starts
  LocalTLV,       \* published and withdrawn by components while it runs
  Reactions,      \* what subscribers leave published after a callback
  RandomValues,   \* values of random()
  RemoteStates,   \* NODE_STATE TLVs peers may send
  Peers,          \* <<node, endpoint>> pairs peers may send from
  AcceptMulticast,\* accept_node_data_updates_via_multicast
  UpdateBump,     \* 1000 - 1, added to the update number on a collision
  StartTime,      \* the clock when the instance is created
  MaxTime,        \* bound: the clock stops here
  MaxLocal,       \* bound: changes of the local TLVs
  MaxEpChanges,   \* bound: endpoints going up or down
  MaxMessages,    \* bound: messages received
  MaxTlvs,        \* bound: TLVs of a message after the NODE_ENDPOINT one
  Lateness        \* how late uloop may run a due timeout

VARIABLES
  o,    \* the struct dncp_struct, the clock and the subscriber's view
  rx,   \* the local variables of handle_message
  left  \* how much of each bound is left

vars == <<o, rx, left>>

Env == [random : [Ep -> RandomValues],
        republish_cb : Reactions, change_cb : Reactions]

NodeState == [node : NodeId, update_number : 0 .. UpdateMod - 1, age : Nat,
              hash : Data, data : Data]

ASSUME NodeAssumption ==
  /\ OwnId \in NodeId
  /\ InitTLV \subseteq AppTLV
  /\ LocalTLV \subseteq AppTLV
  /\ Reactions \subseteq {NoData} \cup SUBSET AppTLV
  /\ NoData \in Reactions
  /\ RandomValues \subseteq Nat
  /\ RandomValues # {}
  /\ RemoteStates \subseteq NodeState
  /\ Peers \subseteq NodeId \X Ep
  /\ Ep # {}
  /\ AcceptMulticast \in BOOLEAN
  /\ UpdateBump \in Nat
  /\ StartTime \in Nat
  /\ 1 < StartTime
  /\ MaxTime \in Nat
  /\ MaxLocal \in Nat
  /\ MaxEpChanges \in Nat
  /\ MaxMessages \in Nat
  /\ MaxTlvs \in Nat
  /\ Lateness \in Nat

\* No message in progress.
Idle == [busy |-> FALSE, ep |-> CHOOSE e \in Ep : TRUE, multicast |-> FALSE,
         is_local |-> FALSE, ne |-> {}, should_request_network_state |-> FALSE,
         updated_or_requested_state |-> FALSE, reply |-> {}, count |-> 0]

Calm == [random |-> [e \in Ep |-> CHOOSE r \in RandomValues : TRUE],
         republish_cb |-> NoData, change_cb |-> NoData]

\* dncp_update_number_gt(a, b): b is newer than a, modulo 2^32
dncp_update_number_gt(a, b) == 2 * ((a - b) % UpdateMod) >= UpdateMod

\* dncp_init, then dncp_subscribe by a subscriber that keeps track of nodes
\* and of their TLVs.
Init ==
  /\ o = [time |-> StartTime, timer |-> StartTime, env |-> Calm,
          own_node |-> OwnId, known |-> {OwnId},
          node |-> [n \in NodeId |->
                      IF n = OwnId
                      THEN [BlankNode EXCEPT !.last_reachable_prune = 1]
                      ELSE BlankNode],
          tlvs |-> InitTLV, last_contact |-> [p \in PeerTLV |-> 0],
          tlvs_dirty |-> TRUE, republish_tlvs |-> FALSE, collided |-> FALSE,
          graph_dirty |-> TRUE, last_prune |-> 1, next_prune |-> 0,
          network_hash |-> {}, network_hash_dirty |-> TRUE,
          immediate_scheduled |-> TRUE,
          ep |-> [e \in Ep |->
                    [enabled |-> FALSE, last_req_network_state |-> 0,
                     send_reply_at |-> 0,
                     trickle |-> [i |-> 0, send_time |-> 0,
                                  interval_end_time |-> 0, c |-> 0,
                                  last_sent |-> 0]]],
          sub_nodes |-> {OwnId}, sub_tlvs |-> [n \in NodeId |-> {}]]
  /\ rx = Idle
  /\ left = [local |-> MaxLocal, ep |-> MaxEpChanges, message |-> MaxMessages]

\* own_node points into freed memory once the own node has been flushed, and
\* every handler dereferences it: the behaviour ends there.
Alive == o.own_node \in o.known

\* A handler starts from o with the world's answers e ...
With(e) == [o EXCEPT !.env = e]
\* ... and leaves no trace of them.
Done(o2) == o' = [o2 EXCEPT !.env = Calm]

Spend(b) == left[b] > 0 /\ left' = [left EXCEPT ![b] = @ - 1]

Ready == ~rx.busy /\ Alive

----------------------------------------------------------------------------
(* The loop, local components and endpoints.                               *)

Tick ==
  /\ Ready
  /\ o.time < MaxTime
  /\ o.timer = 0 \/ o.time < o.timer + Lateness
  /\ o' = [o EXCEPT !.time = @ + 1]
  /\ UNCHANGED <<rx, left>>

Timeout ==
  /\ Ready
  /\ o.timer # 0
  /\ o.timer <= o.time
  /\ \E e \in Env : Done(dncp_ext_timeout([With(e) EXCEPT !.timer = 0]))
  /\ UNCHANGED <<rx, left>>

AddTlv ==
  /\ Ready
  /\ \E t \in LocalTLV : Done(dncp_add_tlv(o, t))
  /\ Spend("local")
  /\ UNCHANGED rx

RemoveTlv ==
  /\ Ready
  /\ \E t \in LocalTLV \cap o.tlvs : Done(dncp_remove_tlvs(o, {t}))
  /\ Spend("local")
  /\ UNCHANGED rx

\* The end of hncp_io_set_ifname_enabled: the interface exists and its
\* multicast membership could be changed.  Otherwise DNCP does not hear of it.
EpReady ==
  /\ Ready
  /\ \E e \in Env, l \in Ep, enabled \in BOOLEAN :
       /\ o.ep[l].enabled # enabled
       /\ Done(dncp_ext_ep_ready(With(e), l, enabled))
  /\ Spend("ep")
  /\ UNCHANGED rx
----------------------------------------------------------------------------
(* handle_message.  ne is empty or holds the PEER TLV of the sender;       *)
(* reply is the set of TLVs pushed to the reply (_maybe_pop_tlv drops      *)
(* duplicates).                                                            *)

\* _push_node_state_tlv: node_data_hash goes out as it is.
node_state_tlv(o2, n, data) ==
  [type |-> "node_state", node |-> n,
   update_number |-> o2.node[n].update_number,
   hash |-> o2.node[n].node_data_hash, data |-> data]

network_state_tlv(o2) == [type |-> "net_state", hash |-> o2.network_hash]

\* The NODE_ENDPOINT case: _heard adds a peer only on unicast.  What
\* dncp_ext_readable filters out never gets here; of its filters only the one
\* on the state of the endpoint is modelled.
ReceiveMessage ==
  /\ Ready
  /\ Spend("message")
  /\ \E l \in Ep, multicast \in BOOLEAN, src \in Peers \cup ({o.own_node} \X Ep) :
       LET p == [node |-> src[1], ep |-> l, peer_ep |-> src[2]]
           is_local == src[1] = o.own_node
           found == p \in o.tlvs
           o1 == IF is_local \/ found \/ multicast THEN o ELSE dncp_add_tlv(o, p)
       IN /\ o.ep[l].enabled
          /\ o' = IF is_local \/ multicast THEN o1
                  ELSE [o1 EXCEPT !.last_contact[p] = o.time]
          /\ rx' = [Idle EXCEPT
               !.busy = TRUE, !.ep = l, !.multicast = multicast,
               !.is_local = is_local,
               !.ne = IF ~is_local /\ (found \/ ~multicast) THEN {p} ELSE {},
               !.should_request_network_state = ~is_local /\ multicast /\ ~found]

\* The next TLV of the message.
NextTlv == rx.busy /\ rx.count < MaxTlvs /\ UNCHANGED left

ReqNetState ==
  /\ NextTlv
  /\ ~rx.multicast
  /\ \E e \in Env :
       LET o1 == dncp_calculate_network_hash(With(e))
       IN /\ Done(o1)
          /\ rx' = [rx EXCEPT !.count = @ + 1,
               !.reply = @ \cup {network_state_tlv(o1)}
                           \cup {node_state_tlv(o1, n, NoData) : n \in Reachable(o1)}]

ReqNodeState ==
  /\ NextTlv
  /\ ~rx.multicast
  /\ \E e \in Env, n \in o.known :
       LET o1 == IF n = o.own_node THEN dncp_self_flush(With(e)) ELSE o
       IN /\ n = o.own_node \/ (~o.graph_dirty /\ n \in Reachable(o))
          /\ Done(o1)
          /\ rx' = [rx EXCEPT !.count = @ + 1,
               !.reply = @ \cup {node_state_tlv(o1, n, o1.node[n].tlv_container)}]

\* NET_STATE.  Only trickle.c < trickle_k is ever read of the counter, so it
\* counts no further than TrickleK.
NetState ==
  /\ NextTlv
  /\ \E consistent \in BOOLEAN :
       LET l == o.ep[rx.ep]
           allowed == o.time - l.last_req_network_state >= TrickleImin
       IN /\ o' = IF ~consistent THEN o
                  ELSE [o EXCEPT
                    !.ep[rx.ep].trickle.c = IF @ < TrickleK THEN @ + 1 ELSE @,
                    !.last_contact =
                      [p \in PeerTLV |-> IF p \in rx.ne THEN o.time ELSE @[p]]]
          /\ rx' = [rx EXCEPT !.count = @ + 1,
               !.should_request_network_state = @ \/ (~consistent /\ allowed)]


\* Republishing adds one more.
bump_update_number(own, received) == (received + UpdateBump) % UpdateMod

\* The own node's data from the network: the first time jump past it, then
\* let the profile change the node identifier.  handle_message returns, and
\* the reply put together so far is lost.
Collision(e, s) ==
  /\ \/ /\ ~o.collided
        /\ Done(dncp_schedule([o EXCEPT
             !.collided = TRUE, !.republish_tlvs = TRUE,
             !.node[o.own_node].update_number =
               bump_update_number(@, s.update_number)]))
     \/ /\ o.collided
        /\ \E n \in NodeId \ o.known : Done(dncp_set_own_node_id(With(e), n))
  /\ rx' = Idle

NodeStateTlv ==
  /\ NextTlv
  /\ \E e \in Env, s \in RemoteStates :
       LET n == s.node
           r == o.node[n]
           interesting ==
             \/ n \notin o.known
             \/ dncp_update_number_gt(r.update_number, s.update_number)
             \/ s.update_number = r.update_number /\ r.node_data_hash # s.hash
           has_data == /\ Tlvs(s.data) # {}
                       /\ rx.multicast => AcceptMulticast
           o1 == dncp_node_set(dncp_find_node_by_node_id(With(e), n), n,
                               s.update_number, o.time - s.age, s.data)
       IN /\ interesting
          /\ has_data => s.hash = DataHash(s.data)
          /\ \/ /\ has_data
                /\ n = o.own_node
                /\ Collision(e, s)
             \/ /\ has_data
                /\ n # o.own_node
                /\ Done([o1 EXCEPT !.node[n].node_data_hash = s.hash,
                                   !.node[n].node_data_hash_dirty = FALSE])
                /\ rx' = [rx EXCEPT !.count = @ + 1,
                                    !.updated_or_requested_state = TRUE]
             \/ /\ ~has_data
                /\ UNCHANGED o
                /\ rx' = [rx EXCEPT !.count = @ + 1,
                     !.updated_or_requested_state = TRUE,
                     !.reply = @ \cup {[type |-> "req_node_state", node |-> n]}]

\* After the last TLV: ask for the network state if it seems due, and send
\* the reply, or keep it for later if the message was a multicast.
FinishMessage ==
  /\ rx.busy
  /\ UNCHANGED left
  /\ \E e \in Env :
       LET l == o.ep[rx.ep]
           request == /\ rx.should_request_network_state
                      /\ ~rx.updated_or_requested_state
                      /\ ~rx.is_local
           o1 == IF request
                 THEN [dncp_calculate_network_hash(With(e)) EXCEPT
                         !.ep[rx.ep].last_req_network_state = o.time]
                 ELSE With(e)
           t == o.time + (e.random[rx.ep] % (TrickleImin \div 2))
           delayed == /\ rx.multicast
                      /\ request \/ rx.reply # {}
                      /\ l.send_reply_at = 0 \/ l.send_reply_at > t
       IN Done(IF delayed
               THEN dncp_schedule([o1 EXCEPT !.ep[rx.ep].send_reply_at = t])
               ELSE o1)
  /\ rx' = Idle

Next ==
  \/ Tick
  \/ Timeout
  \/ AddTlv
  \/ RemoveTlv
  \/ EpReady
  \/ ReceiveMessage
  \/ ReqNetState
  \/ ReqNodeState
  \/ NetState
  \/ NodeStateTlv
  \/ FinishMessage

Spec == Init /\ [][Next]_vars
----------------------------------------------------------------------------
(* Properties.                                                             *)

Instance ==
  [time : Nat, timer : Nat, env : {Calm}, own_node : NodeId, known : SUBSET NodeId,
   node : [NodeId -> NodeRecord], tlvs : SUBSET TLV, last_contact : [PeerTLV -> Nat],
   tlvs_dirty : BOOLEAN, republish_tlvs : BOOLEAN, collided : BOOLEAN,
   graph_dirty : BOOLEAN, last_prune : Nat, next_prune : Nat,
   network_hash : SUBSET (Nat \X ((0 .. UpdateMod - 1) \X Data)),
   network_hash_dirty : BOOLEAN, immediate_scheduled : BOOLEAN,
   ep : [Ep -> Endpoint],
   sub_nodes : SUBSET NodeId, sub_tlvs : [NodeId -> SUBSET TLV]]

ReplyTlv ==
  [type : {"node_state"}, node : NodeId, update_number : 0 .. UpdateMod - 1,
   hash : Data, data : Data]
  \cup [type : {"net_state"},
        hash : SUBSET (Nat \X ((0 .. UpdateMod - 1) \X Data))]
  \cup [type : {"req_node_state"}, node : NodeId]

Reception ==
  [busy : BOOLEAN, ep : Ep, multicast : BOOLEAN, is_local : BOOLEAN,
   ne : SUBSET PeerTLV, should_request_network_state : BOOLEAN,
   updated_or_requested_state : BOOLEAN, reply : SUBSET ReplyTlv, count : Nat]

\* Every field of struct dncp_struct and every local of handle_message keeps
\* its type, nodes that were freed leave nothing behind.
TypeOK ==
  /\ o \in Instance
  /\ rx \in Reception
  /\ left \in [{"local", "ep", "message"} -> Nat]
  /\ \A n \in NodeId \ o.known : o.node[n] = BlankNode

\* The hash over what the reachable nodes have now.
CurrentNetworkHash ==
  NetworkHash([n \in Reachable(o) |->
    <<o.node[n].update_number, DataHash(o.node[n].tlv_container)>>])

\* dncp_calculate_network_hash recomputes only when network_hash_dirty is set.
\* Between handlers a clean hash is the hash of the current state, whatever
\* changed data, update numbers or reachability; only the jump of the own
\* update number at a collision is not covered until it is republished.
NetworkHashCurrent ==
  Alive /\ ~o.network_hash_dirty /\ ~o.republish_tlvs
    => o.network_hash = CurrentNetworkHash

\* dncp_prune asserts now != last_prune (dncp_timeout.c:141).  A prune runs
\* when next_prune is due, so the next one must lie after the last one.
PruneMovesForward ==
  /\ o.last_prune <= o.time
  /\ o.next_prune # 0 => o.last_prune < o.next_prune

\* A subscriber that applies the tlv_change_cb notifications it gets holds,
\* for every node, the valid TLVs of the node if it is reachable and nothing
\* otherwise: no addition or removal is lost or repeated by dncp_node_set,
\* pruning, freeing or renumbering.
SubscriberTlvsExact ==
  \A n \in NodeId :
    o.sub_tlvs[n] = IF n \in Reachable(o) THEN Tlvs(o.node[n].tlv_container_valid)
                    ELSE {}

\* What the instance has to wake up for.
Deadlines ==
  {o.next_prune}
    \cup (UNION {LET l == o.ep[e]
                 IN {l.send_reply_at, l.trickle.send_time, l.trickle.interval_end_time,
                     l.trickle.last_sent + KeepaliveInterval}
                 : e \in {f \in Ep : o.ep[f].enabled}})
    \cup {PeerDeadline(o, p) : p \in o.tlvs \cap PeerTLV}

\* How much later than asked for _schedule_timeout may wake the instance.
Rounding == MinDelay - 1

\* There is one timeout for everything.  It is always armed, at most MaxDelay
\* ahead, and it is due or, but for the rounding of short delays, no later than
\* any deadline: not when Trickle is reset, a delayed reply replaced, a peer
\* heard, or its keep-alive interval changed by its node data.  A network hash
\* to recompute and own data to republish find it due.  That is not so of
\* tlvs_dirty and graph_dirty: what callbacks publish while a timeout flushes or
\* prunes, and the graph without a node that a prune dropped, wait for the next
\* wake-up (ChangesAreWoken is about those two).
TimerCoversDeadlines ==
  Alive =>
    /\ o.timer # 0
    /\ o.timer <= o.time + MaxDelay
    /\ o.timer <= o.time \/ \A d \in Deadlines \ {0} : o.timer <= d + Rounding
    /\ o.network_hash_dirty \/ o.republish_tlvs => o.timer <= o.time

Own == o.node[o.own_node]

\* What is published or known of each node.
Contents == [n \in o.known |-> o.node[n].tlv_container]

\* dncp_schedule does nothing while immediate_scheduled is set, and
\* dncp_ext_timeout sets it for its first half.  Still the suppression never
\* outlives that handler: whatever any other handler changes in the local TLVs
\* or in the data of a node (a component publishing, an endpoint going down, a
\* message, a request that flushes, with what subscribers publish from the
\* callbacks meanwhile), the timeout is due when it ends.  (Timeout and Tick are
\* the steps that leave rx and left alone.)
ChangesAreWoken ==
  [][/\ Alive'
     /\ <<rx, left>>' # <<rx, left>>
     /\ o'.tlvs # o.tlvs \/ Contents' # Contents
     => o'.timer <= o'.time]_vars

\* A receiver replaces what it has of a node only for a newer update number
\* (modulo 2^32).  So the own node's data never changes under the same number,
\* and the number moves forward, wrapping included, through timeouts, flushes on
\* request and forced republishing.  The jump on a collision is newer than data
\* the network has of the own node; it need not be newer than the number it
\* replaces, when the network's is almost half the range ahead.
PublishedAdvances ==
  [][o'.own_node = o.own_node /\ Alive' =>
       \/ Own' = [Own EXCEPT !.last_reachable_prune = Own'.last_reachable_prune,
                             !.node_data_hash = Own'.node_data_hash,
                             !.node_data_hash_dirty = Own'.node_data_hash_dirty]
       \/ /\ o'.collided = o.collided
          /\ dncp_update_number_gt(Own.update_number, Own'.update_number)
       \/ /\ o'.collided # o.collided
          /\ \E s \in RemoteStates :
               /\ s.node = o.own_node
               /\ ~dncp_update_number_gt(s.update_number, Own.update_number)
               /\ dncp_update_number_gt(s.update_number, Own'.update_number)]_vars

\* "How frequently (overriding Trickle) we MUST send something on the
\* endpoint" (dncp.h:188): however Trickle is reset or suppressed, an enabled
\* endpoint is never silent for longer than the keep-alive interval, and a
\* delayed reply, replaced by an earlier one or left from before the endpoint
\* was disabled, is not overdue unless the timeout is due.  (For a punctual
\* loop, and but for the rounding of short delays.)
KeepaliveKept ==
  Alive => \A e \in Ep : o.ep[e].enabled =>
    /\ o.time <= o.ep[e].trickle.last_sent + KeepaliveInterval + Rounding
    /\ o.time < o.timer /\ o.ep[e].send_reply_at # 0
         => o.time < o.ep[e].send_reply_at + Rounding

\* A peer the instance still publishes is on an endpoint that is enabled, and
\* has been heard of within the timeout its own published keep-alive interval
\* gives; when that interval has just become shorter, the timeout that will drop
\* it is due.  (For a punctual loop, and but for the rounding of short delays.)
PeersFresh ==
  Alive => \A p \in o.tlvs \cap PeerTLV :
    /\ o.ep[p.ep].enabled
    /\ o.time <= PeerDeadline(o, p) + Rounding \/ o.timer <= o.time

\* "Our own node (it should be constant, never purged)" (dncp_i.h:95), and
\* "we're always reachable" (dncp.c:262).
OwnNodeNeverPurged == Alive /\ o.own_node \in Reachable(o)

\* The own data is re-originated before the other nodes see it expire,
\* provided the loop is punctual (but for the rounding of short delays) and no
\* local TLV comes and goes meanwhile.
OwnDataFresh ==
  Alive /\ Own.origination_time # 0
    => o.time <= Own.origination_time + RollOverAge + Rounding

----------------------------------------------------------------------------
(* What comments and documentation say, where the code does otherwise.     *)

\* "This is called whenever a node is being added or removed within DNCP"
\* (dncp.h:130, node_change_cb): subscribers do not believe in a node that
\* is no longer there.
NodeRemovalReported == o.sub_nodes \subseteq o.known

\* "We're only interested about own node change.  That's same as router ID
\* changing" (hncp_pa.c:1579): subscribers are told of the own node.
OwnNodeReported == Alive => o.own_node \in o.sub_nodes

\* "broken hash compared to data in node state" (dncp_proto.c:503): node data
\* sent in a reply goes with the hash of that data, or the receiver drops it.
ReplyHashMatchesData ==
  \A t \in rx.reply :
    t.type = "node_state" /\ t.data # NoData => t.hash = DataHash(t.data)

\* "Stop publishing a TLV." (dncp.h:303): with no change pending, what was
\* removed is not published.
RemovedTlvNotPublished ==
  Alive /\ ~o.tlvs_dirty => Tlvs(Own.tlv_container) \subseteq o.tlvs

\* "How many keep-alive periods can be missed until peer is declared M.I.A.",
\* 21/10 (hncp.h:44).
PeerKeptLongEnough ==
  [][\A p \in o.tlvs \cap PeerTLV :
       p \notin o'.tlvs /\ o'.ep[p.ep].enabled =>
         (o.time - o.last_contact[p]) * MultiplierDen
           >= neighbor_interval(o', p) * MultiplierNum]_vars
=============================================================================
