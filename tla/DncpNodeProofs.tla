--------------------------- MODULE DncpNodeProofs ---------------------------
(***************************************************************************)
(* The theorems about DncpNode, for every value of its constants: types,   *)
(* the order of prunes, and the network hash. The inductive invariant IInv *)
(* is Core of the instance (DncpStateProofs) with the types of the other   *)
(* variables; there is one lemma per action.                               *)
(***************************************************************************)
EXTENDS DncpNode, DncpTimeoutProofs
----------------------------------------------------------------------------
(* The specification.                                                      *)

\* The inductive invariant.  While a message is handled the own node exists:
\* only a prune can free it.
IInv ==
  /\ Core(o)
  /\ o.env = Calm
  /\ rx \in Reception
  /\ left \in [{"local", "ep", "message"} -> Nat]
  /\ rx.busy => Alive

\* The answers of the world are typed, between handlers ...
LEMMA CalmType == Calm \in AnyEnv
<1>1. (CHOOSE r \in RandomValues : TRUE) \in Nat BY NodeAssumption, ZenonT(40)
<1> QED BY <1>1, ZenonT(40) DEF Calm, AnyEnv, AnyReply

\* ... and during them.
LEMMA EnvType == Env \in SUBSET AnyEnv
BY NodeAssumption, ZenonT(40) DEF Env, AnyEnv, AnyReply

\* The locals of handle_message are typed when there is no message.
LEMMA IdleType == Idle \in Reception /\ ~Idle.busy
<1>1. (CHOOSE e \in Ep : TRUE) \in Ep BY NodeAssumption
<1> QED BY <1>1 DEF Idle, Reception

\* A handler starts from an instance with Core ...
LEMMA WithCore ==
  ASSUME Core(o), NEW e \in Env
  PROVE  Core(With(e)) /\ With(e) \in Typed /\ Same(o, With(e))
<1>1. o \in Typed /\ e \in AnyEnv BY EnvType DEF Core
<1>2. With(e) \in Typed /\ Same(o, With(e)) BY <1>1 DEF With, Typed, Same
<1> QED BY <1>2, SameKeepsCore

\* ... and what it leaves becomes the state.
LEMMA DoneCore ==
  ASSUME NEW y, Core(y), Done(y)
  PROVE  Core(o') /\ o'.env = Calm /\ o'.own_node = y.own_node /\ o'.known = y.known
<1>1. y \in Typed BY DEF Core
<1>2. o' \in Typed /\ Same(y, o') /\ o'.env = Calm
  BY <1>1, CalmType DEF Done, Typed, Same
<1> QED BY <1>2, SameKeepsCore DEF Same

\* The initial state.
LEMMA InitInv == ASSUME Init PROVE IInv
<1> DEFINE r == [BlankNode EXCEPT !.last_reachable_prune = 1]
<1>1. r \in NodeRecord BY BlankType DEF NodeRecord
<1>2. r.last_reachable_prune = 1 /\ r.node_data_hash_dirty BY DEF BlankNode
<1> HIDE DEF r
<1>3. o.node = [n \in NodeId |-> IF n = OwnId THEN r ELSE BlankNode] BY Zenon DEF Init, r
<1>4. /\ o.known = {OwnId} /\ o.own_node = OwnId /\ o.time = StartTime /\ o.last_prune = 1
      /\ o.next_prune = 0 /\ o.network_hash_dirty /\ o.env = Calm
  BY DEF Init
<1>5. o \in Typed
  <2> DEFINE ns == o.node
             es == o.ep
  <2>1. ns \in [NodeId -> NodeRecord] BY <1>1, <1>3, BlankType
  <2>2. InitTLV \in SUBSET TLV BY NodeAssumption DEF TLV
  <2>3. es \in [Ep -> Endpoint] BY DEF Init, Endpoint, Trickle
  <2>4. {} \in HashSet BY DEF HashSet
  <2>5. StartTime \in Nat /\ OwnId \in NodeId BY NodeAssumption
  <2>6. o = [time |-> StartTime, timer |-> StartTime, env |-> Calm,
             own_node |-> OwnId, known |-> {OwnId}, node |-> ns,
             tlvs |-> InitTLV, last_contact |-> [p \in PeerTLV |-> 0],
             tlvs_dirty |-> TRUE, republish_tlvs |-> FALSE, collided |-> FALSE,
             graph_dirty |-> TRUE, last_prune |-> 1, next_prune |-> 0,
             network_hash |-> {}, network_hash_dirty |-> TRUE,
             immediate_scheduled |-> TRUE, ep |-> es,
             sub_nodes |-> {OwnId}, sub_tlvs |-> [n \in NodeId |-> {}]]
    BY DEF Init
  <2> HIDE DEF ns, es
  <2> QED BY <2>1, <2>2, <2>3, <2>4, <2>5, <2>6, CalmType DEF Typed
<1>6. FreedBlank(o) BY <1>3, <1>4 DEF FreedBlank
<1>7. HashesExact(o) BY <1>2, <1>3, <1>4, NodeAssumption DEF HashesExact
<1>8. ClockOrder(o) BY <1>2, <1>3, <1>4, NodeAssumption DEF ClockOrder
<1>9. HashCurrent(o) BY <1>4 DEF HashCurrent
<1>10. rx \in Reception /\ ~rx.busy BY IdleType DEF Init
<1>11. left \in [{"local", "ep", "message"} -> Nat] BY NodeAssumption DEF Init
<1> QED BY <1>4, <1>5, <1>6, <1>7, <1>8, <1>9, <1>10, <1>11 DEF Core, IInv

\* One lemma per action.  The clock moves: a later time keeps the order.
LEMMA TickInv == ASSUME IInv, Tick PROVE IInv'
<1>1. o \in Typed BY DEF IInv, Core
<1>2. /\ o' \in Typed /\ o'.time = o.time + 1 /\ o'.env = o.env
      /\ o'.known = o.known /\ o'.node = o.node /\ o'.own_node = o.own_node
      /\ o'.republish_tlvs = o.republish_tlvs /\ o'.last_prune = o.last_prune
      /\ o'.next_prune = o.next_prune /\ o'.network_hash = o.network_hash
      /\ o'.network_hash_dirty = o.network_hash_dirty
  BY <1>1 DEF Tick, Typed
<1>3. FreedBlank(o)' /\ HashesExact(o)'
  BY <1>2 DEF IInv, Core, FreedBlank, HashesExact
<1>4. ClockOrder(o)' BY <1>1, <1>2 DEF IInv, Core, ClockOrder, Typed
<1>5. Reachable(o') = Reachable(o) BY <1>2 DEF Reachable
<1>6. HashedPairs(o') = HashedPairs(o) BY <1>2, <1>5 DEF HashedPairs
<1>7. HashCurrent(o)' BY <1>2, <1>6 DEF IInv, Core, HashCurrent
<1>8. Core(o)' BY <1>2, <1>3, <1>4, <1>7 DEF Core
<1> QED BY <1>2, <1>8 DEF IInv, Tick, Alive

\* A handler of the loop that keeps Core keeps the invariant.
LEMMA BetweenMessages ==
  ASSUME IInv, NEW y, Core(y), Done(y), Ready, rx' = rx,
         left' = left \/ \E b \in {"local", "ep", "message"} : Spend(b)
  PROVE  IInv'
<1>1. Core(o') /\ o'.env = Calm BY DoneCore
<1>2. left' \in [{"local", "ep", "message"} -> Nat]
  <2>1. CASE left' = left BY <2>1 DEF IInv
  <2>2. CASE \E b \in {"local", "ep", "message"} : Spend(b) BY <2>2 DEF IInv, Spend
  <2> QED BY <2>1, <2>2
<1> QED BY <1>1, <1>2 DEF IInv, Ready

\* The uloop timeout.
LEMMA TimeoutInv == ASSUME IInv, Timeout PROVE IInv'
<1>1. PICK e \in Env : Done(dncp_ext_timeout([With(e) EXCEPT !.timer = 0]))
  BY DEF Timeout
<1> DEFINE x == [With(e) EXCEPT !.timer = 0]
<1>2. Core(With(e)) /\ With(e) \in Typed /\ Same(o, With(e)) BY WithCore DEF IInv
<1>3. x \in Typed /\ Same(With(e), x) BY <1>2 DEF Typed, Same
<1> HIDE DEF x
<1>4. Core(x) BY <1>2, <1>3, SameKeepsCore
<1>5. x.own_node \in x.known BY <1>2, <1>3 DEF Timeout, Ready, Alive, Same
<1>6. Core(dncp_ext_timeout(x)) BY <1>4, <1>5, TimeoutCore
<1>7. Done(dncp_ext_timeout(x)) BY <1>1 DEF x
<1> QED BY <1>6, <1>7, BetweenMessages DEF Timeout

\* A component publishes a TLV.
LEMMA AddTlvInv == ASSUME IInv, AddTlv PROVE IInv'
<1>1. PICK t \in LocalTLV : Done(dncp_add_tlv(o, t)) BY DEF AddTlv
<1>2. t \in TLV /\ o \in Typed BY NodeAssumption DEF TLV, IInv, Core
<1>3. Core(dncp_add_tlv(o, t)) BY <1>2, AddTlvSame, SameKeepsCore DEF IInv
<1> QED BY <1>1, <1>3, BetweenMessages DEF AddTlv

\* A component withdraws a TLV.
LEMMA RemoveTlvInv == ASSUME IInv, RemoveTlv PROVE IInv'
<1>1. PICK t \in LocalTLV \cap o.tlvs : Done(dncp_remove_tlvs(o, {t})) BY DEF RemoveTlv
<1>2. o \in Typed BY DEF IInv, Core
<1>3. Core(dncp_remove_tlvs(o, {t})) BY <1>2, RemoveTlvsSame, SameKeepsCore DEF IInv
<1> QED BY <1>1, <1>3, BetweenMessages DEF RemoveTlv

\* An endpoint goes up or down.
LEMMA EpReadyInv == ASSUME IInv, EpReady PROVE IInv'
<1>1. PICK e \in Env, l \in Ep, enabled \in BOOLEAN :
        Done(dncp_ext_ep_ready(With(e), l, enabled))
  BY DEF EpReady
<1>2. Core(With(e)) /\ With(e) \in Typed BY WithCore DEF IInv
<1>3. Core(dncp_ext_ep_ready(With(e), l, enabled))
  BY <1>2, EpReadySame, SameKeepsCore
<1> QED BY <1>1, <1>3, BetweenMessages DEF EpReady

\* A step of handle_message that keeps Core and the own node keeps the invariant.
LEMMA DuringMessage ==
  ASSUME IInv, NEW y, Core(y), y.own_node \in y.known, Done(y),
         rx' \in Reception, left' = left
  PROVE  IInv'
<1>1. Core(o') /\ o'.env = Calm /\ o'.own_node = y.own_node /\ o'.known = y.known
  BY DoneCore
<1> QED BY <1>1 DEF IInv, Alive

\* What a NODE_ENDPOINT TLV and the receiving endpoint make is a PEER TLV.
LEMMA PairIsPeerTLV ==
  ASSUME NEW n \in NodeId, NEW e \in Ep, NEW f \in Ep
  PROVE  [node |-> n, ep |-> e, peer_ep |-> f] \in PeerTLV
BY DEF PeerTLV

\* A message arrives.
LEMMA ReceiveInv == ASSUME IInv, ReceiveMessage PROVE IInv'
<1>1. PICK l \in Ep, multicast \in BOOLEAN, src \in Peers \cup ({o.own_node} \X Ep) :
       LET p == [node |-> src[1], ep |-> l, peer_ep |-> src[2]]
           is_local == src[1] = o.own_node
           found == p \in o.tlvs
           o1 == IF is_local \/ found \/ multicast THEN o ELSE dncp_add_tlv(o, p)
       IN /\ o.ep[l].enabled
          /\ o' = IF is_local \/ multicast THEN o1
                  ELSE [o1 EXCEPT !.last_contact[p] = o.time]
          /\ rx' = [Idle EXCEPT
               !.busy = TRUE, !.ep = l, !.multicast = multicast,
               !.is_local = is_local,
               !.ne = IF ~is_local /\ (found \/ ~multicast) THEN {p} ELSE {},
               !.should_request_network_state = ~is_local /\ multicast /\ ~found]
  BY ZenonT(40) DEF ReceiveMessage
<1> DEFINE p == [node |-> src[1], ep |-> l, peer_ep |-> src[2]]
           is_local == src[1] = o.own_node
           found == p \in o.tlvs
           o1 == IF is_local \/ found \/ multicast THEN o ELSE dncp_add_tlv(o, p)
           o2 == [o1 EXCEPT !.last_contact[p] = o.time]
<1>2. o \in Typed BY DEF IInv, Core
<1>3. src[1] \in NodeId /\ src[2] \in Ep BY <1>2, NodeAssumption DEF Typed
<1>4. p \in PeerTLV /\ p \in TLV BY <1>3, PairIsPeerTLV DEF TLV
<1> HIDE DEF p
<1>5. o1 \in Typed /\ Same(o, o1) /\ o1.env = o.env
  <2>1. dncp_add_tlv(o, p).env = o.env
    BY <1>2, <1>4 DEF dncp_add_tlv, update_tlv, dncp_schedule, Typed
  <2> QED BY <1>2, <1>4, <2>1, AddTlvSame, SameIsReflexive
<1> HIDE DEF o1
<1>6. o2 \in Typed /\ Same(o, o2) /\ o2.env = o.env
  <2>1. o.time \in Nat BY <1>2 DEF Typed
  <2>2. o2 \in Typed /\ Same(o1, o2) /\ o2.env = o1.env BY <1>4, <1>5, <2>1 DEF Typed, Same
  <2> QED BY <1>5, <2>2, SameIsTransitive
<1>7. o' = IF is_local \/ multicast THEN o1 ELSE o2 BY <1>1 DEF o1, p
<1> HIDE DEF o2
<1>8. Core(o') /\ Same(o, o') /\ o'.env = Calm
  BY <1>5, <1>6, <1>7, SameKeepsCore DEF IInv
<1>9. rx' \in Reception
  <2> DEFINE b1 == is_local
             b2 == ~is_local /\ multicast /\ ~found
             ne == IF ~is_local /\ (found \/ ~multicast) THEN {p} ELSE {}
  <2>1. b1 \in BOOLEAN /\ b2 \in BOOLEAN /\ ne \in SUBSET PeerTLV BY <1>4
  <2>2. rx' = [Idle EXCEPT !.busy = TRUE, !.ep = l, !.multicast = multicast,
                 !.is_local = b1, !.ne = ne, !.should_request_network_state = b2]
    BY <1>1, Zenon DEF p
  <2> HIDE DEF b1, b2, ne
  <2> QED BY <2>1, <2>2, IdleType, ZenonT(40) DEF Reception
<1>10. left' \in [{"local", "ep", "message"} -> Nat] BY DEF ReceiveMessage, Spend, IInv
<1>11. Alive' BY <1>8 DEF ReceiveMessage, Ready, Alive, Same
<1> QED BY <1>8, <1>9, <1>10, <1>11 DEF IInv

\* The TLVs of a reply are typed.
LEMMA ReplyTypes ==
  ASSUME NEW x \in Typed
  PROVE  /\ network_state_tlv(x) \in ReplyTlv
         /\ \A n \in NodeId, d \in Data : node_state_tlv(x, n, d) \in ReplyTlv
         /\ \A n \in NodeId : [type |-> "req_node_state", node |-> n] \in ReplyTlv
<1>1. network_state_tlv(x) \in ReplyTlv
  BY DEF network_state_tlv, ReplyTlv, Typed, HashSet
<1>2. ASSUME NEW n \in NodeId, NEW d \in Data PROVE node_state_tlv(x, n, d) \in ReplyTlv
  <2>1. x.node[n] \in NodeRecord BY DEF Typed
  <2>2. /\ x.node[n].update_number \in 0 .. UpdateMod - 1
        /\ x.node[n].node_data_hash \in Data
    BY <2>1 DEF NodeRecord
  <2> QED BY <2>2 DEF node_state_tlv, ReplyTlv
<1>3. \A n \in NodeId : [type |-> "req_node_state", node |-> n] \in ReplyTlv
  BY DEF ReplyTlv
<1> QED BY <1>1, <1>2, <1>3

\* A REQ_NET_STATE TLV.
LEMMA ReqNetStateInv == ASSUME IInv, ReqNetState PROVE IInv'
<1>1. PICK e \in Env :
        LET o1 == dncp_calculate_network_hash(With(e))
        IN /\ Done(o1)
           /\ rx' = [rx EXCEPT !.count = @ + 1,
                !.reply = @ \cup {network_state_tlv(o1)}
                            \cup {node_state_tlv(o1, n, NoData) : n \in Reachable(o1)}]
  BY ZenonT(40) DEF ReqNetState
<1> DEFINE o1 == dncp_calculate_network_hash(With(e))
           reply == rx.reply \cup {network_state_tlv(o1)}
                      \cup {node_state_tlv(o1, n, NoData) : n \in Reachable(o1)}
<1>2. Core(With(e)) /\ Same(o, With(e)) BY WithCore DEF IInv
<1>3. Core(o1) /\ o1.own_node = o.own_node /\ o1.known = o.known
  BY <1>2, CalculateCore DEF Same
<1>4. Done(o1) /\ rx' = [rx EXCEPT !.count = @ + 1, !.reply = reply] BY <1>1, Zenon
<1> HIDE DEF o1
<1>5. o1.own_node \in o1.known BY <1>3 DEF IInv, Alive, ReqNetState, NextTlv
<1>6. reply \in SUBSET ReplyTlv
  <2>1. o1 \in Typed /\ Reachable(o1) \in SUBSET NodeId
    BY <1>3 DEF Core, Reachable, Typed
  <2>2. NoData \in Data BY DEF Data
  <2>3. rx.reply \in SUBSET ReplyTlv BY DEF IInv, Reception
  <2> QED BY <2>1, <2>2, <2>3, ReplyTypes
<1> HIDE DEF reply
<1>7. rx' \in Reception
  <2>1. rx \in Reception BY DEF IInv
  <2>2. rx' = [rx EXCEPT !.count = @ + 1, !.reply = reply] BY <1>4
  <2>3. rx.count + 1 \in Nat BY <2>1 DEF Reception
  <2> QED BY <2>1, <2>2, <2>3, <1>6, ZenonT(40) DEF Reception
<1> QED BY <1>3, <1>4, <1>5, <1>7, DuringMessage, ZenonT(40) DEF ReqNetState, NextTlv

\* A REQ_NODE_STATE TLV.
LEMMA ReqNodeStateInv == ASSUME IInv, ReqNodeState PROVE IInv'
<1>1. PICK e \in Env, n \in o.known :
        LET o1 == IF n = o.own_node THEN dncp_self_flush(With(e)) ELSE o
        IN /\ n = o.own_node \/ (~o.graph_dirty /\ n \in Reachable(o))
           /\ Done(o1)
           /\ rx' = [rx EXCEPT !.count = @ + 1,
                !.reply = @ \cup {node_state_tlv(o1, n, o1.node[n].tlv_container)}]
  BY ZenonT(40) DEF ReqNodeState
<1> DEFINE o1 == IF n = o.own_node THEN dncp_self_flush(With(e)) ELSE o
           reply == rx.reply \cup {node_state_tlv(o1, n, o1.node[n].tlv_container)}
<1>2. Core(With(e)) /\ Same(o, With(e)) BY WithCore DEF IInv
<1>3. With(e).own_node \in With(e).known
  BY <1>2 DEF Same, IInv, Alive, ReqNodeState, NextTlv
<1>4. Core(o1) /\ o1.own_node = o.own_node /\ o1.known = o.known
  BY <1>2, <1>3, SelfFlushCore DEF Same, IInv
<1>5. Done(o1) BY <1>1
<1>6. rx' = [rx EXCEPT !.count = @ + 1, !.reply = reply] BY <1>1, Zenon
<1> HIDE DEF o1
<1>7. o1.own_node \in o1.known BY <1>4 DEF IInv, Alive, ReqNodeState, NextTlv
<1>8. reply \in SUBSET ReplyTlv
  <2>1. o1 \in Typed /\ n \in NodeId BY <1>4 DEF Core, Typed
  <2>2. o1.node[n].tlv_container \in Data BY <2>1 DEF Typed, NodeRecord
  <2>3. rx.reply \in SUBSET ReplyTlv BY DEF IInv, Reception
  <2> QED BY <2>1, <2>2, <2>3, ReplyTypes
<1> HIDE DEF reply
<1>9. rx' \in Reception
  <2>1. rx \in Reception BY DEF IInv
  <2>2. rx.count + 1 \in Nat BY <2>1 DEF Reception
  <2> QED BY <2>1, <2>2, <1>6, <1>8, ZenonT(40) DEF Reception
<1> QED BY <1>4, <1>5, <1>7, <1>9, DuringMessage DEF ReqNodeState, NextTlv

\* A NET_STATE TLV.
LEMMA NetStateInv == ASSUME IInv, NetState PROVE IInv'
<1>1. PICK consistent \in BOOLEAN :
       LET l == o.ep[rx.ep]
           allowed == o.time - l.last_req_network_state >= TrickleImin
       IN /\ o' = IF ~consistent THEN o
                  ELSE [o EXCEPT
                    !.ep[rx.ep].trickle.c = IF @ < TrickleK THEN @ + 1 ELSE @,
                    !.last_contact =
                      [p \in PeerTLV |-> IF p \in rx.ne THEN o.time ELSE @[p]]]
          /\ rx' = [rx EXCEPT !.count = @ + 1,
               !.should_request_network_state = @ \/ (~consistent /\ allowed)]
  BY ZenonT(40) DEF NetState
<1> DEFINE l == o.ep[rx.ep]
           allowed == o.time - l.last_req_network_state >= TrickleImin
           req == rx.should_request_network_state \/ (~consistent /\ allowed)
           c == IF l.trickle.c < TrickleK THEN l.trickle.c + 1 ELSE l.trickle.c
           lc == [p \in PeerTLV |-> IF p \in rx.ne THEN o.time ELSE o.last_contact[p]]
           y == [o EXCEPT !.ep[rx.ep].trickle.c = c, !.last_contact = lc]
<1>2. o \in Typed /\ rx \in Reception /\ rx.ep \in Ep BY DEF IInv, Core, Reception
<1>3. l \in Endpoint /\ l.trickle \in Trickle BY <1>2 DEF Typed, Endpoint
<1>4. c \in Nat BY <1>3, SMTT(40) DEF Trickle
<1>5. lc \in [PeerTLV -> Nat] BY <1>2 DEF Typed
<1>6. o' = IF ~consistent THEN o ELSE y BY <1>1, Zenon
<1>7. rx' = [rx EXCEPT !.count = @ + 1, !.should_request_network_state = req]
  BY <1>1, Zenon
<1>8. req \in BOOLEAN OBVIOUS
<1> HIDE DEF c, lc, req
<1>9. y \in Typed /\ Same(o, y) /\ y.env = o.env
  <2>1. [l EXCEPT !.trickle.c = c] \in Endpoint BY <1>3, <1>4 DEF Endpoint, Trickle
  <2> QED BY <2>1, <1>2, <1>5, ZenonT(40) DEF Typed, Same
<1> HIDE DEF y
<1>10. Core(o') /\ Same(o, o') /\ o'.env = Calm
  BY <1>6, <1>9, SameKeepsCore, SameIsReflexive DEF IInv
<1>11. rx' \in Reception
  <2>1. rx.count + 1 \in Nat BY <1>2 DEF Reception
  <2> QED BY <1>2, <1>7, <1>8, <2>1, ZenonT(40) DEF Reception
<1>12. Alive' BY <1>10 DEF NetState, NextTlv, IInv, Alive, Same
<1> QED BY <1>10, <1>11, <1>12, ZenonT(40) DEF IInv, NetState, NextTlv

\* Own node data from the network.
LEMMA CollisionInv ==
  ASSUME IInv, NEW e \in Env, NEW s \in RemoteStates, rx.busy, Collision(e, s),
         left' = left
  PROVE  IInv'
<1>1. o \in Typed /\ o.own_node \in o.known BY DEF IInv, Core, Alive
<1>2. rx' \in Reception /\ ~rx'.busy BY IdleType DEF Collision
<1>3. CASE ~o.collided
  <2> DEFINE u == bump_update_number(o.node[o.own_node].update_number, s.update_number)
             y == [o EXCEPT !.collided = TRUE, !.republish_tlvs = TRUE,
                            !.node[o.own_node].update_number = u]
  <2>1. Done(dncp_schedule(y)) BY <1>3 DEF Collision
  <2>2. u \in 0 .. UpdateMod - 1
    <3>1. s.update_number \in Nat BY NodeAssumption, ConstAssumption DEF NodeState
    <3>2. s.update_number + UpdateBump \in Int BY <3>1, NodeAssumption
    <3>3. UpdateMod \in Nat \ {0} BY ConstAssumption
    <3> QED BY <3>2, <3>3, ModType, ZenonT(40) DEF bump_update_number
  <2> HIDE DEF u
  <2>3. o.own_node \in NodeId /\ o.node[o.own_node] \in NodeRecord BY <1>1 DEF Typed
  <2>4. [o.node[o.own_node] EXCEPT !.update_number = u] \in NodeRecord
    BY <2>2, <2>3 DEF NodeRecord
  <2>5. y \in Typed BY <1>1, <2>4, ZenonT(40) DEF Typed
  <2>6. /\ y.known = o.known /\ y.own_node = o.own_node /\ y.time = o.time
        /\ y.last_prune = o.last_prune /\ y.next_prune = o.next_prune
        /\ y.republish_tlvs
        /\ \A n \in NodeId : n # o.own_node => y.node[n] = o.node[n]
        /\ y.node[o.own_node] = [o.node[o.own_node] EXCEPT !.update_number = u]
    BY <1>1, <2>3 DEF Typed
  <2>7. /\ y.node[o.own_node].node_data_hash = o.node[o.own_node].node_data_hash
        /\ y.node[o.own_node].node_data_hash_dirty = o.node[o.own_node].node_data_hash_dirty
        /\ y.node[o.own_node].tlv_container = o.node[o.own_node].tlv_container
        /\ y.node[o.own_node].last_reachable_prune = o.node[o.own_node].last_reachable_prune
    BY <2>3, <2>6 DEF NodeRecord
  <2> HIDE DEF y
  <2>8. FreedBlank(y) BY <1>1, <2>6 DEF IInv, Core, FreedBlank
  <2>9. HashesExact(y)
    <3> SUFFICES ASSUME NEW n \in y.known, ~y.node[n].node_data_hash_dirty
                 PROVE  y.node[n].node_data_hash = DataHash(y.node[n].tlv_container)
      BY DEF HashesExact
    <3>1. n \in o.known /\ n \in NodeId BY <1>1, <2>6 DEF Typed
    <3>2. CASE n = o.own_node BY <3>1, <3>2, <2>7 DEF IInv, Core, HashesExact
    <3>3. CASE n # o.own_node BY <3>1, <3>3, <2>6 DEF IInv, Core, HashesExact
    <3> QED BY <3>2, <3>3
  <2>10. ClockOrder(y) BY <1>1, <2>6, <2>7, ZenonT(40) DEF IInv, Core, ClockOrder, Typed
  <2>11. HashCurrent(y) BY <2>6 DEF HashCurrent
  <2>12. Core(y) BY <2>5, <2>8, <2>9, <2>10, <2>11 DEF Core
  <2>13. dncp_schedule(y) \in Typed /\ Same(y, dncp_schedule(y)) BY <2>5, ScheduleSame
  <2>14. Core(dncp_schedule(y)) BY <2>12, <2>13, SameKeepsCore
  <2>15. dncp_schedule(y).own_node \in dncp_schedule(y).known
    BY <1>1, <2>6, <2>13 DEF Same
  <2> QED BY <1>2, <2>1, <2>14, <2>15, DuringMessage
<1>4. CASE o.collided
  <2>1. PICK n \in NodeId \ o.known : Done(dncp_set_own_node_id(With(e), n))
    BY <1>4 DEF Collision
  <2>2. Core(With(e)) /\ Same(o, With(e)) BY WithCore DEF IInv
  <2>3. With(e).own_node \in With(e).known /\ n \in NodeId \ With(e).known
    BY <1>1, <2>2 DEF Same
  <2> DEFINE y == dncp_set_own_node_id(With(e), n)
  <2>4. Core(y) /\ y.own_node \in y.known BY <2>2, <2>3, SetOwnNodeIdCore
  <2>5. Done(y) BY <2>1
  <2> HIDE DEF y
  <2> QED BY <1>2, <2>4, <2>5, DuringMessage
<1> QED BY <1>3, <1>4

\* Node data that is accepted: it is stored, and the hash that came with it,
\* which is the hash of that data, is kept instead of computing it again.
LEMMA AcceptedCore ==
  ASSUME NEW x, Core(x), NEW n \in NodeId, NEW u \in 0 .. UpdateMod - 1,
         NEW t \in Int, NEW d \in Data, d # NoData
  PROVE  LET o1 == dncp_node_set(dncp_find_node_by_node_id(x, n), n, u, t, d)
             y == [o1 EXCEPT !.node[n].node_data_hash = DataHash(d),
                             !.node[n].node_data_hash_dirty = FALSE]
         IN /\ Core(y)
            /\ x.own_node \in x.known => y.own_node \in y.known
<1> DEFINE f == dncp_find_node_by_node_id(x, n)
           o1 == dncp_node_set(f, n, u, t, d)
           y == [o1 EXCEPT !.node[n].node_data_hash = DataHash(d),
                           !.node[n].node_data_hash_dirty = FALSE]
<1>1. /\ Core(f) /\ f \in Typed /\ n \in f.known /\ f.own_node = x.own_node
      /\ x.own_node \in x.known => x.own_node \in f.known
  BY FindNodeCore, ZenonT(40) DEF Core
<1> HIDE DEF f
<1>2. Core(o1) BY <1>1, NodeSetCore
<1>3. /\ o1.known = f.known /\ o1.own_node = f.own_node /\ o1.node[n].tlv_container = d
  <2>1. CASE u = f.node[n].update_number /\ d = f.node[n].tlv_container
    BY <1>1, <2>1, NodeSetFact, ZenonT(40)
  <2>2. CASE ~(u = f.node[n].update_number /\ d = f.node[n].tlv_container)
    <3>1. NodeUpdate(f, n, u, t, d, o1) BY <1>1, <2>2, NodeSetFact, ZenonT(40)
    <3> QED BY <3>1, ZenonT(40) DEF NodeUpdate
  <2> QED BY <2>1, <2>2
<1> HIDE DEF o1
<1>4. o1 \in Typed /\ o1.node[n] \in NodeRecord BY <1>2 DEF Core, Typed
<1>5. DataHash(d) \in Data BY TlvsType DEF DataHash, Data
<1> DEFINE r == [o1.node[n] EXCEPT !.node_data_hash = DataHash(d),
                                   !.node_data_hash_dirty = FALSE]
<1>6. r \in NodeRecord BY <1>4, <1>5, ZenonT(40) DEF NodeRecord
<1>7. /\ r.node_data_hash = DataHash(d)
      /\ r.tlv_container = o1.node[n].tlv_container
      /\ r.update_number = o1.node[n].update_number
      /\ r.last_reachable_prune = o1.node[n].last_reachable_prune
  BY <1>4 DEF NodeRecord
<1>8. y = [o1 EXCEPT !.node[n] = r] BY <1>4, ZenonT(40) DEF Typed
<1> HIDE DEF y, r
<1>9. y \in Typed BY <1>4, <1>6, <1>8 DEF Typed
<1>10. /\ y.known = o1.known /\ y.own_node = o1.own_node /\ y.time = o1.time
       /\ y.last_prune = o1.last_prune /\ y.next_prune = o1.next_prune
       /\ y.republish_tlvs = o1.republish_tlvs
       /\ y.network_hash = o1.network_hash
       /\ y.network_hash_dirty = o1.network_hash_dirty
       /\ y.node[n] = r
       /\ \A m \in NodeId \ {n} : y.node[m] = o1.node[m]
  BY <1>4, <1>8 DEF Typed
<1>11. o1.known \in SUBSET NodeId /\ n \in o1.known BY <1>1, <1>3, <1>4 DEF Typed
<1>12. FreedBlank(y) BY <1>2, <1>10, <1>11, ZenonT(40) DEF Core, FreedBlank
<1>13. HashesExact(y)
  <2> SUFFICES ASSUME NEW m \in y.known, ~y.node[m].node_data_hash_dirty
               PROVE  y.node[m].node_data_hash = DataHash(y.node[m].tlv_container)
    BY DEF HashesExact
  <2>1. m \in o1.known /\ m \in NodeId BY <1>10, <1>11
  <2>2. CASE m = n BY <2>2, <1>3, <1>7, <1>10
  <2>3. CASE m # n BY <2>1, <2>3, <1>2, <1>10 DEF Core, HashesExact
  <2> QED BY <2>2, <2>3
<1>14. \A m \in y.known :
         /\ m \in NodeId
         /\ y.node[m].last_reachable_prune = o1.node[m].last_reachable_prune
         /\ y.node[m].update_number = o1.node[m].update_number
         /\ y.node[m].tlv_container = o1.node[m].tlv_container
  <2> TAKE m \in y.known
  <2>1. m \in NodeId BY <1>10, <1>11
  <2>2. CASE m = n BY <2>1, <2>2, <1>7, <1>10
  <2>3. CASE m # n BY <2>1, <2>3, <1>10
  <2> QED BY <2>2, <2>3
<1>15. ClockOrder(y) BY <1>2, <1>10, <1>14, ZenonT(40) DEF Core, ClockOrder
<1>16. HashCurrent(y)
  <2>1. Reachable(y) = Reachable(o1) BY <1>10, <1>14 DEF Reachable
  <2>2. Reachable(y) \in SUBSET y.known BY DEF Reachable
  <2>3. HashedPairs(y) = HashedPairs(o1) BY <2>1, <2>2, <1>14 DEF HashedPairs
  <2> QED BY <2>3, <1>2, <1>10 DEF Core, HashCurrent
<1>17. Core(y) BY <1>9, <1>12, <1>13, <1>15, <1>16 DEF Core
<1>18. x.own_node \in x.known => y.own_node \in y.known BY <1>1, <1>3, <1>10
<1> QED BY <1>17, <1>18 DEF y, o1, f

\* A NODE_STATE TLV.
LEMMA NodeStateInv == ASSUME IInv, NodeStateTlv PROVE IInv'
<1>1. PICK e \in Env, s \in RemoteStates :
       LET n == s.node
           r == o.node[n]
           interesting ==
             \/ n \notin o.known
             \/ dncp_update_number_gt(r.update_number, s.update_number)
             \/ s.update_number = r.update_number /\ r.node_data_hash # s.hash
           has_data == /\ Tlvs(s.data) # {}
                       /\ rx.multicast => AcceptMulticast
           o1 == dncp_node_set(dncp_find_node_by_node_id(With(e), n), n,
                               s.update_number, o.time - s.age, s.data)
       IN /\ interesting
          /\ has_data => s.hash = DataHash(s.data)
          /\ \/ /\ has_data
                /\ n = o.own_node
                /\ Collision(e, s)
             \/ /\ has_data
                /\ n # o.own_node
                /\ Done([o1 EXCEPT !.node[n].node_data_hash = s.hash,
                                   !.node[n].node_data_hash_dirty = FALSE])
                /\ rx' = [rx EXCEPT !.count = @ + 1,
                                    !.updated_or_requested_state = TRUE]
             \/ /\ ~has_data
                /\ UNCHANGED o
                /\ rx' = [rx EXCEPT !.count = @ + 1,
                     !.updated_or_requested_state = TRUE,
                     !.reply = @ \cup {[type |-> "req_node_state", node |-> n]}]
  BY ZenonT(40) DEF NodeStateTlv
<1> DEFINE n == s.node
           has_data == Tlvs(s.data) # {} /\ (rx.multicast => AcceptMulticast)
           o1 == dncp_node_set(dncp_find_node_by_node_id(With(e), n), n,
                               s.update_number, o.time - s.age, s.data)
           y == [o1 EXCEPT !.node[n].node_data_hash = s.hash,
                           !.node[n].node_data_hash_dirty = FALSE]
           req == [type |-> "req_node_state", node |-> n]
<1>2. /\ s.node \in NodeId /\ s.update_number \in 0 .. UpdateMod - 1
      /\ s.age \in Nat /\ s.data \in Data
  BY NodeAssumption DEF NodeState
<1>3. /\ o \in Typed /\ rx \in Reception /\ rx.busy /\ left' = left
      /\ o.own_node \in o.known /\ rx.count + 1 \in Nat
  BY DEF NodeStateTlv, NextTlv, IInv, Core, Alive, Reception
<1>4. CASE Collision(e, s) BY <1>3, <1>4, CollisionInv
<1>5. CASE /\ has_data /\ Done(y) /\ s.hash = DataHash(s.data)
           /\ rx' = [rx EXCEPT !.count = @ + 1, !.updated_or_requested_state = TRUE]
  <2>1. s.data # NoData BY <1>5 DEF Tlvs
  <2>2. Core(With(e)) /\ Same(o, With(e)) BY WithCore DEF IInv
  <2>3. With(e).own_node \in With(e).known BY <1>3, <2>2 DEF Same
  <2>4. o.time - s.age \in Int BY <1>2, <1>3 DEF Typed
  <2> DEFINE z == [o1 EXCEPT !.node[n].node_data_hash = DataHash(s.data),
                             !.node[n].node_data_hash_dirty = FALSE]
  <2>5. Core(z) /\ z.own_node \in z.known
    <3> DEFINE t == o.time - s.age
               w == With(e)
    <3>1. t \in Int /\ Core(w) /\ w.own_node \in w.known BY <2>2, <2>3, <2>4
    <3> HIDE DEF t, w
    <3>2. LET q == dncp_node_set(dncp_find_node_by_node_id(w, n), n,
                                 s.update_number, t, s.data)
              v == [q EXCEPT !.node[n].node_data_hash = DataHash(s.data),
                             !.node[n].node_data_hash_dirty = FALSE]
          IN Core(v) /\ (w.own_node \in w.known => v.own_node \in v.known)
      BY <1>2, <2>1, <3>1, AcceptedCore, ZenonT(40)
    <3> QED BY <3>1, <3>2, Zenon DEF t, w
  <2>6. Core(y) /\ y.own_node \in y.known BY <1>5, <2>5, ZenonT(40)
  <2>7. rx' \in Reception BY <1>3, <1>5, ZenonT(40) DEF Reception
  <2> HIDE DEF y
  <2> QED BY <1>3, <1>5, <2>6, <2>7, DuringMessage
<1>6. CASE /\ UNCHANGED o
           /\ rx' = [rx EXCEPT !.count = @ + 1, !.updated_or_requested_state = TRUE,
                               !.reply = @ \cup {req}]
  <2>1. req \in ReplyTlv BY <1>2, <1>3, ReplyTypes
  <2>2. rx.reply \cup {req} \in SUBSET ReplyTlv BY <1>3, <2>1 DEF Reception
  <2> HIDE DEF req
  <2>3. rx' \in Reception BY <1>3, <1>6, <2>2, ZenonT(40) DEF Reception
  <2> QED BY <1>3, <1>6, <2>3 DEF IInv, Alive
<1> QED BY <1>1, <1>4, <1>5, <1>6

\* The end of a message.
LEMMA FinishInv == ASSUME IInv, FinishMessage PROVE IInv'
<1> DEFINE l == o.ep[rx.ep]
           request == /\ rx.should_request_network_state
                      /\ ~rx.updated_or_requested_state
                      /\ ~rx.is_local
           calc(e) == dncp_calculate_network_hash(With(e))
           asked(e) == [calc(e) EXCEPT !.ep[rx.ep].last_req_network_state = o.time]
           o1(e) == IF request THEN asked(e) ELSE With(e)
           t(e) == o.time + (e.random[rx.ep] % (TrickleImin \div 2))
           later(e) == [o1(e) EXCEPT !.ep[rx.ep].send_reply_at = t(e)]
           delayed(e) == /\ rx.multicast
                         /\ request \/ rx.reply # {}
                         /\ l.send_reply_at = 0 \/ l.send_reply_at > t(e)
<1>1. PICK e \in Env : Done(IF delayed(e) THEN dncp_schedule(later(e)) ELSE o1(e))
  BY ZenonT(40) DEF FinishMessage
<1>2. o \in Typed /\ rx \in Reception /\ rx.ep \in Ep /\ o.own_node \in o.known
  BY DEF IInv, Core, Reception, FinishMessage, Alive
<1>3. Core(With(e)) /\ With(e).own_node \in With(e).known
  BY <1>2, WithCore DEF IInv, Same
<1>4. Core(calc(e)) /\ calc(e).own_node \in calc(e).known BY <1>3, CalculateCore
<1>5. o.time \in Nat /\ t(e) \in Nat
  <2> DEFINE r == e.random[rx.ep]
             h == TrickleImin \div 2
  <2>1. o.time \in Nat /\ r \in Nat BY <1>2, EnvType DEF Typed, AnyEnv
  <2>2. h \in Nat \ {0} BY ConstAssumption, HalfType
  <2>3. t(e) = o.time + (r % h) OBVIOUS
  <2> HIDE DEF r, h, t
  <2>4. r \in Int /\ r % h \in 0 .. h - 1 BY <2>1, <2>2, ModType
  <2> QED BY <2>1, <2>2, <2>3, <2>4
<1>6. ASSUME NEW x, Core(x), NEW f \in {"last_req_network_state", "send_reply_at"}, NEW d \in Nat
      PROVE  LET y == [x EXCEPT !.ep[rx.ep][f] = d] IN y \in Typed /\ Core(y) /\ Same(x, y)
  <2> DEFINE y == [x EXCEPT !.ep[rx.ep][f] = d]
  <2>1. x \in Typed /\ x.ep[rx.ep] \in Endpoint BY <1>2, <1>6 DEF Core, Typed
  <2>2. [x.ep[rx.ep] EXCEPT ![f] = d] \in Endpoint BY <1>6, <2>1 DEF Endpoint
  <2>3. y \in Typed /\ Same(x, y) BY <1>2, <2>1, <2>2, ZenonT(40) DEF Typed, Same
  <2> QED BY <1>6, <2>3, SameKeepsCore
<1>7. Core(o1(e)) /\ o1(e).own_node \in o1(e).known
  <2> HIDE DEF calc
  <2>1. asked(e) = [calc(e) EXCEPT !.ep[rx.ep]["last_req_network_state"] = o.time] OBVIOUS
  <2>2. Core(asked(e)) /\ Same(calc(e), asked(e)) BY <1>4, <1>5, <1>6, <2>1
  <2> QED BY <1>3, <1>4, <2>2 DEF Same
<1> HIDE DEF o1, t
<1>8. /\ Core(dncp_schedule(later(e)))
      /\ dncp_schedule(later(e)).own_node \in dncp_schedule(later(e)).known
  <2>1. later(e) = [o1(e) EXCEPT !.ep[rx.ep]["send_reply_at"] = t(e)] OBVIOUS
  <2>2. later(e) \in Typed /\ Core(later(e)) /\ Same(o1(e), later(e))
    BY <1>5, <1>6, <1>7, <2>1
  <2> HIDE DEF later
  <2>3. dncp_schedule(later(e)) \in Typed /\ Same(later(e), dncp_schedule(later(e)))
    BY <2>2, ScheduleSame
  <2> QED BY <1>7, <2>2, <2>3, SameKeepsCore, ZenonT(40) DEF Same
<1> HIDE DEF later, delayed
<1>9. rx' \in Reception BY IdleType, ZenonT(40) DEF FinishMessage
<1> QED BY <1>1, <1>7, <1>8, <1>9, DuringMessage, ZenonT(40) DEF FinishMessage

\* Nothing happens.
LEMMA StutterInv == ASSUME IInv, UNCHANGED vars PROVE IInv'
BY ZenonT(40) DEF IInv, vars, Core, FreedBlank, HashesExact, ClockOrder, HashCurrent, Alive,
       HashedPairs, Reachable

\* IInv is an invariant of the instance in its world.
THEOREM Invariance == Spec => []IInv
<1>1. Init => IInv BY InitInv
<1>2. IInv /\ [Next]_vars => IInv'
  <2> SUFFICES ASSUME IInv, [Next]_vars PROVE IInv' OBVIOUS
  <2>1. CASE Tick BY <2>1, TickInv
  <2>2. CASE Timeout BY <2>2, TimeoutInv
  <2>3. CASE AddTlv BY <2>3, AddTlvInv
  <2>4. CASE RemoveTlv BY <2>4, RemoveTlvInv
  <2>5. CASE EpReady BY <2>5, EpReadyInv
  <2>6. CASE ReceiveMessage BY <2>6, ReceiveInv
  <2>7. CASE ReqNetState BY <2>7, ReqNetStateInv
  <2>8. CASE ReqNodeState BY <2>8, ReqNodeStateInv
  <2>9. CASE NetState BY <2>9, NetStateInv
  <2>10. CASE NodeStateTlv BY <2>10, NodeStateInv
  <2>11. CASE FinishMessage BY <2>11, FinishInv
  <2>12. CASE UNCHANGED vars BY <2>12, StutterInv
  <2> QED BY <2>1, <2>2, <2>3, <2>4, <2>5, <2>6, <2>7, <2>8, <2>9, <2>10, <2>11,
             <2>12 DEF Next
<1> QED BY <1>1, <1>2, PTL DEF Spec

\* Type correctness: no handler, in any interleaving, takes the instance, the
\* message being handled or a freed node out of its type.
THEOREM TypeCorrect == Spec => []TypeOK
<1>1. IInv => TypeOK
  <2> SUFFICES ASSUME IInv PROVE TypeOK OBVIOUS
  <2>1. o \in Instance BY ZenonT(40) DEF IInv, Core, Typed, Instance, HashSet
  <2> QED BY <2>1, ZenonT(40) DEF IInv, Core, FreedBlank, TypeOK
<1> QED BY <1>1, Invariance, PTL

\* dncp_prune never runs twice at one time: its assertion holds.
THEOREM PruneForward == Spec => []PruneMovesForward
<1>1. IInv => PruneMovesForward BY DEF IInv, Core, ClockOrder, PruneMovesForward
<1> QED BY <1>1, Invariance, PTL

\* A network hash that is not marked dirty is the hash of what the reachable
\* nodes have, whatever the order of updates, prunes and callbacks.
THEOREM HashIsCurrent == Spec => []NetworkHashCurrent
<1>1. IInv => NetworkHashCurrent
  BY DEF IInv, Core, HashCurrent, NetworkHashCurrent, CurrentNetworkHash, HashedPairs
<1> QED BY <1>1, Invariance, PTL
=============================================================================
