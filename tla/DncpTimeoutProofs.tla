------------------------- MODULE DncpTimeoutProofs -------------------------
(***************************************************************************)
(* What the operators of DncpTimeout preserve: pruning, and the timeout    *)
(* handler stage by stage (see DncpStateProofs for Core and Same).         *)
(***************************************************************************)
EXTENDS DncpTimeout, DncpStateProofs
----------------------------------------------------------------------------
(* Pruning.                                                                *)

\* MinTime (TMIN folded over a set) is 0 or one of the times, and no later
\* than any of them.
LEMMA MinTimeFact ==
  ASSUME NEW S \in SUBSET Nat
  PROVE  /\ MinTime(S) \in Nat
         /\ MinTime(S) # 0 => MinTime(S) \in S
         /\ \A d \in S \ {0} : MinTime(S) # 0 /\ MinTime(S) <= d
<1>1. CASE S \ {0} = {} BY <1>1 DEF MinTime
<1>2. CASE S \ {0} # {}
  <2>1. S \ {0} \in SUBSET Nat OBVIOUS
  <2>2. \E x \in S \ {0} : \A y \in S \ {0} : x <= y BY <1>2, <2>1, MinExists, ZenonT(40)
  <2>3. Min(S \ {0}) \in S \ {0} /\ \A y \in S \ {0} : Min(S \ {0}) <= y
    BY <2>2, ZenonT(40) DEF Min
  <2> QED BY <1>2, <2>3, ZenonT(40) DEF MinTime
<1> QED BY <1>1, <1>2

\* What _prune_rec visits is known and has not expired.
LEMMA VisitedFact ==
  ASSUME NEW x \in Typed, x.own_node \in x.known
  PROVE  /\ Visited(x) \in SUBSET x.known
         /\ \A n \in Visited(x) : ~Expired(x, n)
<1>1. Visited(x) \in SUBSET x.known BY DEF Visited
<1>2. ASSUME NEW n \in Visited(x) PROVE ~Expired(x, n)
  <2> DEFINE S == {m \in x.known : ~Expired(x, m)}
  <2>1. ~Expired(x, x.own_node) BY <1>2 DEF Visited
  <2>2. S \in SUBSET x.known /\ x.own_node \in S BY <2>1
  <2>3. \A k \in S, m \in x.known \ S : ~BidirNeighbor(x, k, m) \/ Expired(x, m)
    OBVIOUS
  <2> HIDE DEF S
  <2>4. \A S1 \in SUBSET x.known :
          (/\ x.own_node \in S1
           /\ \A k \in S1, m \in x.known \ S1 :
                ~BidirNeighbor(x, k, m) \/ Expired(x, m))
          => n \in S1
    BY <2>1, Zenon DEF Visited
  <2>5. n \in S BY <2>2, <2>3, <2>4
  <2> QED BY <2>5 DEF S
<1> QED BY <1>1, <1>2

\* A node that has not expired expires after now.
LEMMA ExpirationLater ==
  ASSUME NEW x \in Typed, NEW n \in NodeId, ~Expired(x, n)
  PROVE  expiration_time(x.node[n]) \in Nat /\ x.time < expiration_time(x.node[n])
<1>1. x.time \in Nat /\ x.node[n] \in NodeRecord BY DEF Typed
<1>2. x.node[n].origination_time \in Int BY <1>1 DEF NodeRecord
<1>3. expiration_time(x.node[n]) \in Int BY <1>2, ConstAssumption DEF expiration_time
<1> QED BY <1>1, <1>3 DEF Expired

\* The sweep after the visit.  The prune is later than the last one, so no
\* node that is not stamped by it looks reachable; if nothing came, went or
\* was dropped, the reachable nodes are the same and so is their hash.
LEMMA SweepCore ==
  ASSUME NEW x, Core(x), x.last_prune < x.time, NEW V \in SUBSET x.known,
         \A n \in V : ~Expired(x, n)
  PROVE  /\ Core(Sweep(x, V, Droppable(x, V)))
         /\ Sweep(x, V, Droppable(x, V)).own_node = x.own_node
         /\ Sweep(x, V, Droppable(x, V)).time = x.time
<1> DEFINE D == Droppable(x, V)
           kept == x.known \ (V \cup D)
           up == V \ Reachable(x)
           down == kept \cap Reachable(x)
           nodes == [n \in NodeId |-> PruneNode(x, V, D, n)]
           subs == [n \in NodeId |-> PruneTlvs(x, V, D, n)]
           times == {expiration_time(x.node[n]) : n \in V}
                      \cup {x.node[n].last_reachable_prune + GraceInterval + 1 : n \in kept}
           y == Sweep(x, V, D)
<1>1. x \in Typed BY DEF Core
<1>2. /\ x.known \in SUBSET NodeId /\ x.time \in Nat /\ x.last_prune \in Nat
      /\ \A n \in NodeId : x.node[n] \in NodeRecord /\ x.sub_tlvs[n] \in SUBSET TLV
  BY <1>1 DEF Typed
<1>3. \A n \in NodeId : /\ x.node[n].last_reachable_prune \in Int
                        /\ x.node[n].tlv_container_valid \in Data
  BY <1>2 DEF NodeRecord
<1>4. D \in SUBSET (x.known \ V) BY DEF Droppable
<1>5. \A n \in kept : x.time <= x.node[n].last_reachable_prune + GraceInterval
  <2> TAKE n \in kept
  <2>1. n \in NodeId /\ n \in x.known \ V /\ n \notin D BY <1>2
  <2>2. ~(x.node[n].last_reachable_prune < x.time - GraceInterval)
    BY <2>1 DEF Droppable
  <2> QED BY <2>1, <2>2, <1>2, <1>3, ConstAssumption
<1> HIDE DEF D
<1>6. times \in SUBSET Nat /\ \A d \in times : x.time < d
  <2>1. \A n \in V : /\ expiration_time(x.node[n]) \in Nat
                     /\ x.time < expiration_time(x.node[n])
    BY <1>1, <1>2, ExpirationLater
  <2>2. \A n \in kept :
          /\ x.node[n].last_reachable_prune + GraceInterval + 1 \in Nat
          /\ x.time < x.node[n].last_reachable_prune + GraceInterval + 1
    <3> TAKE n \in kept
    <3>1. n \in NodeId BY <1>2
    <3> QED BY <3>1, <1>2, <1>3, <1>5, ConstAssumption
  <2> QED BY <2>1, <2>2
<1> HIDE DEF times
<1>7. /\ MinTime(times) \in Nat
      /\ MinTime(times) # 0 => x.time < MinTime(times)
  BY <1>6, MinTimeFact
<1>8. nodes \in [NodeId -> NodeRecord]
  BY <1>2, BlankType DEF PruneNode, NodeRecord
<1>9. subs \in [NodeId -> SUBSET TLV]
  <2> SUFFICES ASSUME NEW n \in NodeId PROVE PruneTlvs(x, V, D, n) \in SUBSET TLV
    OBVIOUS
  <2>1. \A a \in Data, b \in Data : tlvs_changed(x.sub_tlvs[n], a, b) \in SUBSET TLV
    BY <1>2, TlvsType DEF tlvs_changed
  <2>2. NoData \in Data BY DEF Data
  <2> QED BY <1>2, <1>3, <2>1, <2>2 DEF PruneTlvs
<1>10. (x.sub_nodes \cup up) \ down \in SUBSET NodeId BY <1>1, <1>2 DEF Typed
<1>11. /\ y \in Typed
       /\ y.node = nodes
       /\ y.known = x.known \ D
       /\ y.own_node = x.own_node
       /\ y.time = x.time
       /\ y.last_prune = x.time
       /\ y.next_prune = MinTime(times)
       /\ y.republish_tlvs = x.republish_tlvs
       /\ y.network_hash = x.network_hash
       /\ y.network_hash_dirty = (x.network_hash_dirty \/ up \cup down \cup D # {})
  <2> DEFINE z == [x EXCEPT !.node = nodes, !.known = @ \ D, !.sub_tlvs = subs,
                     !.sub_nodes = (@ \cup up) \ down,
                     !.next_prune = MinTime(times),
                     !.network_hash_dirty = @ \/ up \cup down \cup D # {},
                     !.graph_dirty = @ \/ D # {},
                     !.last_prune = x.time]
  <2>1. y = z BY Zenon DEF Sweep, times
  <2> HIDE DEF nodes, subs, y, up, down
  <2>2. z \in Typed
    <3> DEFINE b1 == x.network_hash_dirty \/ up \cup down \cup D # {}
               b2 == x.graph_dirty \/ D # {}
               k == x.known \ D
               s == (x.sub_nodes \cup up) \ down
    <3>1. b1 \in BOOLEAN /\ b2 \in BOOLEAN OBVIOUS
    <3>2. k \in SUBSET NodeId BY <1>2
    <3>3. s \in SUBSET NodeId BY <1>10
    <3>4. z = [x EXCEPT !.node = nodes, !.known = k, !.sub_tlvs = subs,
                 !.sub_nodes = s, !.next_prune = MinTime(times),
                 !.network_hash_dirty = b1, !.graph_dirty = b2,
                 !.last_prune = x.time]
      BY Zenon
    <3> HIDE DEF b1, b2, k, s, z
    <3> QED BY <1>1, <1>2, <1>7, <1>8, <1>9, <3>1, <3>2, <3>3, <3>4, ZenonT(40) DEF Typed
  <2>3. /\ z.node = nodes
        /\ z.known = x.known \ D
        /\ z.own_node = x.own_node
        /\ z.time = x.time
        /\ z.last_prune = x.time
        /\ z.next_prune = MinTime(times)
        /\ z.republish_tlvs = x.republish_tlvs
        /\ z.network_hash = x.network_hash
        /\ z.network_hash_dirty = (x.network_hash_dirty \/ up \cup down \cup D # {})
    BY <1>1 DEF Typed
  <2> QED BY <2>1, <2>2, <2>3
<1>12. \A n \in NodeId :
         /\ n \in V => nodes[n] = [x.node[n] EXCEPT !.last_reachable_prune = x.time]
         /\ n \in D => nodes[n] = BlankNode
         /\ n \notin V \cup D => nodes[n] = x.node[n]
  BY <1>4 DEF PruneNode
<1> HIDE DEF nodes, subs, y
<1>13. \A n \in V : /\ nodes[n].last_reachable_prune = x.time
                    /\ nodes[n].update_number = x.node[n].update_number
                    /\ nodes[n].tlv_container = x.node[n].tlv_container
                    /\ nodes[n].node_data_hash = x.node[n].node_data_hash
                    /\ nodes[n].node_data_hash_dirty = x.node[n].node_data_hash_dirty
  BY <1>2, <1>12, ZenonT(40) DEF NodeRecord
<1>14. FreedBlank(y)
  <2> SUFFICES ASSUME NEW n \in NodeId \ y.known PROVE y.node[n] = BlankNode
    BY DEF FreedBlank
  <2>1. CASE n \in D BY <2>1, <1>11, <1>12, ZenonT(40)
  <2>2. CASE n \notin D
    <3>1. n \notin x.known BY <2>2, <1>11
    <3> QED BY <3>1, <2>2, <1>11, <1>12, ZenonT(40) DEF Core, FreedBlank
  <2> QED BY <2>1, <2>2
<1>15. HashesExact(y)
  <2> SUFFICES ASSUME NEW n \in y.known, ~y.node[n].node_data_hash_dirty
               PROVE  y.node[n].node_data_hash = DataHash(y.node[n].tlv_container)
    BY DEF HashesExact
  <2>1. n \in x.known /\ n \in NodeId /\ n \notin D BY <1>2, <1>11
  <2>2. CASE n \in V BY <2>1, <2>2, <1>11, <1>13 DEF Core, HashesExact
  <2>3. CASE n \notin V BY <2>1, <2>3, <1>11, <1>12, ZenonT(40) DEF Core, HashesExact
  <2> QED BY <2>2, <2>3
<1>16. ClockOrder(y)
  <2>1. \A n \in y.known : y.node[n].last_reachable_prune <= y.last_prune
    <3> TAKE n \in y.known
    <3>1. n \in x.known /\ n \in NodeId /\ n \notin D BY <1>2, <1>11
    <3>2. CASE n \in V BY <3>1, <3>2, <1>2, <1>11, <1>13
    <3>3. CASE n \notin V
      <4>1. y.node[n] = x.node[n] BY <3>1, <3>3, <1>11, <1>12, ZenonT(40)
      <4>2. x.node[n].last_reachable_prune <= x.last_prune BY <3>1 DEF Core, ClockOrder
      <4> QED BY <3>1, <4>1, <4>2, <1>2, <1>3, <1>11
    <3> QED BY <3>2, <3>3
  <2> QED BY <2>1, <1>2, <1>7, <1>11 DEF ClockOrder
<1>17. Reachable(y) = V
  <2>1. \A n \in x.known \ D : n \notin V => y.node[n].last_reachable_prune # x.time
    <3> SUFFICES ASSUME NEW n \in x.known \ D, n \notin V
                 PROVE  y.node[n].last_reachable_prune # x.time OBVIOUS
    <3>1. n \in NodeId BY <1>2
    <3>2. y.node[n] = x.node[n] BY <3>1, <1>11, <1>12, ZenonT(40)
    <3>3. x.node[n].last_reachable_prune <= x.last_prune BY DEF Core, ClockOrder
    <3> QED BY <3>1, <3>2, <3>3, <1>2, <1>3
  <2> QED BY <2>1, <1>4, <1>11, <1>13 DEF Reachable
<1>18. HashCurrent(y)
  <2> SUFFICES ASSUME ~y.network_hash_dirty, ~y.republish_tlvs
               PROVE  y.network_hash = NetworkHash(HashedPairs(y))
    BY DEF HashCurrent
  <2>1. up = {} /\ down = {} /\ D = {} /\ ~x.network_hash_dirty /\ ~x.republish_tlvs
    BY <1>1, <1>11 DEF Typed
  <2>2. Reachable(x) = V BY <2>1 DEF Reachable
  <2>3. HashedPairs(y) = HashedPairs(x)
    BY <2>2, <1>11, <1>13, <1>17 DEF HashedPairs
  <2> QED BY <2>1, <2>3, <1>11 DEF Core, HashCurrent
<1>19. Core(y) BY <1>11, <1>14, <1>15, <1>16, <1>18 DEF Core
<1> QED BY <1>11, <1>19 DEF y, D

\* dncp_prune asserts now != last_prune: it is called only when that holds.
LEMMA PruneCore ==
  ASSUME NEW x, Core(x), x.own_node \in x.known, x.last_prune < x.time
  PROVE  /\ Core(dncp_prune(x))
         /\ dncp_prune(x).own_node = x.own_node
         /\ dncp_prune(x).time = x.time
<1> DEFINE V == Visited(x)
           y == Sweep(x, V, Droppable(x, V))
<1>1. x \in Typed BY DEF Core
<1>2. V \in SUBSET x.known /\ \A n \in V : ~Expired(x, n) BY <1>1, VisitedFact
<1>3. dncp_prune(x) = ReactToPrune(x, y) BY Zenon DEF dncp_prune
<1> HIDE DEF V
<1>4. Core(y) /\ y.own_node = x.own_node /\ y.time = x.time BY <1>2, SweepCore
<1> HIDE DEF y
<1>5. y \in Typed /\ x.env.change_cb \in AnyReply BY <1>1, <1>4 DEF Core, Typed, AnyEnv
<1>6. React(y, x.env.change_cb) \in Typed /\ Same(y, React(y, x.env.change_cb))
  BY <1>5, ReactSame
<1>7. Core(React(y, x.env.change_cb)) BY <1>4, <1>6, SameKeepsCore
<1>8. ReactToPrune(x, y) = y \/ ReactToPrune(x, y) = React(y, x.env.change_cb)
  BY Zenon DEF ReactToPrune
<1> QED BY <1>3, <1>4, <1>6, <1>7, <1>8 DEF Same

----------------------------------------------------------------------------
(* The timeout handler, stage by stage.                                    *)

\* The roll-over stage keeps Core.
LEMMA StartTimeoutCore ==
  ASSUME NEW x, Core(x)
  PROVE  /\ Core(StartTimeout(x))
         /\ StartTimeout(x).own_node = x.own_node
         /\ StartTimeout(x).known = x.known
<1> DEFINE b == x.republish_tlvs \/ (Quiet(x) /\ roll_over(x) <= x.time)
           y == [x EXCEPT !.immediate_scheduled = TRUE, !.republish_tlvs = b]
<1>1. x \in Typed BY DEF Core
<1>2. b \in BOOLEAN OBVIOUS
<1>3. StartTimeout(x) = y BY Zenon DEF StartTimeout
<1>4. b \/ ~x.republish_tlvs BY <1>1 DEF Typed
<1> HIDE DEF b
<1>5. y \in Typed BY <1>1, <1>2, ZenonT(40) DEF Typed
<1>6. /\ y.node = x.node /\ y.known = x.known /\ y.own_node = x.own_node
      /\ y.time = x.time /\ y.last_prune = x.last_prune /\ y.next_prune = x.next_prune
      /\ y.network_hash = x.network_hash /\ y.network_hash_dirty = x.network_hash_dirty
      /\ y.republish_tlvs = b
  BY <1>1 DEF Typed
<1> HIDE DEF y
<1>7. FreedBlank(y) /\ HashesExact(y) /\ ClockOrder(y)
  BY <1>6 DEF Core, FreedBlank, HashesExact, ClockOrder
<1>8. HashedPairs(y) = HashedPairs(x)
  <2>1. Reachable(y) = Reachable(x) BY <1>6 DEF Reachable
  <2> QED BY <2>1, <1>6 DEF HashedPairs
<1>9. HashCurrent(y) BY <1>4, <1>6, <1>8 DEF Core, HashCurrent
<1>10. Core(y) BY <1>5, <1>7, <1>9 DEF Core
<1> QED BY <1>3, <1>6, <1>10

\* The prune stage keeps Core: next_prune, when due, is later than last_prune.
LEMMA PruneStageCore ==
  ASSUME NEW x, Core(x), x.own_node \in x.known
  PROVE  Core(PruneStage(x)) /\ PruneStage(x).own_node = x.own_node
<1> DEFINE p == IF x.graph_dirty THEN MinPruneInterval + x.last_prune ELSE x.next_prune
           y == [x EXCEPT !.next_prune = p]
           z == [y EXCEPT !.graph_dirty = FALSE]
<1>1. x \in Typed BY DEF Core
<1>2. p \in Nat /\ (p # 0 => x.last_prune < p)
  BY <1>1, ConstAssumption DEF Typed, Core, ClockOrder
<1>3. PruneStage(x) = IF y.next_prune # 0 /\ y.next_prune <= y.time
                      THEN dncp_prune(z) ELSE y
  BY Zenon DEF PruneStage, DuePrune
<1> HIDE DEF p
<1>4. y \in Typed /\ z \in Typed BY <1>1, <1>2, ZenonT(40) DEF Typed
<1>5. /\ y.node = x.node /\ y.known = x.known /\ y.own_node = x.own_node
      /\ y.time = x.time /\ y.last_prune = x.last_prune /\ y.next_prune = p
      /\ y.network_hash = x.network_hash /\ y.network_hash_dirty = x.network_hash_dirty
      /\ y.republish_tlvs = x.republish_tlvs
      /\ Same(y, z)
  BY <1>1 DEF Typed, Same
<1> HIDE DEF y, z
<1>6. HashCurrent(y)
  <2>1. Reachable(y) = Reachable(x) BY <1>5 DEF Reachable
  <2>2. HashedPairs(y) = HashedPairs(x) BY <2>1, <1>5 DEF HashedPairs
  <2> QED BY <2>2, <1>5 DEF Core, HashCurrent
<1>7. FreedBlank(y) /\ HashesExact(y) /\ ClockOrder(y)
  BY <1>2, <1>5 DEF Core, FreedBlank, HashesExact, ClockOrder
<1>8. Core(y) BY <1>4, <1>6, <1>7 DEF Core
<1>9. Core(z) BY <1>4, <1>5, <1>8, SameKeepsCore
<1>10. CASE y.next_prune # 0 /\ y.next_prune <= y.time
  <2>1. z.last_prune < z.time
    BY <1>1, <1>2, <1>5, <1>10 DEF Typed, Same
  <2>2. z.own_node \in z.known /\ z.own_node = x.own_node BY <1>5 DEF Same
  <2> QED BY <2>1, <2>2, <1>3, <1>9, <1>10, PruneCore
<1>11. CASE ~(y.next_prune # 0 /\ y.next_prune <= y.time)
  BY <1>3, <1>5, <1>8, <1>11
<1> QED BY <1>10, <1>11

\* The network hash stage keeps Core.
LEMMA HashStageCore ==
  ASSUME NEW x, Core(x)
  PROVE  Core(HashStage(x)) /\ HashStage(x).own_node = x.own_node
<1> DEFINE y == [x EXCEPT !.immediate_scheduled = FALSE]
<1>1. x \in Typed BY DEF Core
<1>2. y \in Typed /\ Same(x, y) BY <1>1, ZenonT(40) DEF Typed, Same
<1>3. Core(y) BY <1>2, SameKeepsCore
<1>4. y.own_node = x.own_node BY <1>2 DEF Same
<1> HIDE DEF y
<1> QED BY <1>3, <1>4, CalculateCore, ZenonT(40) DEF HashStage, y

\* handle_trickle_and_ka keeps its Trickle state in type.
LEMMA HandleTrickleType ==
  ASSUME NEW t \in Trickle, NEW now \in Nat, NEW random \in Nat
  PROVE  handle_trickle_and_ka(t, now, random) \in Trickle
<1> DEFINE ka == t.last_sent + KeepaliveInterval <= now
           s == [t EXCEPT !.last_sent = now]
           t1 == IF ka THEN trickle_set_i(s, now, t.i, random) ELSE t
           t2 == trickle_set_i(t1, now, t1.i * 2, random)
           t3 == [t1 EXCEPT !.last_sent = IF t1.c < TrickleK THEN now ELSE @,
                            !.send_time = 0]
<1>1. t.i \in Nat /\ s \in Trickle BY DEF Trickle
<1> HIDE DEF s
<1>2. t1 \in Trickle BY <1>1, TrickleType
<1>3. handle_trickle_and_ka(t, now, random) =
        IF t1.interval_end_time <= now THEN t2
        ELSE IF t1.send_time # 0 /\ t1.send_time <= now THEN t3 ELSE t1
  BY Zenon DEF handle_trickle_and_ka, s
<1> HIDE DEF t1
<1>4. t1.i * 2 \in Nat BY <1>2 DEF Trickle
<1>5. t2 \in Trickle BY <1>2, <1>4, TrickleType
<1>6. t3 \in Trickle BY <1>2, ZenonT(40) DEF Trickle
<1> HIDE DEF t2, t3
<1> QED BY <1>2, <1>3, <1>5, <1>6

\* The endpoint stage leaves the nodes and the hash alone.
LEMMA EpStageSame ==
  ASSUME NEW x \in Typed PROVE EpStage(x) \in Typed /\ Same(x, EpStage(x))
<1> DEFINE e2 == [e \in Ep |-> EpTimeout(x, e)]
<1>1. e2 \in [Ep -> Endpoint]
  <2> SUFFICES ASSUME NEW e \in Ep PROVE EpTimeout(x, e) \in Endpoint OBVIOUS
  <2> DEFINE l == x.ep[e]
             t == handle_trickle_and_ka(l.trickle, x.time, x.env.random[e])
             s == IF l.send_reply_at <= x.time THEN 0 ELSE l.send_reply_at
  <2>1. l \in Endpoint /\ x.time \in Nat /\ x.env.random[e] \in Nat BY DEF Typed, AnyEnv
  <2>2. l.trickle \in Trickle /\ s \in Nat BY <2>1 DEF Endpoint
  <2>3. t \in Trickle BY <2>1, <2>2, HandleTrickleType
  <2>4. EpTimeout(x, e) = IF ~l.enabled THEN l
                          ELSE [l EXCEPT !.send_reply_at = s, !.trickle = t]
    BY Zenon DEF EpTimeout
  <2> HIDE DEF t, s, l
  <2> QED BY <2>1, <2>2, <2>3, <2>4, ZenonT(40) DEF Endpoint
<1> HIDE DEF e2
<1>2. [x EXCEPT !.ep = e2] \in Typed /\ Same(x, [x EXCEPT !.ep = e2])
  BY <1>1 DEF Typed, Same
<1> QED BY <1>2 DEF EpStage, e2

\* The least of some published intervals is one of them.
LEMMA MinType ==
  ASSUME NEW S \in SUBSET Nat, S # {} PROVE Min(S) \in Nat
<1>1. \E x \in S : \A y \in S : x <= y BY MinExists, ZenonT(40)
<1>2. Min(S) \in S BY <1>1, ZenonT(40) DEF Min
<1> QED BY <1>2, Zenon

\* The greatest as well, since intervals are bounded by their width.
LEMMA MaxType ==
  ASSUME NEW S \in SUBSET (0 .. UpdateMod - 1), S # {} PROVE Max(S) \in Nat
<1> DEFINE D(x) == UpdateMod - x
           T == {D(x) : x \in S}
<1>1. \A x \in S : x \in Nat /\ D(x) \in Nat BY ConstAssumption
<1>2. T \in SUBSET Nat /\ T # {} BY <1>1
<1> HIDE DEF T
<1>3. \E x \in T : \A y \in T : x <= y BY <1>2, MinExists, ZenonT(40)
<1> USE DEF T
<1>4. PICK x \in S : \A y \in S : D(x) <= D(y) BY <1>3, ZenonT(40)
<1>5. \A y \in S : x >= y BY <1>1, <1>4, ConstAssumption
<1> HIDE DEF T, D
<1>6. Max(S) \in S BY <1>5, ZenonT(40) DEF Max
<1> QED BY <1>1, <1>6, Zenon

\* The keep-alive interval of a peer is a natural number.
LEMMA NeighborIntervalType ==
  ASSUME NEW x \in Typed, NEW p \in PeerTLV PROVE neighbor_interval(x, p) \in Nat
<1> DEFINE published(ep) == {t.interval : t \in
             {k \in Tlvs(x.node[p.node].tlv_container) \cap KeepaliveTLV : k.ep = ep}}
<1>1. \A ep : published(ep) \in SUBSET PeerInterval
  <2>1. \A k \in KeepaliveTLV : k.interval \in PeerInterval BY DEF KeepaliveTLV
  <2> QED BY <2>1, ZenonT(40)
<1>2. neighbor_interval(x, p) =
        IF published(p.peer_ep) # {} THEN Min(published(p.peer_ep))
        ELSE IF published(0) # {} THEN Max(published(0)) ELSE KeepaliveInterval
  BY Zenon DEF neighbor_interval
<1> HIDE DEF published
<1>3. \A ep : published(ep) \in SUBSET (0 .. UpdateMod - 1)
  BY <1>1, ConstAssumption, ZenonT(40)
<1>4. \A ep : published(ep) \in SUBSET Nat BY <1>3
<1>5. \A ep : published(ep) # {} => Min(published(ep)) \in Nat
  BY <1>4, MinType, ZenonT(40)
<1>6. published(0) # {} => Max(published(0)) \in Nat BY <1>3, MaxType, ZenonT(40)
<1>7. KeepaliveInterval \in Nat BY TimeoutAssumption
<1> QED BY <1>2, <1>5, <1>6, <1>7, ZenonT(40)

\* The time at which a peer is given up is a natural number.
LEMMA PeerDeadlineType ==
  ASSUME NEW x \in Typed, NEW p \in PeerTLV PROVE PeerDeadline(x, p) \in Nat
<1>1. MultiplierNum \in Nat /\ MultiplierDen \in Nat \ {0} BY TimeoutAssumption
<1>2. MultiplierNum \div MultiplierDen \in Nat BY <1>1, DivType
<1>3. keepalive_multiplier_percent \in Nat BY <1>2 DEF keepalive_multiplier_percent
<1>4. neighbor_interval(x, p) \in Nat BY NeighborIntervalType
<1>5. neighbor_interval(x, p) * keepalive_multiplier_percent \in Nat
  BY <1>3, <1>4, MulType
<1>6. (neighbor_interval(x, p) * keepalive_multiplier_percent) \div 100 \in Nat
  BY <1>5, DivType
<1>7. x.last_contact[p] \in Nat BY DEF Typed
<1> QED BY <1>6, <1>7 DEF PeerDeadline

\* The times an endpoint asks for are natural numbers.
LEMMA EpNextType ==
  ASSUME NEW l0 \in Endpoint, NEW l \in Endpoint, NEW now \in Nat
  PROVE  EpNext(l0, l, now) \in SUBSET Nat
<1>1. l0.trickle \in Trickle /\ l.trickle \in Trickle /\ l.send_reply_at \in Nat
  BY DEF Endpoint
<1>2. KeepaliveNext(l0.trickle, now) \in Nat
  BY <1>1, TimeoutAssumption DEF KeepaliveNext, Trickle
<1>3. l.trickle.interval_end_time \in Nat /\ l.trickle.send_time \in Nat
  BY <1>1 DEF Trickle
<1> QED BY <1>1, <1>2, <1>3 DEF EpNext

\* So is what SET_NEXT collects.
LEMMA NextTimeType ==
  ASSUME NEW x0 \in Typed, NEW x1 \in Typed, NEW x \in Typed
  PROVE  NextTime(x0, x1, x) \in Nat
<1>1. RollOverTimes(x0, x.time) \in SUBSET Nat
  <2>1. x0.node[x0.own_node] \in NodeRecord /\ x.time \in Nat BY DEF Typed
  <2>2. roll_over(x0) \in Int BY <2>1, ConstAssumption DEF roll_over, NodeRecord
  <2> QED BY <2>1, <2>2 DEF RollOverTimes
<1>2. EpTimes(x1, x) \in SUBSET Nat
  <2>1. x.time \in Nat /\ \A e \in Ep : x1.ep[e] \in Endpoint /\ x.ep[e] \in Endpoint
    BY DEF Typed
  <2>2. \A e \in Ep : EpNext(x1.ep[e], x.ep[e], x.time) \in SUBSET Nat
    BY <2>1, EpNextType, ZenonT(40)
  <2> QED BY <2>2 DEF EpTimes
<1>3. PeerTimes(x) \in SUBSET Nat
  <2>1. \A p \in PeerTLV : PeerDeadline(x, p) \in Nat BY PeerDeadlineType
  <2> QED BY <2>1 DEF PeerTimes
<1>4. {x.next_prune} \in SUBSET Nat BY DEF Typed
<1>5. RollOverTimes(x0, x.time) \cup {x.next_prune} \cup EpTimes(x1, x)
        \cup PeerTimes(x) \in SUBSET Nat
  BY <1>1, <1>2, <1>3, <1>4
<1> QED BY <1>5, MinTimeFact DEF NextTime

\* Arming the timer leaves the nodes and the hash alone.
LEMMA RearmSame ==
  ASSUME NEW x \in Typed, NEW next \in Nat
  PROVE  Rearm(x, next) \in Typed /\ Same(x, Rearm(x, next))
<1> DEFINE t == x.time + schedule_timeout(Delta(next - x.time))
           y == [x EXCEPT !.timer = t]
<1>1. t \in Nat BY TimeoutAssumption DEF schedule_timeout, Delta, Typed
<1> HIDE DEF t
<1>2. y \in Typed /\ Same(x, y) BY <1>1 DEF Typed, Same
<1>3. Rearm(x, next) = IF next # 0 /\ ~x.immediate_scheduled THEN y ELSE x
  BY Zenon DEF Rearm, t
<1> HIDE DEF y
<1> QED BY <1>2, <1>3, SameIsReflexive

\* dncp_ext_timeout keeps Core, if the own node exists when it starts.
LEMMA TimeoutCore ==
  ASSUME NEW x, Core(x), x.own_node \in x.known PROVE Core(dncp_ext_timeout(x))
<1> DEFINE x1 == StartTimeout(x)
           x2 == dncp_self_flush(x1)
           x3 == PruneStage(x2)
           x4 == HashStage(x3)
           x5 == EpStage(x4)
           x6 == PeerStage(x5)
           next == NextTime(x, x4, x6)
<1>1. Core(x1) /\ x1.own_node \in x1.known BY StartTimeoutCore
<1>2. Core(x2) /\ x2.own_node \in x2.known
  <2> HIDE DEF x1
  <2> QED BY <1>1, SelfFlushCore
<1>3. Core(x3)
  <2> HIDE DEF x2
  <2> QED BY <1>2, PruneStageCore
<1>4. x4 \in Typed /\ Core(x4)
  <2> HIDE DEF x3
  <2> QED BY <1>3, HashStageCore DEF Core
<1>5. x5 \in Typed /\ Core(x5)
  <2> HIDE DEF x4
  <2> QED BY <1>4, EpStageSame, SameKeepsCore
<1>6. x6 \in Typed /\ Core(x6)
  <2> HIDE DEF x5
  <2> QED BY <1>5, RemoveTlvsSame, SameKeepsCore DEF PeerStage
<1>7. dncp_ext_timeout(x) = Rearm(x6, next) BY Zenon DEF dncp_ext_timeout, FinishTimeout
<1> HIDE DEF x4, x6
<1>8. next \in Nat BY <1>4, <1>6, NextTimeType DEF Core
<1> HIDE DEF next
<1> QED BY <1>6, <1>7, <1>8, RearmSame, SameKeepsCore

\* An endpoint going up or down leaves the nodes and the hash alone.
LEMMA EpReadySame ==
  ASSUME NEW x \in Typed, NEW e \in Ep, NEW enabled \in BOOLEAN
  PROVE  /\ dncp_ext_ep_ready(x, e, enabled) \in Typed
         /\ Same(x, dncp_ext_ep_ready(x, e, enabled))
<1> DEFINE l == x.ep[e]
           t == trickle_set_i([l.trickle EXCEPT !.last_sent = x.time],
                              x.time, TrickleImin, x.env.random[e])
           y == [x EXCEPT !.ep[e].enabled = TRUE, !.ep[e].trickle = t]
           z == [x EXCEPT !.ep[e].enabled = FALSE]
           ps == {p \in PeerTLV : p.ep = e}
<1>1. l \in Endpoint /\ x.time \in Nat /\ x.env.random[e] \in Nat BY DEF Typed, AnyEnv
<1>2. [l.trickle EXCEPT !.last_sent = x.time] \in Trickle BY <1>1 DEF Endpoint, Trickle
<1>3. t \in Trickle BY <1>1, <1>2, ConstAssumption, TrickleType, ZenonT(40)
<1>4. dncp_ext_ep_ready(x, e, enabled) =
        IF l.enabled = enabled THEN x
        ELSE IF enabled THEN dncp_schedule(y) ELSE dncp_remove_tlvs(z, ps)
  BY Zenon DEF dncp_ext_ep_ready
<1> HIDE DEF t
<1>5. y \in Typed /\ Same(x, y)
  <2>1. [[l EXCEPT !.enabled = TRUE] EXCEPT !.trickle = t] \in Endpoint
    BY <1>1, <1>3, ZenonT(40) DEF Endpoint
  <2> QED BY <2>1, ZenonT(40) DEF Typed, Same
<1>6. z \in Typed /\ Same(x, z)
  <2>1. [l EXCEPT !.enabled = FALSE] \in Endpoint BY <1>1, ZenonT(40) DEF Endpoint
  <2> QED BY <2>1, ZenonT(40) DEF Typed, Same
<1> HIDE DEF y, z, ps, l
<1>7. dncp_schedule(y) \in Typed /\ Same(x, dncp_schedule(y))
  BY <1>5, ScheduleSame, SameIsTransitive
<1>8. dncp_remove_tlvs(z, ps) \in Typed /\ Same(x, dncp_remove_tlvs(z, ps))
  BY <1>6, RemoveTlvsSame, SameIsTransitive
<1> QED BY <1>4, <1>7, <1>8, SameIsReflexive
=============================================================================
