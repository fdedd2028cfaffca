-------------------------- MODULE DncpStateProofs --------------------------
(***************************************************************************)
(* What the operators of DncpState preserve, for every value of the        *)
(* constants.                                                              *)
(*                                                                         *)
(* A handler is a composition of operators on instance records, so the     *)
(* inductive invariant is a predicate Core on instance records, and there  *)
(* is one lemma per operator: it keeps Core. Most operators touch neither  *)
(* the nodes nor the network hash; those are shown to leave everything     *)
(* Core is about as it was (Same).                                         *)
(***************************************************************************)
EXTENDS DncpState, FiniteSetTheorems, WellFoundedInduction, TLAPS

AnyReply == {NoData} \cup SUBSET AppTLV

\* The world's answers during a handler.
AnyEnv == [random : [Ep -> Nat], republish_cb : AnyReply, change_cb : AnyReply]

HashSet == SUBSET (Nat \X ((0 .. UpdateMod - 1) \X Data))

\* Instance, during a handler.
Typed ==
  [time : Nat, timer : Nat, env : AnyEnv, own_node : NodeId, known : SUBSET NodeId,
   node : [NodeId -> NodeRecord], tlvs : SUBSET TLV, last_contact : [PeerTLV -> Nat],
   tlvs_dirty : BOOLEAN, republish_tlvs : BOOLEAN, collided : BOOLEAN,
   graph_dirty : BOOLEAN, last_prune : Nat, next_prune : Nat,
   network_hash : HashSet,
   network_hash_dirty : BOOLEAN, immediate_scheduled : BOOLEAN,
   ep : [Ep -> Endpoint],
   sub_nodes : SUBSET NodeId, sub_tlvs : [NodeId -> SUBSET TLV]]

\* The pairs the network hash is made of.
HashedPairs(x) ==
  [n \in Reachable(x) |->
     <<x.node[n].update_number, DataHash(x.node[n].tlv_container)>>]

FreedBlank(x) == \A n \in NodeId \ x.known : x.node[n] = BlankNode

\* A node data hash that is not marked dirty is right.
HashesExact(x) ==
  \A n \in x.known : ~x.node[n].node_data_hash_dirty
     => x.node[n].node_data_hash = DataHash(x.node[n].tlv_container)

\* The clock and the times of the prunes are in order.
ClockOrder(x) ==
  /\ x.last_prune <= x.time
  /\ x.next_prune # 0 => x.last_prune < x.next_prune
  /\ \A n \in x.known : x.node[n].last_reachable_prune <= x.last_prune

HashCurrent(x) ==
  ~x.network_hash_dirty /\ ~x.republish_tlvs
    => x.network_hash = NetworkHash(HashedPairs(x))

Core(x) ==
  x \in Typed /\ FreedBlank(x) /\ HashesExact(x) /\ ClockOrder(x) /\ HashCurrent(x)

\* x and y agree on everything Core is about, but for types.
Same(x, y) ==
  /\ y.time = x.time
  /\ y.own_node = x.own_node
  /\ y.known = x.known
  /\ y.node = x.node
  /\ y.republish_tlvs = x.republish_tlvs
  /\ y.last_prune = x.last_prune
  /\ y.next_prune = x.next_prune
  /\ y.network_hash = x.network_hash
  /\ y.network_hash_dirty = x.network_hash_dirty

----------------------------------------------------------------------------
(* Arithmetic and minima.                                                  *)

\* The remainder of a division by b lies in 0 .. b - 1.
LEMMA ModType == ASSUME NEW a \in Int, NEW b \in Nat \ {0} PROVE a % b \in 0 .. b - 1
BY SMT

\* The quotient of natural numbers is one.
LEMMA DivType == ASSUME NEW a \in Nat, NEW b \in Nat \ {0} PROVE a \div b \in Nat
BY SMT

\* Half of at least 2 is positive: trickle_set_i never takes a remainder by 0.
LEMMA HalfType == ASSUME NEW a \in Nat, 2 <= a PROVE a \div 2 \in Nat \ {0}
BY SMT

\* The product of natural numbers is one.
LEMMA MulType == ASSUME NEW a \in Nat, NEW b \in Nat PROVE a * b \in Nat
BY SMT

\* The next update number differs from the last.
LEMMA NextUpdateNumber ==
  ASSUME NEW u \in 0 .. UpdateMod - 1
  PROVE  (u + 1) % UpdateMod \in 0 .. UpdateMod - 1 /\ (u + 1) % UpdateMod # u
<1>1. UpdateMod \in Nat \ {0} /\ 2 <= UpdateMod BY ConstAssumption
<1>2. CASE u + 1 = UpdateMod
  <2>1. (u + 1) % UpdateMod = 0 BY <1>1, <1>2
  <2> QED BY <1>1, <1>2, <2>1
<1>3. CASE u + 1 # UpdateMod
  <2>1. (u + 1) % UpdateMod = u + 1 BY <1>1, <1>3
  <2> QED BY <1>1, <1>3, <2>1
<1> QED BY <1>2, <1>3

\* A set of natural numbers has a least element.
LEMMA MinExists ==
  ASSUME NEW S \in SUBSET Nat, S # {} PROVE \E x \in S : \A y \in S : x <= y
<1> DEFINE R == OpToRel(<, Nat)
<1>1. IsWellFoundedOn(R, Nat) BY NatLessThanWellFounded, ZenonT(40)
<1>2. R = {ss \in Nat \X Nat : ss[1] < ss[2]} BY Zenon DEF OpToRel
<1> HIDE DEF R
<1>3. PICK x \in S : \A y \in S : ~ (<<y, x>> \in R) BY <1>1, WFMin, ZenonT(40)
<1>4. \A y \in S : x <= y
  <2> SUFFICES ASSUME NEW y \in S, ~(x <= y) PROVE FALSE OBVIOUS
  <2>1. x \in Nat /\ y \in Nat /\ y < x OBVIOUS
  <2>2. <<y, x>> \in {ss \in Nat \X Nat : ss[1] < ss[2]} BY <2>1
  <2> QED BY <2>2, <1>2, <1>3, Zenon
<1> QED BY <1>4

----------------------------------------------------------------------------
(* Wake-ups and local TLVs leave the nodes alone.                          *)

\* Same is reflexive ...
LEMMA SameIsReflexive == ASSUME NEW x PROVE Same(x, x)
BY DEF Same

\* ... and transitive, so it composes along a handler.
LEMMA SameIsTransitive ==
  ASSUME NEW x, NEW y, NEW z, Same(x, y), Same(y, z) PROVE Same(x, z)
BY DEF Same

\* An operator that only changes what Core is not about keeps Core.
LEMMA SameKeepsCore ==
  ASSUME NEW x, NEW y \in Typed, Core(x), Same(x, y) PROVE Core(y)
<1>1. Reachable(y) = Reachable(x) BY DEF Same, Reachable
<1>2. HashedPairs(y) = HashedPairs(x) BY <1>1 DEF Same, HashedPairs
<1>3. HashCurrent(y) BY <1>2 DEF Same, Core, HashCurrent
<1>4. FreedBlank(y) BY DEF Same, Core, FreedBlank
<1>5. HashesExact(y) BY DEF Same, Core, HashesExact
<1>6. ClockOrder(y) BY DEF Same, Core, ClockOrder
<1> QED BY <1>3, <1>4, <1>5, <1>6 DEF Core

\* dncp_schedule leaves the nodes and the hash alone.
LEMMA ScheduleSame ==
  ASSUME NEW x \in Typed
  PROVE  dncp_schedule(x) \in Typed /\ Same(x, dncp_schedule(x))
<1>1. dncp_schedule(x) \in Typed BY ZenonT(40) DEF dncp_schedule, Typed
<1>2. Same(x, dncp_schedule(x)) BY DEF dncp_schedule, Typed, Same
<1> QED BY <1>1, <1>2

\* So does a change of the local TLVs ...
LEMMA UpdateTlvSame ==
  ASSUME NEW x \in Typed, NEW ts \in SUBSET TLV
  PROVE  update_tlv(x, ts) \in Typed /\ Same(x, update_tlv(x, ts))
<1> DEFINE y == [x EXCEPT !.tlvs = ts, !.tlvs_dirty = TRUE]
<1>1. y \in Typed BY ZenonT(40) DEF Typed
<1>2. Same(x, y) BY DEF Typed, Same
<1> HIDE DEF y
<1>3. dncp_schedule(y) \in Typed /\ Same(y, dncp_schedule(y)) BY <1>1, ScheduleSame
<1> USE DEF y
<1> QED BY <1>2, <1>3, SameIsTransitive DEF update_tlv

\* ... made by a subscriber in a callback ...
LEMMA ReactSame ==
  ASSUME NEW x \in Typed, NEW r \in AnyReply
  PROVE  React(x, r) \in Typed /\ Same(x, React(x, r))
<1>1. x.tlvs \in SUBSET TLV BY DEF Typed
<1>2. CASE r = NoData BY <1>2, SameIsReflexive DEF React
<1>3. CASE r # NoData
  <2>1. (x.tlvs \cap PeerTLV) \cup r \in SUBSET TLV BY <1>1, <1>3 DEF TLV, AnyReply
  <2> QED BY <1>3, <2>1, UpdateTlvSame DEF React
<1> QED BY <1>2, <1>3

\* ... by dncp_add_tlv ...
LEMMA AddTlvSame ==
  ASSUME NEW x \in Typed, NEW t \in TLV
  PROVE  dncp_add_tlv(x, t) \in Typed /\ Same(x, dncp_add_tlv(x, t))
<1>1. x.tlvs \cup {t} \in SUBSET TLV BY DEF Typed
<1> QED BY <1>1, UpdateTlvSame DEF dncp_add_tlv

\* ... or by dncp_remove_tlvs.
LEMMA RemoveTlvsSame ==
  ASSUME NEW x \in Typed, NEW ts
  PROVE  dncp_remove_tlvs(x, ts) \in Typed /\ Same(x, dncp_remove_tlvs(x, ts))
<1>1. CASE ts \cap x.tlvs = {} BY <1>1, SameIsReflexive DEF dncp_remove_tlvs
<1>2. CASE ts \cap x.tlvs # {}
  <2> DEFINE y == [x EXCEPT !.last_contact =
                     [p \in PeerTLV |-> IF p \in ts THEN 0 ELSE @[p]]]
  <2>1. y \in Typed BY DEF Typed
  <2>2. Same(x, y) BY DEF Typed, Same
  <2>3. x.tlvs \ ts \in SUBSET TLV BY DEF Typed
  <2> HIDE DEF y
  <2>4. update_tlv(y, x.tlvs \ ts) \in Typed /\ Same(y, update_tlv(y, x.tlvs \ ts))
    BY <2>1, <2>3, UpdateTlvSame
  <2>5. dncp_remove_tlvs(x, ts) = update_tlv(y, x.tlvs \ ts)
    BY <1>2, Zenon DEF dncp_remove_tlvs, y
  <2> QED BY <2>2, <2>4, <2>5, SameIsTransitive
<1> QED BY <1>1, <1>2
----------------------------------------------------------------------------
(* Nodes.                                                                  *)

\* The TLVs of node data.
LEMMA TlvsType == ASSUME NEW a \in Data PROVE Tlvs(a) \in SUBSET TLV
BY DEF Tlvs, Data

\* A freshly allocated node has its type.
LEMMA BlankType == BlankNode \in NodeRecord
BY ConstAssumption DEF BlankNode, NodeRecord, Data

\* What dncp_node_set does to the node, unless it returns early.
NodeUpdate(x, n, u, t, a, y) ==
  /\ y \in Typed
  /\ y.time = x.time
  /\ y.own_node = x.own_node
  /\ y.known = x.known
  /\ \A m \in NodeId \ {n} : y.node[m] = x.node[m]
  /\ y.node[n].update_number = u
  /\ y.node[n].tlv_container = a
  /\ y.node[n].last_reachable_prune = x.node[n].last_reachable_prune
  /\ y.node[n].node_data_hash = x.node[n].node_data_hash
  /\ y.node[n].node_data_hash_dirty =
       (x.node[n].node_data_hash_dirty \/ a # x.node[n].tlv_container)
  /\ y.republish_tlvs = x.republish_tlvs
  /\ y.last_prune = x.last_prune
  /\ y.next_prune = x.next_prune
  /\ y.network_hash_dirty

\* dncp_node_set either returns early, leaving the instance as it is, or is a
\* NodeUpdate.
LEMMA NodeSetFact ==
  ASSUME NEW x \in Typed, NEW n \in NodeId, NEW u \in 0 .. UpdateMod - 1,
         NEW t \in Int, NEW a \in Data
  PROVE  IF u = x.node[n].update_number /\ (a = NoData \/ a = x.node[n].tlv_container)
         THEN dncp_node_set(x, n, u, t, a) = x
         ELSE NodeUpdate(x, n, u, t, a, dncp_node_set(x, n, u, t, a))
<1> DEFINE r == x.node[n]
           replaced == a # r.tlv_container
           a_valid == IF ~replaced THEN r.tlv_container_valid
                      ELSE validate_node_data(x, n, a)
           heard == replaced /\ r.last_reachable_prune = x.last_prune
           x1 == [x EXCEPT !.sub_tlvs[n] = tlvs_changed(@, r.tlv_container_valid, a_valid)]
           told == IF heard /\ Tlvs(a_valid) # Tlvs(r.tlv_container_valid)
                   THEN React(x1, x.env.change_cb) ELSE x
           r2 == [r EXCEPT !.update_number = u,
                           !.origination_time = IF t # 0 THEN t ELSE @,
                           !.tlv_container = a,
                           !.tlv_container_valid = a_valid,
                           !.node_data_hash_dirty = @ \/ replaced]
           y == [told EXCEPT !.node[n] = r2, !.graph_dirty = @ \/ replaced,
                             !.network_hash_dirty = TRUE]
<1>1. r \in NodeRecord BY DEF Typed
<1>2. a_valid \in Data BY <1>1 DEF NodeRecord, validate_node_data, Data
<1>3. r2 \in NodeRecord BY <1>1, <1>2, ZenonT(40) DEF NodeRecord
<1>4. tlvs_changed(x.sub_tlvs[n], r.tlv_container_valid, a_valid) \in SUBSET TLV
  <2>1. x.sub_tlvs[n] \in SUBSET TLV BY DEF Typed
  <2>2. r.tlv_container_valid \in Data BY <1>1 DEF NodeRecord
  <2> QED BY <2>1, <2>2, <1>2, TlvsType DEF tlvs_changed
<1>5. x1 \in Typed /\ Same(x, x1) BY <1>4 DEF Typed, Same
<1>6. x.env.change_cb \in AnyReply BY DEF Typed, AnyEnv
<1>7. told \in Typed /\ Same(x, told)
  <2> HIDE DEF x1
  <2> QED BY <1>5, <1>6, ReactSame, SameIsReflexive, SameIsTransitive
<1>8. /\ r2.update_number = u
      /\ r2.tlv_container = a
      /\ r2.last_reachable_prune = r.last_reachable_prune
      /\ r2.node_data_hash = r.node_data_hash
      /\ r2.node_data_hash_dirty = (r.node_data_hash_dirty \/ replaced)
  BY <1>1 DEF NodeRecord
<1>9. dncp_node_set(x, n, u, t, a)
       = IF u = r.update_number /\ (a = NoData \/ ~replaced) THEN x ELSE dncp_schedule(y)
  BY Zenon DEF dncp_node_set
<1> HIDE DEF told, r2
<1>10. y \in Typed BY <1>3, <1>7, ZenonT(40) DEF Typed
<1>11. NodeUpdate(x, n, u, t, a, y)
  BY <1>3, <1>7, <1>8, <1>10, SMTT(40) DEF Typed, Same, NodeUpdate
<1> HIDE DEF y
<1>12. NodeUpdate(x, n, u, t, a, dncp_schedule(y))
  <2>1. dncp_schedule(y) \in Typed /\ Same(y, dncp_schedule(y)) BY <1>10, ScheduleSame
  <2> QED BY <1>11, <2>1 DEF NodeUpdate, Same
<1> QED BY <1>9, <1>12

\* The network hash need not be right before, as it is marked dirty.
LEMMA NodeUpdateCore ==
  ASSUME NEW x \in Typed, FreedBlank(x), HashesExact(x), ClockOrder(x),
         NEW n \in x.known, NEW u, NEW t, NEW a, NEW y, NodeUpdate(x, n, u, t, a, y)
  PROVE  Core(y)
<1>1. n \in NodeId BY DEF Typed
<1>2. y \in Typed BY DEF NodeUpdate
<1>3. FreedBlank(y) BY <1>1 DEF NodeUpdate, FreedBlank
<1>4. HashesExact(y)
  <2> SUFFICES ASSUME NEW m \in y.known, ~y.node[m].node_data_hash_dirty
               PROVE  y.node[m].node_data_hash = DataHash(y.node[m].tlv_container)
    BY DEF HashesExact
  <2>1. m \in x.known /\ m \in NodeId BY <1>1 DEF NodeUpdate, Typed
  <2>2. CASE m = n BY <2>1, <2>2, ZenonT(40) DEF NodeUpdate, HashesExact
  <2>3. CASE m # n BY <2>1, <2>3 DEF NodeUpdate, HashesExact
  <2> QED BY <2>2, <2>3
<1>5. ClockOrder(y)
  <2>1. \A m \in y.known : y.node[m].last_reachable_prune <= y.last_prune
    BY <1>1 DEF NodeUpdate, ClockOrder, Typed
  <2> QED BY <2>1 DEF NodeUpdate, ClockOrder
<1>6. HashCurrent(y) BY DEF NodeUpdate, HashCurrent
<1> QED BY <1>2, <1>3, <1>4, <1>5, <1>6 DEF Core

\* dncp_node_set on a known node keeps Core.
LEMMA NodeSetCore ==
  ASSUME NEW x, Core(x), NEW n \in x.known, NEW u \in 0 .. UpdateMod - 1,
         NEW t \in Int, NEW a \in Data
  PROVE  Core(dncp_node_set(x, n, u, t, a))
<1> DEFINE y == dncp_node_set(x, n, u, t, a)
<1>1. x \in Typed /\ n \in NodeId BY DEF Core, Typed
<1>2. y = x \/ NodeUpdate(x, n, u, t, a, y) BY <1>1, NodeSetFact
<1> HIDE DEF y
<1>3. Core(y) BY <1>1, <1>2, NodeUpdateCore DEF Core
<1> QED BY <1>3 DEF y

\* A new node keeps Core: it is unreachable, empty and its hash is dirty.
LEMMA AddNodeCore ==
  ASSUME NEW x, Core(x), NEW n \in NodeId \ x.known
  PROVE  /\ Core(AddNode(x, n))
         /\ AddNode(x, n).known = x.known \cup {n}
         /\ AddNode(x, n).time = x.time
         /\ AddNode(x, n).own_node = x.own_node
         /\ AddNode(x, n).last_prune = x.last_prune
         /\ AddNode(x, n).network_hash_dirty
         /\ AddNode(x, n).node[n].update_number = 0
         /\ AddNode(x, n).node[n].tlv_container = NoData
<1> DEFINE r == [BlankNode EXCEPT !.last_reachable_prune = x.last_prune - 1]
           y == [x EXCEPT !.known = @ \cup {n}, !.node[n] = r,
                          !.network_hash_dirty = TRUE, !.graph_dirty = TRUE]
<1>1. x \in Typed BY DEF Core
<1>2. r \in NodeRecord
  <2>1. x.last_prune - 1 \in Int BY <1>1 DEF Typed
  <2> QED BY <2>1, BlankType DEF NodeRecord
<1>3. r.node_data_hash_dirty /\ r.last_reachable_prune = x.last_prune - 1
      /\ r.update_number = 0 /\ r.tlv_container = NoData
  BY DEF BlankNode
<1> HIDE DEF r
<1>4. y \in Typed BY <1>1, <1>2, ZenonT(40) DEF Typed
<1>5. /\ y.known = x.known \cup {n}
      /\ y.time = x.time
      /\ y.own_node = x.own_node
      /\ y.last_prune = x.last_prune
      /\ y.next_prune = x.next_prune
      /\ y.network_hash_dirty
      /\ y.node[n] = r
      /\ \A m \in NodeId \ {n} : y.node[m] = x.node[m]
  BY <1>1 DEF Typed
<1> HIDE DEF y
<1>6. FreedBlank(y) BY <1>5 DEF Core, FreedBlank
<1>7. HashesExact(y) BY <1>1, <1>3, <1>5 DEF Core, HashesExact, Typed
<1>8. ClockOrder(y) BY <1>1, <1>3, <1>5 DEF Core, ClockOrder, Typed
<1>9. HashCurrent(y) BY <1>5 DEF HashCurrent
<1>10. Core(y) BY <1>4, <1>6, <1>7, <1>8, <1>9 DEF Core
<1>11. dncp_schedule(y) \in Typed /\ Same(y, dncp_schedule(y)) BY <1>4, ScheduleSame
<1>12. Core(dncp_schedule(y)) BY <1>10, <1>11, SameKeepsCore
<1>13. AddNode(x, n) = dncp_schedule(y) BY Zenon DEF AddNode, y, r
<1> QED BY <1>3, <1>5, <1>11, <1>12, <1>13, ZenonT(40) DEF Same

\* dncp_find_node_by_node_id keeps Core and knows the node afterwards.
LEMMA FindNodeCore ==
  ASSUME NEW x, Core(x), NEW n \in NodeId
  PROVE  /\ Core(dncp_find_node_by_node_id(x, n))
         /\ n \in dncp_find_node_by_node_id(x, n).known
         /\ dncp_find_node_by_node_id(x, n).time = x.time
         /\ x.own_node \in x.known =>
              x.own_node \in dncp_find_node_by_node_id(x, n).known
         /\ dncp_find_node_by_node_id(x, n).own_node = x.own_node
BY AddNodeCore DEF dncp_find_node_by_node_id

\* Freeing a node keeps Core and forgets the node.
LEMMA FreeNodeCore ==
  ASSUME NEW x, Core(x), NEW n \in x.known
  PROVE  /\ Core(FreeNode(x, n))
         /\ FreeNode(x, n).known = x.known \ {n}
         /\ FreeNode(x, n).last_prune = x.last_prune
<1> DEFINE z == dncp_node_set(x, n, 0, 0, NoData)
           y == [z EXCEPT !.known = @ \ {n}, !.node[n] = BlankNode,
                          !.network_hash_dirty = TRUE, !.graph_dirty = TRUE]
<1>1. 0 \in 0 .. UpdateMod - 1 /\ 0 \in Int /\ NoData \in Data
  BY ConstAssumption DEF Data
<1>2. Core(z) BY <1>1, NodeSetCore
<1>3. z \in Typed BY <1>2 DEF Core
<1>4. z.known = x.known /\ z.last_prune = x.last_prune
  <2>1. x \in Typed /\ n \in NodeId BY DEF Core, Typed
  <2>2. z = x \/ NodeUpdate(x, n, 0, 0, NoData, z) BY <1>1, <2>1, NodeSetFact
  <2> QED BY <2>2 DEF NodeUpdate
<1> HIDE DEF z
<1>5. y \in Typed BY <1>3, BlankType, ZenonT(40) DEF Typed
<1>6. /\ y.known = z.known \ {n}
      /\ y.time = z.time
      /\ y.last_prune = z.last_prune
      /\ y.next_prune = z.next_prune
      /\ y.network_hash_dirty
      /\ \A m \in NodeId \ {n} : y.node[m] = z.node[m]
      /\ y.node[n] = BlankNode
  <2>1. n \in NodeId BY DEF Core, Typed
  <2> QED BY <1>3, <2>1 DEF Typed
<1> HIDE DEF y
<1>7. FreedBlank(y) BY <1>2, <1>6 DEF Core, FreedBlank
<1>8. HashesExact(y) BY <1>2, <1>3, <1>6 DEF Core, HashesExact, Typed
<1>9. ClockOrder(y) BY <1>2, <1>3, <1>6 DEF Core, ClockOrder, Typed
<1>10. HashCurrent(y) BY <1>6 DEF HashCurrent
<1>11. Core(y) BY <1>5, <1>7, <1>8, <1>9, <1>10 DEF Core
<1>12. dncp_schedule(y) \in Typed /\ Same(y, dncp_schedule(y)) BY <1>5, ScheduleSame
<1>13. Core(dncp_schedule(y)) BY <1>11, <1>12, SameKeepsCore
<1>14. FreeNode(x, n) = dncp_schedule(y) BY Zenon DEF FreeNode, y, z
<1> QED BY <1>4, <1>6, <1>12, <1>13, <1>14 DEF Same

\* Renumbering keeps Core, and the new own node is known.
LEMMA SetOwnNodeIdCore ==
  ASSUME NEW x, Core(x), x.own_node \in x.known, NEW n \in NodeId \ x.known
  PROVE  LET y == dncp_set_own_node_id(x, n)
         IN Core(y) /\ y.own_node \in y.known
<1> DEFINE f == FreeNode(x, x.own_node)
           z == AddNode(f, n)
           y == [z EXCEPT !.own_node = n, !.tlvs_dirty = TRUE,
                          !.node[n].last_reachable_prune = x.last_prune]
<1>1. Core(f) /\ f.known = x.known \ {x.own_node} /\ f.last_prune = x.last_prune
  BY FreeNodeCore
<1> HIDE DEF f
<1>2. Core(z) /\ n \in z.known /\ z.last_prune = x.last_prune /\ z.network_hash_dirty
  BY <1>1, AddNodeCore
<1> HIDE DEF z
<1>3. z \in Typed /\ x \in Typed BY <1>2 DEF Core
<1>4. x.last_prune \in Int BY <1>3 DEF Typed
<1>5. [z.node[n] EXCEPT !.last_reachable_prune = x.last_prune] \in NodeRecord
  BY <1>3, <1>4, SMTT(40) DEF Typed, NodeRecord
<1>6. y \in Typed BY <1>3, <1>5, ZenonT(40) DEF Typed
<1>7. /\ y.known = z.known
      /\ y.own_node = n
      /\ y.time = z.time
      /\ y.last_prune = z.last_prune
      /\ y.next_prune = z.next_prune
      /\ y.network_hash_dirty
      /\ \A m \in NodeId \ {n} : y.node[m] = z.node[m]
      /\ y.node[n].last_reachable_prune = x.last_prune
      /\ y.node[n].node_data_hash_dirty = z.node[n].node_data_hash_dirty
      /\ y.node[n].node_data_hash = z.node[n].node_data_hash
      /\ y.node[n].tlv_container = z.node[n].tlv_container
  BY <1>2, <1>3, <1>5 DEF Typed, NodeRecord
<1> HIDE DEF y
<1>8. FreedBlank(y) BY <1>2, <1>7 DEF Core, FreedBlank
<1>9. HashesExact(y) BY <1>2, <1>3, <1>7 DEF Core, HashesExact, Typed
<1>10. ClockOrder(y) BY <1>2, <1>3, <1>7 DEF Core, ClockOrder, Typed
<1>11. HashCurrent(y) BY <1>7 DEF HashCurrent
<1>12. Core(y) BY <1>6, <1>8, <1>9, <1>10, <1>11 DEF Core
<1>13. dncp_schedule(y) \in Typed /\ Same(y, dncp_schedule(y)) BY <1>6, ScheduleSame
<1>14. Core(dncp_schedule(y)) BY <1>12, <1>13, SameKeepsCore
<1>15. dncp_set_own_node_id(x, n) = dncp_schedule(y)
  BY Zenon DEF dncp_set_own_node_id, y, z, f
<1> QED BY <1>2, <1>7, <1>13, <1>14, <1>15 DEF Same
----------------------------------------------------------------------------
(* Publishing and the network hash.                                        *)

\* A republished own node gets a new update number, which marks the network
\* hash dirty: this is where republish_tlvs may be cleared.
LEMMA SelfFlushCore ==
  ASSUME NEW x, Core(x), x.own_node \in x.known
  PROVE  /\ Core(dncp_self_flush(x))
         /\ dncp_self_flush(x).own_node = x.own_node
         /\ dncp_self_flush(x).known = x.known
         /\ dncp_self_flush(x).time = x.time
<1> DEFINE a == produce_new_tlvs(x)
           clean == [x EXCEPT !.tlvs_dirty = FALSE]
           told == React(clean, x.env.republish_cb)
           a2 == produce_new_tlvs(told)
           own == x.node[x.own_node]
           w == [told EXCEPT !.republish_tlvs = FALSE, !.tlvs_dirty = FALSE]
           u == (own.update_number + 1) % UpdateMod
           d == IF a2 # NoData THEN a2
                ELSE IF a # NoData THEN a ELSE own.tlv_container
           y == dncp_node_set(w, x.own_node, u, x.time, d)
<1>1. x \in Typed BY DEF Core
<1>2. clean \in Typed /\ Same(x, clean) BY <1>1, ZenonT(40) DEF Typed, Same
<1>3. Core(clean) BY <1>2, SameKeepsCore
<1>4. x.env.republish_cb \in AnyReply BY <1>1 DEF Typed, AnyEnv
<1>5. told \in Typed /\ Same(x, told)
  <2> HIDE DEF clean
  <2> QED BY <1>2, <1>4, ReactSame, SameIsTransitive
<1>6. Core(told) BY <1>5, SameKeepsCore
<1>7. own \in NodeRecord BY <1>1 DEF Typed
<1>8. u \in 0 .. UpdateMod - 1 /\ u # own.update_number
  <2>1. own.update_number \in 0 .. UpdateMod - 1 BY <1>7 DEF NodeRecord
  <2> QED BY <2>1, NextUpdateNumber
<1>9. d \in Data
  <2>1. a \in Data BY <1>1 DEF produce_new_tlvs, Typed, Data
  <2>2. a2 \in Data
    <3> HIDE DEF told
    <3> QED BY <1>5 DEF produce_new_tlvs, Typed, Data
  <2> QED BY <2>1, <2>2, <1>7 DEF NodeRecord
<1>10. /\ w \in Typed /\ w.node = x.node /\ w.own_node = x.own_node
       /\ w.known = x.known /\ w.time = x.time /\ w.last_prune = x.last_prune
       /\ w.next_prune = x.next_prune
  <2> HIDE DEF told
  <2> QED BY <1>5, ZenonT(40) DEF Typed, Same
<1>11. x.own_node \in NodeId /\ x.time \in Int BY <1>1 DEF Typed
<1>12. dncp_self_flush(x) = IF a = NoData /\ ~x.republish_tlvs THEN clean ELSE y
  BY Zenon DEF dncp_self_flush, next_update_number
<1> HIDE DEF w, u, d
<1>13. NodeUpdate(w, x.own_node, u, x.time, d, y)
  BY <1>8, <1>9, <1>10, <1>11, NodeSetFact
<1> HIDE DEF y
<1>14. FreedBlank(w) /\ HashesExact(w) /\ ClockOrder(w)
  BY <1>10 DEF Core, FreedBlank, HashesExact, ClockOrder
<1>15. Core(y) BY <1>10, <1>13, <1>14, NodeUpdateCore
<1>16. y.own_node = x.own_node /\ y.known = x.known /\ y.time = x.time
  BY <1>10, <1>13 DEF NodeUpdate
<1> HIDE DEF clean, a
<1> QED BY <1>2, <1>3, <1>12, <1>15, <1>16 DEF Same

\* trickle_set_i keeps its Trickle state in type, whatever random() returns.
LEMMA TrickleType ==
  ASSUME NEW t \in Trickle, NEW now \in Nat, NEW i \in Nat, NEW random \in Nat
  PROVE  trickle_set_i(t, now, i, random) \in Trickle
<1> DEFINE j == IF i < TrickleImin THEN TrickleImin
                ELSE IF i > TrickleImax THEN TrickleImax ELSE i
<1>1. j \in Nat /\ 2 <= j BY ConstAssumption
<1> HIDE DEF j
<1>2. j \div 2 \in Nat \ {0} BY <1>1, HalfType
<1>3. random % (j \div 2) \in 0 .. (j \div 2) - 1 BY <1>2, ModType
<1>4. now + (j \div 2) + (random % (j \div 2)) \in Nat BY <1>2, <1>3
<1>5. now + j \in Nat BY <1>1
<1>6. [t EXCEPT !.i = j, !.send_time = now + (j \div 2) + (random % (j \div 2)),
                !.interval_end_time = now + j, !.c = 0] \in Trickle
  BY <1>1, <1>4, <1>5, ZenonT(40) DEF Trickle
<1> QED BY <1>6 DEF trickle_set_i, j

\* Resetting Trickle leaves the nodes and the hash alone.
LEMMA TrickleResetSame ==
  ASSUME NEW x \in Typed
  PROVE  dncp_trickle_reset(x) \in Typed /\ Same(x, dncp_trickle_reset(x))
<1> DEFINE e2 == [e \in Ep |-> [x.ep[e] EXCEPT !.trickle =
                    trickle_set_i(@, x.time, TrickleImin, x.env.random[e])]]
<1>1. e2 \in [Ep -> Endpoint]
  <2> SUFFICES ASSUME NEW e \in Ep PROVE e2[e] \in Endpoint OBVIOUS
  <2>1. x.ep[e] \in Endpoint /\ x.time \in Nat /\ x.env.random[e] \in Nat
    BY DEF Typed, AnyEnv
  <2>2. x.ep[e].trickle \in Trickle /\ TrickleImin \in Nat
    BY <2>1, ConstAssumption DEF Endpoint
  <2>3. trickle_set_i(x.ep[e].trickle, x.time, TrickleImin, x.env.random[e]) \in Trickle
    BY <2>1, <2>2, TrickleType
  <2> QED BY <2>1, <2>3 DEF Endpoint
<1>2. dncp_trickle_reset(x) = [x EXCEPT !.ep = e2]
  BY Zenon DEF dncp_trickle_reset
<1> HIDE DEF e2
<1> QED BY <1>1, <1>2 DEF Typed, Same

\* The network hash of typed pairs is typed.
LEMMA NetworkHashType ==
  ASSUME NEW D \in SUBSET NodeId, NEW f \in [D -> (0 .. UpdateMod - 1) \X Data]
  PROVE  NetworkHash(f) \in HashSet
<1>1. ASSUME NEW n \in D PROVE Cardinality({m \in D : m < n}) \in Nat
  <2>1. {m \in D : m < n} \in SUBSET NodeId OBVIOUS
  <2>2. IsFiniteSet({m \in D : m < n}) BY <2>1, ConstAssumption, FS_Subset
  <2> QED BY <2>2, FS_CardinalityType
<1>2. DOMAIN f = D /\ \A n \in D : f[n] \in (0 .. UpdateMod - 1) \X Data OBVIOUS
<1>3. NetworkHash(f) = {<<Cardinality({m \in D : m < n}), f[n]>> : n \in D}
  BY <1>2, Zenon DEF NetworkHash
<1>4. \A n \in D : <<Cardinality({m \in D : m < n}), f[n]>>
                     \in Nat \X ((0 .. UpdateMod - 1) \X Data)
  BY <1>1, <1>2
<1>5. ASSUME NEW v \in NetworkHash(f) PROVE v \in Nat \X ((0 .. UpdateMod - 1) \X Data)
  <2>1. PICK n \in D : v = <<Cardinality({m \in D : m < n}), f[n]>> BY <1>3, <1>5, Zenon
  <2> QED BY <2>1, <1>4, Zenon
<1> QED BY <1>5 DEF HashSet

\* dncp_calculate_network_hash makes the network hash the hash of the current
\* state of the reachable nodes.
LEMMA CalculateCore ==
  ASSUME NEW x, Core(x)
  PROVE  /\ Core(dncp_calculate_network_hash(x))
         /\ dncp_calculate_network_hash(x).own_node = x.own_node
         /\ dncp_calculate_network_hash(x).known = x.known
         /\ dncp_calculate_network_hash(x).time = x.time
<1> DEFINE f == [n \in Reachable(x) |->
                   <<x.node[n].update_number, NodeDataHash(x.node[n])>>]
           h == NetworkHash(f)
           nodes == [n \in NodeId |->
                       IF n \in Reachable(x)
                       THEN [x.node[n] EXCEPT !.node_data_hash = NodeDataHash(x.node[n]),
                                              !.node_data_hash_dirty = FALSE]
                       ELSE x.node[n]]
           y == [x EXCEPT !.node = nodes, !.network_hash = h,
                          !.network_hash_dirty = FALSE]
<1>1. x \in Typed BY DEF Core
<1>2. Reachable(x) \in SUBSET x.known /\ x.known \in SUBSET NodeId
  BY <1>1 DEF Reachable, Typed
<1>3. \A n \in NodeId : x.node[n] \in NodeRecord BY <1>1 DEF Typed
<1>4. \A n \in x.known : NodeDataHash(x.node[n]) = DataHash(x.node[n].tlv_container)
  BY DEF Core, HashesExact, NodeDataHash
<1>5. \A n \in NodeId : DataHash(x.node[n].tlv_container) \in Data
  <2> TAKE n \in NodeId
  <2>1. x.node[n].tlv_container \in Data BY <1>3 DEF NodeRecord
  <2> QED BY <2>1, TlvsType DEF DataHash, Data
<1>6. f = HashedPairs(x) BY <1>2, <1>4 DEF HashedPairs
<1>7. f \in [Reachable(x) -> (0 .. UpdateMod - 1) \X Data]
  BY <1>2, <1>3, <1>4, <1>5 DEF NodeRecord
<1>8. h \in HashSet BY <1>2, <1>7, NetworkHashType
<1>9. nodes \in [NodeId -> NodeRecord]
  BY <1>2, <1>3, <1>4, <1>5, ZenonT(40) DEF NodeRecord
<1>10. \A n \in NodeId :
         /\ nodes[n].update_number = x.node[n].update_number
         /\ nodes[n].tlv_container = x.node[n].tlv_container
         /\ nodes[n].last_reachable_prune = x.node[n].last_reachable_prune
         /\ n \in Reachable(x) => nodes[n].node_data_hash = NodeDataHash(x.node[n])
         /\ n \notin Reachable(x) => nodes[n] = x.node[n]
  BY <1>3 DEF NodeRecord
<1>11. dncp_calculate_network_hash(x) = IF ~x.network_hash_dirty THEN x
         ELSE IF h # x.network_hash THEN dncp_trickle_reset(y) ELSE y
  BY Zenon DEF dncp_calculate_network_hash
<1> HIDE DEF h, nodes, f
<1>12. y \in Typed BY <1>1, <1>8, <1>9, ZenonT(40) DEF Typed
<1>13. /\ y.node = nodes
       /\ y.known = x.known
       /\ y.own_node = x.own_node
       /\ y.time = x.time
       /\ y.last_prune = x.last_prune
       /\ y.next_prune = x.next_prune
       /\ y.network_hash = h
  BY <1>1 DEF Typed
<1> HIDE DEF y
<1>14. Reachable(y) = Reachable(x) BY <1>2, <1>10, <1>13 DEF Reachable
<1>15. HashedPairs(y) = HashedPairs(x)
  BY <1>2, <1>10, <1>13, <1>14 DEF HashedPairs
<1>16. HashCurrent(y) BY <1>6, <1>13, <1>15 DEF HashCurrent, h
<1>17. FreedBlank(y) BY <1>2, <1>10, <1>13 DEF Core, FreedBlank
<1>18. HashesExact(y) BY <1>2, <1>4, <1>10, <1>13 DEF Core, HashesExact
<1>19. ClockOrder(y) BY <1>2, <1>10, <1>13 DEF Core, ClockOrder
<1>20. Core(y) BY <1>12, <1>16, <1>17, <1>18, <1>19 DEF Core
<1>21. dncp_trickle_reset(y) \in Typed /\ Same(y, dncp_trickle_reset(y))
  BY <1>12, TrickleResetSame
<1>22. Core(dncp_trickle_reset(y)) BY <1>20, <1>21, SameKeepsCore
<1> QED BY <1>11, <1>13, <1>20, <1>21, <1>22 DEF Same
=============================================================================
