----------------------------- MODULE MCDncpNode -----------------------------
(***************************************************************************)
(* Instances of DncpNode for TLC.  The own node is 1; nodes 2 and 3 are    *)
(* peers on one link, endpoint 1 at every node.                            *)
(***************************************************************************)
EXTENDS DncpNode

CONSTANTS version, app

Link(m) == [node |-> m, ep |-> 1, peer_ep |-> 1]

State(n, u, age, d) ==
  [node |-> n, update_number |-> u, age |-> age, hash |-> d, data |-> d]

MCAppTLV == {version, app}
MCInitTLV == {version}
MCLocalTLV == {app}
MCPeers == {<<2, 1>>}
NoReactions == {NoData}

\* A chain 1 - 2 - 3 that node 2 may cut.
ChainStates ==
  {State(2, 1, 0, {Link(1), Link(3), version}),
   State(2, 2, 0, {Link(1), version}),
   State(3, 1, 0, {Link(2), app})}

\* Node 2 alone, at two update numbers, the newer one without the link.
PeerStates ==
  {State(2, 1, 0, {Link(1), version}), State(2, 2, 0, {version})}

\* Node 2 asks for a longer keep-alive interval for all its endpoints, then for
\* a shorter one for the endpoint that is heard.
Keepalive(ep, interval) == [ep |-> ep, interval |-> interval]
KeepaliveStates ==
  {State(2, 1, 0, {Link(1), Keepalive(0, 5)}),
   State(2, 2, 0, {Link(1), Keepalive(0, 5), Keepalive(1, 2)})}

\* Node 2 with an update number that has wrapped to 0.
ZeroStates == {State(2, 0, 0, {Link(1), version})}

\* Data of the own node from an earlier run, and an announcement without data.
\* Jumping past number 8 of 16 crosses half the range from 1, not from 2.
OwnStates ==
  {State(1, 3, 0, {app}), State(1, 8, 0, {app}),
   [node |-> 1, update_number |-> 5, age |-> 0, hash |-> {app}, data |-> NoData]}

CollisionStates == OwnStates \cup PeerStates

NoTLV == {}
SomeReactions == {NoData, {version}, {version, app}}
AnyReaction == {NoData} \cup SUBSET MCAppTLV
NoStates == {}
=============================================================================
