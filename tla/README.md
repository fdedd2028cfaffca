# A TLA+ model of hnetd

hnetd is a home network router daemon. Its nodes share state with DNCP, a
link-state-like protocol, and its HNCP profile builds prefix assignment, naming,
routing and elections on the shared state. This directory models it in TLA+.
Small instances are checked with TLC. Theorems for all instances are proved with
TLAPS.

Modelled so far is the core, one DNCP instance with everything that happens to
it. The rest is inventoried below and planned.

## The system

hnetd is one process with one thread. `uloop` runs one handler at a time to
completion: a timeout, a readable socket, an exited child. All concurrency is
between handlers, between nodes, and between a handler and the callbacks it makes
into other components.

| Part | Source | Module |
|---|---|---|
| Node table, own node, publishing, hashes | `dncp.c` | `DncpState` |
| Notifications to subscribers | `dncp_notify.c` | `DncpState`, `DncpTimeout` |
| Pruning, Trickle, keep-alives, the timeout | `dncp_timeout.c` | `DncpTimeout` |
| Messages | `dncp_proto.c` | `DncpNode` |
| HNCP profile: validity, collisions, constants | `hncp.c` | `DncpState`, `DncpTimeout`, `DncpNode` |
| Sockets | `hncp_io.c`, `udp46.c` | its calls are actions of `DncpNode`, its rounding of delays is in `DncpTimeout` |
| Trust verdicts, DTLS | `dncp_trust.c`, `dtls.c` | planned / not modelled |
| Prefix assignment | `pa_core.c`, `pa_rules.c`, `pa_filters.c` | planned |
| Prefix storage | `pa_store.c` | planned |
| HNCP prefix assignment | `hncp_pa.c` | planned |
| Interfaces, border discovery | `iface.c`, `hncp_set_enabled` | planned |
| Link, multicast, name elections | `hncp_link.c`, `hncp_multicast.c`, `hncp_sd.c` | planned |
| Routing and script scheduling | `hncp_routing.c`, `exeq.c` | planned |
| Tunnels, PD socket, WiFi, dump | `hncp_tunnel.c`, `pd.c`, `hncp_wifi.c`, `hncp_dump.c` | tunnels planned, rest I/O |
| Tries, bit and prefix helpers | `btrie.c`, `bitops.c`, `prefix*.c` | planned |
| TLV bytes, platform, daemon | `tlv.c`, `platform-*.c`, `hnetd.c` | not modelled (I/O, encoding) |

`PROJECT.json` lists every component, the source lines of every definition, and
the hazards of the code, including those no property covers yet.

## The modules

`DncpState` models `struct dncp_struct` as a record `o`. A C function that
changes the instance is an operator from record to record with the C name.
`dncp_node_set`, `dncp_self_flush` and `dncp_calculate_network_hash` are examples.

`DncpTimeout` has `dncp_prune` and `dncp_ext_timeout`. The latter is the
composition, in source order, of its stages: roll-over, flush, prune, hash,
endpoints, peers, re-arming. `_prune_rec` is the least set closed under
bidirectional, unexpired neighbours.

`DncpNode` has the variables, `Init` and the actions:

| Action | Code |
|---|---|
| `Tick` | the monotonic clock advances |
| `Timeout` | `dncp_ext_timeout` |
| `AddTlv`, `RemoveTlv` | `dncp_add_tlv`, `dncp_remove_tlv` by a component |
| `EpReady` | `dncp_ext_ep_ready` |
| `ReceiveMessage` | start of `handle_message`, NODE_ENDPOINT TLV |
| `ReqNetState`, `ReqNodeState`, `NetState`, `NodeStateTlv` | one further TLV |
| `FinishMessage` | end of `handle_message` |

A message is handled TLV by TLV and nothing else may run in between (`rx.busy`),
as in the code. A TLV the code ignores changes nothing and is not an action.

`MCDncpNode` holds the definitions the configurations use. `DncpStateProofs`,
`DncpTimeoutProofs` and `DncpNodeProofs` hold the proofs.

Definitions commented "Slip" are plausible mistakes. They are not used by the
specification. Each one replaces a definition to show that some property notices.

### Abstractions

- Node data is a set of TLVs, and a hash is the data itself (no hash collisions).
- Sending is only the time of the last transmission. Peers are unconstrained and
  may send any TLV of `RemoteStates` in any order, old ones included. For one
  receiver that covers loss, duplication and reordering.
- A received network state either is or is not equal to ours; both are tried.
- `random()` and the reactions of subscribers are chosen before a handler runs
  (`env`). One reaction serves all change callbacks of a handler.
- Once the own node has been freed, the behaviour ends (`Alive`): the code holds
  a pointer to freed memory.
- The Trickle counter stops at `TrickleK`, since only `c < k` is read.
- A node's KEEPALIVE_INTERVAL TLVs are looked at in the order in which nodes
  publish TLVs, and are whole: their bytes are not modelled.
- The shortest delay, 10 ms in `hncp_io.c`, is `MinDelay`. Properties about times
  allow for what it adds (`Rounding`).

### Left out of these modules

- Per-peer Trickle, reliable streams and `dncp_ext_ep_peer_state`: nothing under
  `src/` sets `unicast_only` or `unicast_is_reliable_stream`, or calls the last.
- Keep-alive intervals configured for own endpoints, and publishing them. What
  other nodes publish is modelled (`neighbor_interval`).
- The filters of `dncp_ext_readable`, but for the state of the endpoint. What they
  drop does not reach `handle_message`.
- The failures of `hncp_io_set_ifname_enabled`, which do not reach DNCP.
- Running out of memory, message size limits, malformed TLV lengths.
- A random new identifier that names a known node.
- The variant of `SET_NEXT` that ignores times in the past. It is compiled only at
  log level 8 and above; the default is 6.
- The TLV index, late subscription, `dncp_uninit`.

## What the runs check

All times, update numbers and bounds are small. Their order relations are those
of the code: `RollOverAge < ExpirationAge`, and `TrickleImin <= TrickleImax`. The
clock stops at `MaxTime`, so a behaviour may end and deadlock is not checked.

| Run | What happens | Properties |
|---|---|---|
| `table` | a chain of three nodes comes, is cut, is dropped | `TypeOK`, `NetworkHashCurrent`, `PruneMovesForward`, `SubscriberTlvsExact`, `TimerCoversDeadlines` |
| `collision` | own data comes back from the network, twice | `NetworkHashCurrent`, `SubscriberTlvsExact`, `PublishedAdvances` |
| `reactions` | subscribers publish from callbacks; late timeouts | `SubscriberTlvsExact`, `TimerCoversDeadlines`, `ChangesAreWoken` |
| `endpoint` | an endpoint flaps, peers come, change their interval and go, replies are delayed | `TimerCoversDeadlines`, `KeepaliveKept`, `PeersFresh` |
| `rollover` | own data ages past its roll-over until the update number wraps | `OwnNodeNeverPurged`, `OwnDataFresh`, `PublishedAdvances` |

- `NetworkHashCurrent`: a hash not marked dirty is the hash of the current state.
- `PruneMovesForward`: the assertion at the head of `dncp_prune` holds.
- `SubscriberTlvsExact`: applying the notifications gives the valid TLVs of the
  reachable nodes, no more and no less.
- `TimerCoversDeadlines`: the single timeout is always armed, at most `MaxDelay`
  ahead, and due or no later than any deadline. A dirty network hash and own data
  to republish find it due. Changed local TLVs and a changed graph need not.
- `ChangesAreWoken`: a handler other than the timeout that changes local TLVs or
  the data of a node leaves the timeout due. So `immediate_scheduled`, which
  suppresses wake-ups inside the timeout, never outlives it. What callbacks publish
  inside the timeout is the exception: it waits for the next wake-up.
- `PublishedAdvances`: own data never changes without a newer update number. The
  jump of a collision is newer than the received data. It is not always newer than
  the number it replaces: not when the network's is almost half the range ahead.
- `KeepaliveKept`: keep-alives and delayed replies go out on time.
- `PeersFresh`: silent peers are dropped on time, counted by the interval each
  publishes. These two and `OwnDataFresh` assume a loop that is never late
  (`Lateness = 0`).

Bounds. Three nodes are the least for a node reachable only through another. Two
messages are needed to learn of a chain and a third to cut it, hence three. Two
collisions reach the change of identifier, hence four messages there. The clock
runs past a grace period after the last message in `table`, past a Trickle
doubling and a peer timeout in `endpoint`, and past enough roll-overs in
`rollover` for the update number, modulo 4, to wrap. In `endpoint` `TrickleImin` is
4, so that a delayed reply can have two different times and an earlier one can
replace a later one, and a peer publishes intervals shorter and longer than the
default. `MinDelay` is 2 in `endpoint` and `rollover`, the least that rounds. In
`collision` the received numbers make the jump cross half the range. The interval
of `multiplier` is 10, the least for which 2.1 intervals are a whole number: there
2.1 * 10 = 21 and the code waits 20. With the multiplication by 100 done first,
the property holds.

### Where the code and its documentation differ

Each of these runs checks one property that states what a comment, a header or a
check in the code says, and TLC finds a behaviour of the code that violates it.

| Run | Statement | What happens |
|---|---|---|
| `node_removal` | `dncp.h:130` node_change_cb is called whenever a node is removed | a node last reachable longer than the grace period ago is freed without it |
| `own_rename` | `hncp_pa.c:1579` the own node changing is notified | `dncp_set_own_node_id` notifies nobody |
| `reply_hash` | `dncp_proto.c:503` hash and data agree | the reply to a request that flushed has the old hash |
| `removed_tlv` | `dncp.h:303` stop publishing a TLV | `republish_cb` restoring the published set publishes the outdated one |
| `own_purged` | `dncp_i.h:95` the own node is never purged | local churn postpones the roll-over for ever |
| `multiplier` | `hncp.h:44` 21/10 periods | the macro is evaluated as 2 |
| `zero_update` | `dncp.h:117` every TLV change is notified | not for a node at update number 0 |

Two more are left to the code's readers. Data accepted before the own node
published its version stays valid without a version TLV (`dncp.c:69`). A TLV that a
subscriber publishes from a callback inside the timeout has no wake-up of its own
and waits for the next one, at most `MaxDelay` (65 s) away (`dncp_timeout.c:279`).

The passing runs stay clear of two of these: `rollover` has no local churn, and
no remote state of `table`, `collision` or `reactions` has update number 0.

## Fairness

No liveness is checked yet. That the timer is always armed in time is stated as
safety (`TimerCoversDeadlines`). Liveness comes with the composition of nodes,
under weak fairness of `Timeout` (uloop runs every due timeout) and strong
fairness of delivery.

## What is proved

`DncpNodeProofs`, for all constants that satisfy the named assumptions:

- `TypeCorrect`: `Spec => []TypeOK`
- `PruneForward`: `Spec => []PruneMovesForward`
- `HashIsCurrent`: `Spec => []NetworkHashCurrent`
- `Invariance`: `Spec => []IInv`, which the three rest on

`NetworkHashCurrent` is not inductive. `IInv` adds three facts:

1. A node hash that is not dirty is the hash of the node's data (`HashesExact`).
   Otherwise recomputing the network hash would combine old node hashes.
2. `last_reachable_prune <= last_prune`, and `last_prune` is before the clock when
   a prune runs (`ClockOrder`). A prune sets `last_prune` to now, so a node that
   was not visited then cannot look reachable by accident.
3. The update number changes when own data is republished, which needs
   `UpdateMod >= 2`. So `dncp_node_set` cannot take its early return there, and the
   jump of a collision is covered as soon as it is republished.

The proofs follow the operators: `DncpStateProofs` and `DncpTimeoutProofs` have a
lemma for each, saying which fields it keeps and that it preserves the core of the
invariant. `DncpNodeProofs` has one step per action.

The assumptions are those on the constants: `ConstAssumption`, `DataAssumption`,
`TimeoutAssumption` and `NodeAssumption`. `MinPruneInterval` is positive,
`TrickleImin` is at least 2, the clock starts after 1, `MinDelay` is positive and
at most `MaxDelay`, published intervals fit the width of their field, and endpoint
identifiers are not 0.

Only model-checked: `SubscriberTlvsExact`, `TimerCoversDeadlines`,
`ChangesAreWoken`, `PeersFresh`, `KeepaliveKept`, `PublishedAdvances`,
`OwnNodeNeverPurged` and `OwnDataFresh`. `SubscriberTlvsExact` and
`PublishedAdvances` are not true for all constants. The first fails at update
number 0. The second needs `UpdateBump` to be less than half of `UpdateMod`, as 999
is of 2^32.

## Plan

Extending the model, in this order:

1. `DncpNet`: two and three `DncpNode` views joined by a lossy network that
   carries what `handle_message` replies. Convergence of network hashes as
   liveness, and a replicated map as the abstract specification it implements.
2. `PaCore`: the assignment routine and its timers, then two nodes on one link.
   No overlapping applied prefixes, and an assignment eventually applied.
3. `PaStore`: cache limits, write tokens, saving, failing to save, restarting.
   The abstract specification is a map that survives a restart.
4. `DncpTrust`: merging of verdicts, the limit on neutral ones, the publisher.
5. `HncpEndpoint`: border discovery in `iface.c`, `hncp_set_enabled` and its
   retries, driving `EpReady`.
6. Elections: `HncpLink` as a pure function of two views, `HncpMulticast` and
   router names in `HncpSd` with two nodes.
7. `HncpPa`: ULA and IPv4 prefix timers over the interface of `PaCore`.
8. `Exeq` and the scheduling of routing runs; tunnels.
9. `btrie.c`, `bitops.c` and `prefix.c` as operators, against set definitions.

Proving more:

1. `TimerCoversDeadlines` and `ChangesAreWoken`, with an invariant relating the timer,
   `immediate_scheduled` and each deadline.
2. `SubscriberTlvsExact`, assuming update numbers other than 0.
3. `PeersFresh` and `KeepaliveKept` for a punctual loop.
4. Safety of `PaCore`, `PaStore` and `DncpTrust`, and the refinements.

Liveness, `ENABLED` and induction over data stay with TLC.
