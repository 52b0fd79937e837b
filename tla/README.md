# TLA+ models of gossipgo

This directory holds TLA+ models of the gossip node in `src/gossip/`, the RPC
server, the engine flag parsing of `src/server/` and the kv clients of
`src/kv/`, the TLC
configurations that check them, and `PROJECT.json`. `PROJECT.json` lists every
component, every run, every mutant, the mapping of each definition to the
source lines it models, and the findings and hazards.

## 1. The system

A gossip node (`gossip.Gossip`, `src/gossip/gossip.go`) is made of one mutex,
`g.mu`, and three goroutines. `Start()` launches them:

* **serve**: the gossip RPC server (`gossip/server.go`, not under `src/`).
  It answers `Gossip.Gossip` requests with deltas of the infostore. It adds
  the sender to the `incoming` set. When the connection closes, the
  close callback of the RPC transport removes it (`rpc/server.go`
  `serveConn`).
* **bootstrap** (`gossip.go:305-330`): under `g.mu`, it starts a client to a
  random bootstrap host that is neither outgoing nor incoming. It does so
  when there is no outgoing client or the sentinel info is missing. It then
  sleeps in `g.stalled.Wait()`. It leaves its loop when `closed` is set.
* **manage** (`gossip.go:342-404`): a `select` on the `g.disconnected`
  channel and a periodic tick.
  * A disconnected client is removed from `g.outgoing` and `g.clients`. If it
    was forwarded, a client to the alternate address is started.
  * A tick looks for *distant* peers, whose infos arrive with more than
    `maxToleratedHops()` hops. It starts a client to one of them if
    `len(outgoing) < MaxPeers`; otherwise it closes the least useful
    outgoing client.
  * After either case it signals `stalled`, if there is no outgoing client and
    a bootstrap host is available, or if the sentinel is missing. Otherwise,
    the first time, it closes `Connected`. It exits once `closed` is set and
    `outgoing` is empty.
* **client goroutines** (`src/gossip/client.go`): one per outgoing address.
  * A client dials with a timeout. It then loops:
    1. It stops if the peer is already an incoming client and our address
       sorts lower.
    2. It sends a delta.
    3. It waits on the reply, a `2*gossipInterval` timeout or its `closer`
       channel.
    4. It follows a forward, or merges the reply's delta.
    5. It stops when the peer has been boring for too long.
  * It ends by sending itself on `g.disconnected`, a channel of capacity
    `MaxPeers`.
* **Stop()** (`gossip.go:231-238`) sets the server's `closed` flag and signals
  `stalled`. It then calls `closeClient` on a snapshot of `outgoing`,
  without holding `g.mu`.

Outside the gossip package:
* `server.go` builds the node's storage engines from `-data_dirs`.
* `kv.DistDB` answers each `Get`, `Put` or `Increment` from a goroutine.
  The goroutine reads the first range's replicas and node addresses from
  gossip, looks the key up in two levels of range metadata over RPC,
  calls the key's node, and sends one reply on a buffered channel.
* `kv.LocalDB` does the same against a local range, synchronously.

The infostore, groups and address sets (`infostore.go`, `group.go`,
`addrset.go`, `server.go` of the gossip package) are not in `src/`. Only
`spec.md` describes them.

## 2. Modules

| Module | Models | State | Actions |
|---|---|---|---|
| `GossipNode` | coordinator and client goroutines of one node; peers, our server and the infostore as environment | `mu`, `boot`, `mgr`, `stopper`/`toClose`, `closed`, `hasConnected`, `outgoing`, `incoming`, `clients`, `disconnected` (a sequence), `cl` (client goroutines by slot), `sentinel`, `distant`, `panicked` | `bootstrap`, `bootstrapWake`, `manageDisconnected`, `manageTick` (each ending in `manageEpilogue`), `clientDial`, `clientRequest`, `clientAwait`, `clientDone`, `stopServing`, `stopSignal`, `stopClose`, `stopEmpty`, and the environment's `incomingConnect`, `incomingClose`, `sentinelAdded`, `sentinelExpired`, `distantChanged` |
| `RpcServer` | `src/rpc/server.go`; its owner (`server.go` newServer/start/stop, `SimulateNetwork`); the gossip server's use of the close callback | `own` (the owner's program point), `lsn` (ListenAndServe's program point), `ln` (the OS listener), `listener` (the field `s.listener`), `listening`, `closed`, `registered`, `conns`, `incoming`, `panicked` | `listenOk`, `listenFail`, `signalListening`, `assignListener`, `acceptConn`, `acceptError`, `serveConnDone`; the owner's `newServer`, `newServerFail`, `serverStart`, `serverRun`, `serverStop`, `simNewServer`, `simNewGossip`, `simClose` (using `registerGossip`, `spawnListener`, `Close`); and the peers' `dial`, `gossipRequest`, `hangUp` |
| `InfoOps` | the pure operations of `src/gossip/info.go`, `maxToleratedHops`, and the only `Ordered` type: `StoreAttributes.Less` and `PercentAvail` of `src/storage/config.go` over `RocksDB.capacity` | none: operators only | `infoPrefix`, `less`, `expired`, `isFresh`, `ceilLog`, `maxToleratedHops`, `Capacity`, `FloatQuo`, `FloatLt`, `PercentAvail`, `StoreLess` |
| `InfoStore` | the groups of a node's infostore as `Gossip.RegisterGroup`, `AddInfo` and `GetGroupInfos` (`src/gossip/gossip.go`) reach them; admission and eviction from the spec | `registered`, `infos` (keys of the plain map), `members` (group members' values), and the history `discarded` | `RegisterGroup`, `AddInfo` (plain map, in-place update, join, evict or reject); `GetGroupInfos` is an operator |
| `GossipExchange` | the data of gossip sessions: `client.gossip` (`client.go:97-159`), `Gossip.AddInfo`, and, from the spec, the infostore's `delta`/`combine` and the gossip server's handler | `store` (per node and key: timestamp, origin, peer, hops, seq), `seqNo`, per session `ph`, `lmax` (localMaxSeq), `rmax` (remoteMaxSeq), `msg` (request or reply in flight); `incoming`, `faults`, and the history `versions` | `AddInfo`, `clientStart`, `clientRedundant`, `clientRequest`, `serverFirstContact`, `serverReceive`, `serverReply`, `clientReply`, `clientTimeout`, `clientBored`, `connClosed` |
| `Dissemination` | what gossip promises of the infostores; `GossipExchange` states eventual consistency through it (`Converges` over its mapping) | `know` (per node and key: timestamp and origin), `versions` | `Publish`, `Learn` |
| `EngineSpec` | the `-data_dirs` engine specifications of `src/server/server.go` (`dataDirRE`, `initEngine`, `initEngines`), `runInit` of `src/server/init.go`, and `storage.NewRocksDB` | none: operators only; `Readable` (a constant) is the data directories `Statfs` can read | `split`, `FindStringSubmatch`, `ParseInt`, `NewRocksDB`, `initEngine`, `initEngines`, `runInit` |
| `KvDB` | what the `kv.DB` interface promises: each call's channel gets exactly one reply, eventually | `state` (idle, pending, ok, error), `received` | `Issue`, `Answer`, `Receive` |
| `DistDB` | `src/kv/db.go`: `sendRPC`'s goroutine with `lookupMeta1`, `lookupMetadata`, `nodeIDToAddr`, `lookupMeta2`, `getNode`, and `PutI`'s read; gossip's first range and node address infos as environment | `firstRange`, `addrs`, per call `pc`, `stage`, `cands`, `err`, `reply`, `received`, and the history `served` | `sendRPC`, `lookupMeta1`, `pickReplica`, `lookupCall`, `nodeCall`, `sendReply`, `receiveReply`, `gossipChange` |
| `LocalDB` | `src/kv/local_db.go` `invokeMethod` | `lpc`, `lreply`, `lreceived` | `invoke`, `callRange`, `receive` |
| `MC_GossipNode`, `MC_RpcServer`, `MC_InfoOps`, `MC_GossipExchange`, `MC_EngineSpec`, `MC_KvClient` | model values, small sets and symmetry for TLC; `MC_InfoOps` instantiates `InfoStore` with store-capacity and int64 groups and states the reference definitions | | |

Correspondence with the code (GossipNode):

* **Critical sections.** Each critical section under `g.mu` is one atomic
  action guarded by `mu = "none"`. `mu` names a goroutine only when that
  goroutine leaves its loop still holding the lock. The two cases are
  bootstrap at `gossip.go:309-310` and manage at `gossip.go:396-397`.
* **Bootstrap list.** `SetBootstrap` runs before `Start`, as every caller
  does, and its result is the initial `bootstraps`. This list can hold our
  own address (`SimulateNetwork` passes every node the same list).
  `parseBootstrapAddresses` is the bootstrap goroutine's first step under
  `g.mu`: it adds the `-gossip_bootstrap` addresses and removes `Self`.
* **Client goroutines.** These are identified by *slots*. `cl[s]` holds the
  goroutine's program point (`dial`, `ready`, `await`, `exit`, `queued`),
  its address, whether its `closer` was closed, and its forward address.
  `g.clients` maps an address to a slot. This is what lets the model see
  two goroutines for one address.
* **The disconnected channel.** `g.disconnected` is a sequence bounded by
  `MaxPeers`. `clientDone` blocks when it is full, as `done <- c` does.
* **Panics.** A `closeClient` of an address with no entry in `g.clients`
  (a nil `*client`) sets `panicked`. Every action then stops.
* **Infostore.** It is abstracted to what the coordinator reads from it:
  * the sentinel's presence, added by `AddInfo` and removed by TTL expiry;
  * the `distant` set, which the environment changes freely.

  `leastUseful` is a free choice among `outgoing`.
* **Remote peers.** Each step of a remote peer is a free choice among what
  it can do: a reply, an error, a timeout, a forward or a boring peer.

RpcServer: each section under `s.mu` is one atomic action. The owner is
one of the two programs that drive a server, chosen in `Init` (`own`):
* `runStart` (`server.go`): `newServer` resolves `-rpc_addr` and calls
  `gossip.New`, which registers the close callback (`newServer`). A
  resolve error is only logged, and `start` on the nil server panics
  (`newServerFail`, with `ResolveMayFail`). `start` spawns the listener
  goroutine (`serverStart`). `node.start` may fail and `http.ListenAndServe`
  either serves for good or fails (`serverRun`). On an error, `stop` ends
  in `Close()` (`serverStop`).
* `SimulateNetwork`, for one of its servers: `NewServer` and the listener
  goroutine (`simNewServer`), then `gossip.New` and the cycles
  (`simNewGossip`), then `Close()` (`simClose`).

So registration comes before the listener goroutine in `runStart` and
after it in the simulation. `Close()` is called once, after registration.
`s.listener` is written without the lock, so `Close()` may run before that
write. In `runStart`, this takes only an HTTP address that is already in
use. The gossip server's registration of a sender as incoming
(`gossipRequest`) comes from the spec, since that code is not in `src/`.

GossipExchange:
* A session is a directed link `<<a, b>>`: `a`'s client loop against
  `b`'s gossip server. `ph` is its program point: `idle`, `ready` (top of
  the loop), `request` (in flight), `waiting` (the server's jittered wait),
  `reply` (in flight), `closing` (the client returned; the connection's
  close callback has not run yet).
* `clientRedundant` and `clientRequest` are the two outcomes of the top of
  the loop. `clientRequest` computes the delta since `localMaxSeq` under
  `g.mu`, advances `localMaxSeq` when it is not nil, and sends
  `remoteMaxSeq`. `clientReply` combines a non-nil reply delta and only
  then takes its `MaxSeq`.
* The server (spec section 4.4) merges the request's delta and registers
  the sender. On `MaxSeq = -1` it replies at once with `delta(sender, -1)`
  of the merged store; otherwise it waits and replies with
  `delta(sender, MaxSeq)`. The admission redirect is in `GossipNode`.
* `delta` and `combine` follow spec section 4.1, with origin and peer
  filters, strictly-newer freshness, one more hop and a new seq. The fresh
  infos of one `combine` share one seq. They enter under one lock, so no
  watermark can fall between them.
* Faults: a timeout in any of the three in-flight phases covers a lost
  request, a server still waiting and a late or lost reply. A boring peer
  ends a session at the top of its loop. Both are bounded by `MaxFaults`.
  The coordinator restarts a session with `localMaxSeq = 0` and
  `remoteMaxSeq = -1`. It does so only for a peer that is not incoming,
  as `filterExtant` requires.
* Infos never expire here, and values are left out: a version is its
  timestamp and origin.
* `Abs` maps `know[n][k]` to the timestamp and origin of `store[n][k]`,
  and `EventuallyConsistent` is Dissemination's `Converges` under that
  mapping. The step refinement (`Abs!Spec`) is not checked: its `Learn`
  accepts any newer published version, so it would follow from the
  spec-modelled strictly-newer check in `combine` alone.

InfoOps:
* Keys are sequences over `{a, b, .}`, so `strings.LastIndex` is modelled by
  what it does.
* `maxToleratedHops` uses the exact ceiling of the logarithm. The rounding of
  Go's float quotient is not modelled.
* A missing `KeyNodeCount` info falls back to `defaultNodeCount` = 1000.
* A float64 quotient is a record: a number kept as numerator and
  denominator, `+Inf`, or NaN. `FloatQuo(a, 0)` is NaN for `a = 0` and
  `+Inf` otherwise (a capacity is never negative). `FloatLt` is false
  whenever either side is NaN, as Go's `<` is. `Capacity` is
  `RocksDB.capacity`: block size times blocks and times available blocks;
  a `Statfs` error returns the zero capacity, which is the zero-blocks case.

InfoStore:
* `infostore.go` and `group.go` are not in `src/`. Admission and eviction
  follow spec sections 3 and 4.1: a MIN group keeps its `limit` smallest
  values, a MAX group its `limit` largest, by `info.less`.
* `Worst(p)` is the set of members no other member is worse than; the
  group's scan may end on any of them. A full group evicts one for a new
  key unless that member is strictly better than the new value, in which
  case the add is rejected.
* A member's value is replaced in place; earlier evictions and rejections
  of that group no longer bind the new value, so `discarded` drops them.
* Keys of unregistered prefixes go to the plain map. Only their presence
  is kept: no property compares their values. TTLs are left to
  GossipExchange.

EngineSpec:
* Strings are sequences of one-character strings. `strings.Split` and the
  regular expression are modelled by what they do.
* `FindStringSubmatch` follows Go's leftmost-first semantics for
  `dataDirRE`. The first alternative, `mem=` and a greedy run of digits,
  is anchored at the start only. The second, `ssd=` or `hdd=` and the rest
  of the string, is anchored at the end only. A match is the whole text
  and four groups, with `""` for a group that did not take part. Go's
  `matches[j]` is element `j + 1` of the sequence.
* `initEngine` keeps its checks in the code's order: the count of
  submatches, the `mem` branch with `ParseInt`, the switch on the disk
  type, and `NewRocksDB`'s capacity check.

DistDB and LocalDB:
* A call is a request id. `pc` is the goroutine's program point: `meta1`
  (`GetInfo` of the first range), `pick` (`ChooseRandomReplica` and
  `nodeIDToAddr`), `lookup` (`Node.InternalRangeLookup`), `call` (the
  header assertion and the method on the key's node), `send`, `sent`. `stage` says which of the two
  metadata lookups, or the final node choice, the next pick is for.
* Every error return of the chain sets `err` and goes to `send` (`Fail`).
  The reply's `Error` is set from `err` and the reply is sent once, on a
  channel with room for it.
* The range servers are not in `src/`, so a lookup either fails or
  answers with the constant `Meta1Locs` or `Meta2Locs`. Gossip's infos
  change at any step.
* With the node found, `args.(*storage.RequestHeader)` panics:
  Get, Put and Increment pass `*GetRequest`, `*PutRequest` and
  `*IncrementRequest`, structs that embed `RequestHeader` (as
  `InternalRangeLookupRequest` does at `db.go:82-86`), so the dynamic type
  is never `*RequestHeader`. `nodeCall` sets `crashed`, and no step of the
  process follows.
* `KvState` maps a call to the interface's view: idle before `sendRPC`,
  pending until the channel holds the reply, then ok or error.
  `MC_KvClient` runs both implementations side by side, as
  `D == INSTANCE DistDB` and `L == INSTANCE LocalDB`. LocalDB gets no
  property: `invokeMethod` is straight-line code ending in an
  unconditional `Send`, so the interface's promise holds by its shape.

## 3. Runs

| Run | cfg | Expect | Properties | Shows |
|---|---|---|---|---|
| node_safety | `MC_GossipNode_safety.cfg` | pass | `TypeOK`, `OutgoingAccounting` | `g.outgoing`, `g.clients` and the live client goroutines stay consistent through forwards, closes, Stop and failures |
| node_rebootstrap | `MC_GossipNode_live.cfg` | pass | `Rebootstrap` | a node that loses all outgoing clients while a bootstrap host is free gets one again |
| node_close_missing_client | `MC_GossipNode_closemissing.cfg` | violation | `NoCloseOfMissingClient` | two ticks close the same least useful client; the second one panics on a nil client |
| node_done_blocks | `MC_GossipNode_doneblocks.cfg` | violation | `DoneNeverBlocks` | more than `MaxPeers` clients can be alive, so `done <- c` can block |
| node_stop_hangs | `MC_GossipNode_stop.cfg` | violation | `ManageExitsAfterStop` | bootstrap keeps `g.mu` after Stop, and manage never finishes |
| rpc_server | `MC_RpcServer_live.cfg` | pass | `IncomingBacked`, `ServeLoopExitsAfterClose` | the gossip server's incoming set names only peers with an open connection, whatever the order of registration, accepts and hang-ups; after `Close()` the accept loop ends |
| rpc_nil_listener | `MC_RpcServer_nilclose.cfg` | violation | `NoNilListener` | `Close()` before the listener goroutine assigned `s.listener` panics |
| infostore | `MC_InfoOps_ops.cfg` | pass | `PrefixIsGroupName` | `infoPrefix` matches the spec's group name (the text before the last dot) for every key up to length 5, and for every key the store holds while groups are registered and filled |
| exchange_pair | `MC_GossipExchange_live.cfg` | pass | `EventuallyConsistent`, `LinkPersists` | two nodes that dial each other end with equal stores through lost requests, late replies, timeouts and boredom; the redundancy tie-break leaves one session open |
| exchange_relay | `MC_GossipExchange_relay.cfg` | pass | `WatermarksSound`, `EventuallyConsistent` | `n1`'s key reaches `n2` directly and relayed through `n3`. No info falls under a watermark without reaching the other end, and the stores end equal |
| kv_client | `MC_KvClient.cfg` | violation | `DistRefinesKvDB` | a DistDB call whose node is found is never answered: the `RequestHeader` assertion panics and the process ends with the call pending |
| engine_spec_rejected | `MC_EngineSpec.cfg` | violation | `DocumentedSpecsServe` | `ssd=/`, the documented form, yields no engine: `initEngine` rejects every specification |

### Bounds

The GossipNode runs use 2 peers. In node_safety the bootstrap host comes
from `-gossip_bootstrap` and the `SetBootstrap` list is our own address
alone. In the other runs the `SetBootstrap` list is the host plus our own
address.

* **node_safety**
  * 2 peers: one a bootstrap host, one sorting above us.
  * `MaxPeers = 1` and 2 client slots.
  * About 1.5 million distinct states.

  One slot more than `MaxPeers` is what lets a forward, a bootstrap beyond
  `MaxPeers`, or a closed client still draining coexist with a new client.
  `MaxPeers = 1` makes every tick with a distant peer take the close branch.
  The two peers cover every redundancy-check outcome.
* **node_rebootstrap**
  * The same peers, with `MaxPeers = 2`, so that `disconnected` never
    blocks.
  * No Stop, and no symmetry, because the property is a liveness property.

* **RpcServer runs**
  * 3 connections from 2 peers, two of them from the same peer, so that one
    connection of a peer closes while another is served.
  * One run lets both `Listen` and `Accept` fail.
* **GossipExchange runs**
  * Timestamps 1..2 and at most 2 faults.
  * With two timestamps, a newer version can overtake an older one in
    flight, and an info can be replaced after a watermark passed it.
  * exchange_pair: nodes `n1 < n2` dial each other, one key published at
    each. The two nodes let the tie-break and the stale incoming entry
    between a client's exit and its close callback happen. Two keys. About
    370,000 distinct states.
  * exchange_relay: links `n1 -> n2`, `n1 -> n3` and `n3 -> n2`, with one
    key published at `n1`. With two nodes, every info a node holds was
    published either by that node or by its one peer, and it arrives on one
    path only. Then neither the watermarks of a relayed info nor the
    freshness check of `combine` is ever tested. Two paths from the publisher
    to `n2` test both. A second key here takes the run past 6 million
    states, even with 1 fault. About 126,000 distinct states.
* **engine_spec_rejected**: every flag of up to three pieces from `mem`,
  `ssd`, `hdd`, `=`, `0`, `1` and `/`, plus two-entry flags. There are
  404 flags, and they include every documented form on two paths. With
  `len(matches) != 5` and the disk branch reading groups 3 and 4, all of
  them pass. So the property pins down exactly these two lines.
* **kv_client**:
  * DistDB has two calls and two nodes. The first range is on `n1`, and the
    key's range is on `n1` and `n2`. Gossip starts in, and moves between,
    every combination of first-range info (absent, or any replica list,
    the empty one included) and live node addresses.
  * So every failure path happens: no info, no replica, an expired
    address, and a failing lookup, each ending in an error reply; and so
    does a found node, which reaches the assertion. TLC's trace answers
    one call with an error and then crashes on the other.
  * LocalDB has one call.
* **infostore**: the probes cover every key of up to 5 characters,
  with zero, one and several dots. They are checked once, as constants.
  * The store has a MAX group `s` with limit 2 and three keys, so a third
    key meets a full group. Each key's values are store capacities of
    block size 1, with 0 (`FewBlocks`, a `Statfs` failure) or 2 blocks and
    0..2 available.
  * A MIN group `n` with limit 1 and two keys, values 1..2.
  * Adds and registrations interleave in every order: a key added before
    its group is registered goes to the plain map. About 267,000 distinct
    states.

### Fairness

`FairSpec` gives weak fairness to each goroutine step, wrapped as
`Alive(A) == ~panicked /\ A`. This is justified because:

* the Go scheduler eventually runs a runnable goroutine;
* `time.Tick` keeps firing;
* a `select` with a ready case eventually takes it;
* a client's wait is bounded by its timeouts.

`bootstrap` has strong fairness. This is only because the model's slot
bound can disable it while no slot is free.

In RpcServer, the listener and `serveConn` goroutines are weakly fair, and
an `Accept` on a closed listener returns at once. A transient `Accept`
error on an open listener is a fault, and the scheduler does not promise
one, so fairness leaves it out (`Scheduled`).

In GossipExchange each session's steps are weakly fair: client, server,
and the coordinator's re-dial (`Session(l)`). This is justified because:

* the goroutines run when they can;
* the server's jittered wait ends;
* the coordinator re-dials a lost peer that is a bootstrap host (node_rebootstrap).

In DistDB each call's goroutine is weakly fair (`Goroutine(r)`). This
assumes that each RPC `Call` returns, with a result or an error. The rpc
client is not in `src/`. Callers and gossip get no fairness; the
process, once crashed, takes no step. LocalDB's
`invokeMethod` runs to its end in the caller's goroutine.

Publishing, timeouts and boredom get no fairness and are bounded, so
convergence is claimed only once they stop. The owner gets no
fairness, and neither do the peers.

Remote peers, the sentinel's TTL and the distant set get no fairness. The
liveness properties must hold whatever the network does.

### Findings

Each violation run is a disagreement between the code and its spec or
comments. `PROJECT.json` "findings" lists them in full.

1. **A double `closeClient` panics.** `closeClient` deletes the map entry,
   but the address stays in `g.outgoing` until the client reports. A
   dialing client ignores its `closer`. The next tick can close the same
   address, and `c.close()` is then called on nil. `Stop()` reaches the same
   nil client.
2. **Stop never completes.** `bootstrap()` breaks out of its loop holding
   `g.mu`. Separately, `g.exited` is never made, so the final send blocks.
   That second issue is a hazard with no run, since it holds in every
   behaviour.
3. **`g.disconnected` can fill up.** Bootstrap starts clients past
   `MaxPeers` when the sentinel is missing. A forward to an address that is
   already outgoing orphans a client.
4. **`Close()` can dereference a nil listener.** `rpc.Server.Close()`
   dereferences a nil `s.listener` when it runs before the
   `ListenAndServe` goroutine assigned it. A failed `net.Listen` panics in
   the same way at `ln.Addr()`.
5. **No engine specification is accepted.** `dataDirRE` has four
   groups, so a match has five strings, but `initEngine` rejects any with
   `len(matches) != 3`. `initEngines` skips every entry and returns no
   error, so `cockroach start` runs with no storage. `runInit` calls
   `engine.Type()` before checking the error, so `cockroach init` panics.
   Past the count, the disk branch reads the digits group
   (`matches[2]`) as the disk type and the directory.
6. **No DistDB call can succeed.** Once `getNode` finds the node,
   `sendRPC`'s goroutine asserts `args.(*storage.RequestHeader)` on the
   `*GetRequest`, `*PutRequest` or `*IncrementRequest` it was given. The
   assertion panics, the process ends, and the call's channel never gets
   the reply `kv.DB` promises.

### Observations without a run

These came up while modelling. The project's run budget goes to the
findings above, so no violation run is kept for them:

* **A zero capacity breaks group order.** `PercentAvail`
  (`storage/config.go:73`) divides by the capacity, which is zero when
  `Statfs` reports no blocks or fails (`RocksDB.capacity` then returns the
  zero value). 0/0 is NaN, and every comparison with NaN is false, so a
  NaN store is neither better nor worse than any other and `Less` stops
  being a strict weak order. With `INVARIANT GroupKeepsBest` added to
  `MC_InfoOps_ops.cfg`, whose `FewBlocks = 0` already gives zero
  capacities, TLC finds it violated after five
  steps: register `s`, add a NaN store and a store at 1/2, add a second
  NaN store (both members count as worst, and the 1/2 store is evicted),
  then add a store at 0, which evicts a NaN member. The group now holds
  0 while 1/2 was evicted. No run keeps this: the eviction it goes
  through is modelled from the spec, since `group.go` is not in `src/`.
* **The `Ordered` interface comment reads the other way.** `info.go`
  documents `a.Less(b)` as true when `b` is less than `a`, while
  `info.less` and `StoreAttributes.Less` both use it as `a < b`. The
  models follow the code.
* **`runStart` ignores `newServer`'s error.** It logs the error and calls
  `s.start` on a nil server, which panics. RpcServer's `newServerFail`
  reaches `panicked` this way under `ResolveMayFail`. The nil_listener
  cfg turns the flag off, so its trace is the `Close()` race alone.

* **`ListenAndServe` returns on any `Accept` error.** Its comment says it
  runs until `Close()`. RpcServer's `acceptError` with `AcceptMayFail`
  reaches `exited` with `closed` false.
* **`maxToleratedHops` disagrees with its own comment.** The code and
  spec section 7 give `ceil(log n/log MaxPeers)*2+1`, which is 9 for ten
  nodes with `MaxPeers` = 2. Spec scenario 6 and the comment on
  `defaultNodeCount` (`gossip.go:86-88`) give `ceil(...)+1`, which is 5.
  InfoOps models the code; no run checks either formula, since a bound
  that holds only for the code's `*2+1` would hide the disagreement.
* **`Connected` fires with no outgoing client.** This happens when no
  bootstrap host is available and the sentinel is present
  (`gossip.go:390`). The spec (sections 8 and 4.5.2) says it fires only
  once outgoing is non-empty. GossipNode reaches it with no peers and one
  slot.
* **The range cache is never used.** `DistDB.rangeCache`'s comment says it
  is filled while servicing requests, but no code reads or writes it.
  Every call runs both metadata lookups.
* **Equal timestamps split the stores for good.** `combine` replaces only
  a strictly older timestamp. Two nodes that publish one key at the same
  wall-clock time each keep their own copy. The spec promises eventual
  consistency by greatest timestamp and does not say what happens on a
  tie. In this repository each key has one publisher, so no run keeps
  this. With `Publishers` = `k1 :> {n1, n2}` on exchange_pair's cfg,
  `EventuallyConsistent` fails.
* **First contact is repeated.** `remoteMaxSeq` changes only on a non-nil
  reply delta (`client.go:153`). A client whose replies stay empty keeps
  sending `MaxSeq = -1`, and the server answers each request at once.
  The comment at `gossip.go:49-50` says this is for the initial connection
  only. In GossipExchange, `serverFirstContact` fires for a client that has
  already had a reply. The result is a timing effect: the client polls in
  a loop with no wait until it is bored. The stores stay correct, as
  `WatermarksSound` shows.

Every property of a passing run has a mutant in `PROJECT.json`: a plausible
bug in the mapped action that TLC catches.

## 4. Plan

1. **`GossipNode`, `RpcServer`, `InfoOps`, `EngineSpec`, `KvDB`/`DistDB`/`LocalDB`**: done.
2. **`GossipExchange` with `Dissemination`'s convergence**: done for
   the delta/combine data of the sessions.
   * Still open: TTL expiry in deltas, hop counts feeding `distant`
     (the coordinator's tightening), and the admission redirect with real
     infostores.
3. **Infostore groups**: done (`InfoStore`). Still open: `maxHops`,
   `distant` and `leastUseful` over `GossipExchange`'s store.
4. **Composition**: a `Node` module that composes `GossipNode` with
   `RpcServer`. It shares `incoming` and takes `SimulateNetwork`'s order:
   close the servers, then stop the nodes.

## 5. Not modelled

* `src/server` beyond the engine specifications (HTTP handlers, gzip,
  command dispatch) and the vendored `go-commander`: sequential I/O.
* `src/structured`: a constructor only. In `src/kv`: `BootstrapRangeLocations`,
  which has no caller in `src/`, and the range servers behind the RPCs.
* `src/storage`: wrappers over storage engines, apart from `NewRocksDB`'s
  capacity check.
* `src/util`: logging and error formatting.
* Inside the gossip node:
  * the contents of infos;
  * timing beyond the order of events;
  * the data race of Go's map inside a single step.
