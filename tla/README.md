# A verification of the ThreeFold grid SDK

TLA+ models of the parts of this repository (a monorepo of TypeScript packages)
that keep state across awaits, their checks with TLC, and proofs with TLAPS.
Paths below are relative to `src/packages/`.

The SDK is the client side of the ThreeFold grid. A program that uses it runs
somewhere (node or a browser) and acts for one *twin*. Workloads run on *zos
nodes*; who may run what is decided by contracts on *TFChain*, a Substrate
chain; nodes are spoken to through *RMB*, a relay of signed messages. Nothing
coordinates the three but the client, so its order of calls, its rollbacks and
its timeouts are what keeps contracts and workloads together.

## Inventory

### Twin deployment handler

`grid_client/src/high_level/twinDeploymentHandler.ts`, with
`grid_client/src/primitives/deployment.ts` and `grid_client/src/modules/base.ts`

* State: `contracts.created`, `.updated`, `.deleted` of a call;
  `original_deployments` and `deploymentFactory` of the handler object, which
  the calls of one module share; on the chain the contracts and the hash each
  carries; on the nodes the deployments.
* Operations: `handle` = `merge`, `validate`, `checkNodesCapacity`,
  `checkFarmIps`, `PrepareExtrinsic`, `applyAllExtrinsics`, `sendToNode`,
  `waitForDeployments`, `saveNetworks`, `rollback`.
* Interaction: one `batchAll` of the chain client for creations and updates,
  one RMB request for each deployment, a second `batchAll` for deletions, then
  polling of the nodes; `rollback` reads nodes, applies a third `batchAll` and
  sends again. The modules (`machines`, `k8s`, `zdb`, `gateway`, ...) compute the
  operations from what the nodes hold now and save the result afterwards.
* Hard: any await may throw; several calls run at a time; a request that timed
  out may still arrive; a batch may be included although its submission threw.
* Correct if: a failed call leaves no contract of its own; nothing that a call
  did not make is cancelled, except at its request; deletions come last;
  a rollback puts back what ran; the call ends.

### Chain client

`tfchain_client/src/client.ts`, `utility.ts`

* State: `Client.lock` (static, of the process) and its queue; the nonce of the
  account; the subscription to the status of an extrinsic; the connection map of
  `QueryClient`.
* Operations: `applyExtrinsic`, `batch`, `batchAll`, `connect`, `newProvider`,
  `listenForEvent`.
* Hard: the nonce is read before an await and used after it; a batch is cut into
  chunks which are transactions of their own; the status callback knows one
  outcome (`isInBlock`) and nothing wakes it if the connection goes.
* Correct if: two tasks of a process do not take the same nonce; what is returned
  is what took effect; `batchAll` is all or nothing; every call settles.

### RMB direct client

`rmb_direct_client/lib/client.ts`

* State: the socket `con` and its `readyState`; the map `responses`;
  `connectingLock`; the ping timer.
* Operations: `connect`, `reconnect`, `disconnect`, `send`, `read`, `ping`, the
  ping loop, `onmessage`.
* Hard: one socket field that several waits, retries and closers replace; late
  and repeated answers; a peer that vanishes while the socket stays open.
* Correct if: each call gets one outcome; no entry of the map is forgotten; a
  dead connection is replaced; disconnecting waits for what is pending.

### Key-value store backend

`grid_client/src/storage/tfkvstore.ts`

* State: on the chain, pieces of at most `SPLIT_SIZE` characters under `key`,
  `key.1`, `key.2`, ...
* Operations: `set`, `remove`, `get`, `moveValue`, `list`. Writes are planned from
  what is read key by key, and applied later by `modules/base.ts`.
* Hard: the boundary between one piece and two; a longer value that was there
  before; a plan that is older than the store it is applied to.
* Correct if: what was written is what is read, and nothing else stays behind.

### Base module

`grid_client/src/modules/base.ts`, with what `modules/machines.ts` does before it calls it

* State: the static lists `newContracts` and `deletedContracts`, which all modules
  of the process share; `contracts` of the module; on the chain the contracts, on
  the nodes the deployments; the indexer's copy of the former.
* Operations: `getMyContracts`, `exists`, `_get`, `_update`, `_add`, `_delete`, `save`.
* Interaction: it lists with the indexer, reads chain and nodes, has the handler
  deploy, and writes the lists afterwards.
* Hard: the indexer lags behind, in both directions; calls overlap on the
  lists; the process stops between the handler's return and the save.
* Correct if: a name that is taken is not deployed again; a contract that is active
  is not written off while something runs on its node; update leaves what was wished for.

### Network primitive

`grid_client/src/primitives/network.ts`, with its callers `high_level/machine.ts` and
`high_level/base.ts`

* State: none but the workload each node has: subnet and peers. A `Network` object
  is one call's copy of it.
* Operations: `load`, `getMyNetworkContracts`, `addNode`, `addAccess`,
  `getFreeSubnet`, `getFreeIP`, `getAccessPoints`, `generatePeers`, `deleteNode`,
  `save`; on top of them what `vm.create` and `_deleteMachineNetwork` do.
* Hard: nothing is reserved; the copy may be old; peers of all nodes are worked out
  again from it; access points of users are nowhere but among the peers.
* Correct if: no address or subnet is given twice; nodes reach each other; a user
  keeps the access he was given; the last machine takes the network with it.

### Not modelled

| Part | State | Why |
|---|---|---|
| RMB peer client and server (`rmb_peer_client`, `rmb_peer_server`) | Redis lists | no module yet; two hazards are listed |
| Key migration (`grid_client/src/helpers/migration.ts`) | a map of locks | no module yet; one hazard is listed |
| `listenForEvent` (`tfchain_client/src/client.ts:201-240`) | subscription and timers | only the bridge's wait for a mint uses it; one hazard is listed |
| Node selection (`primitives/nodes.ts:589-630`) | none | greedy packing in one step |
| `networklight.ts` | as the network primitive | its own, simpler copy of `network.ts` |
| Pallet wrappers, service clients, ledgers, query modules, HTTP and RMB servers, GraphQL and proxy clients | none of their own | one request each |
| Builders, workload primitives | records | validation |
| Monitoring | a list of services | retries of a ping |
| Playground, UI, stats | Vue components | presentation |

## Modules

```
DeploymentUpdate <- DeploymentUpdate_proofs
      ^                       ^
      +-- TwinDeployment <- TwinDeployment_proofs,   MCTwinDeployment
      |        |
      |   AtomicProvisioning   (refined by TwinDeployment)
      |
      +-- BaseModule     <- BaseModule_proofs,     MCBaseModule
          PrivateNetwork <- PrivateNetwork_proofs, MCPrivateNetwork
                                  ^
                            PrivateNetworkTurns_proofs
          TFChainClient  <- TFChainClient_proofs,  MCTFChainClient
          RmbClient      <- RmbClient_proofs,      MCRmbClient
          TFKVStore      <- TFKVStore_proofs,      MCTFKVStore
```

TwinDeployment contains what the handler sees of the chain client and of RMB
(a batch is applied, refused, applied without an answer, or never answered; a
request is taken, lost, or taken late). TFChainClient and RmbClient are where
these outcomes come from: a chain call "lost" or hung on a silent report, a
request expired while the relay still holds it. BaseModule and PrivateNetwork are
the callers of the handler: they use of it what AtomicProvisioning states and
TwinDeployment is shown to keep (contracts appear in one step, and either stay with
their deployments or go in one step).

### DeploymentUpdate

`UpdateDeployment(old, new, version)`: what `DeploymentFactory.UpdateDeployment`
returns. The code is a double loop over both lists that breaks at the first
change it applies; here each position says what it contributes (`Deleted`,
`ChangesFor`, `BreakAt`, `Added`), so there is no recursion and the module can be
used under proofs. `Pick` (the elements at some positions, in order) finds the k-th of
them by counting, for the same reason. A workload is `[name, type, data, version]`; `data` is
everything its challenge covers besides the version.

The rollback of the handler undoes an update with the same function, from the update
back to the original. That is not always an inverse: the inner loop breaks at the first
change, and workloads are added only by a loop that reaches them; and network
workloads are never removed. `Undoable(old, sent)` says when it is one:
names are unique, the update added no network workload, and each workload it
removed is listed before one that it kept, or one of those it kept is unchanged. Over
bounded lists with unique names this is exact (TLC finds it sufficient and necessary); that
it is sufficient is proved for all lists (`UpdateUndone`).

### TwinDeployment

One action per step between awaits. `pc[c]` says where a call of `handle()` is:

| pc | code |
|---|---|
| idle | the module has not called yet |
| prepare | the loop over `PrepareExtrinsic`, up to `applyAllExtrinsics` (539-557) |
| send, sendUpdate, await | the loop over deployments and updates (563-608), `sendToNode` |
| wait | after the deletions (609-615): `waitForDeployments` |
| rollback, resend, awaitRestore | `rollback` (407-456) before and after its batch |
| done, failed | returned; threw, without a batch or after its rollback |
| lost | threw although its batch was included (no rollback runs before line 562) |
| stuck, unrestored | `rollback` itself threw, before or after its own batch |
| hung | a batch whose inclusion is never reported; it holds `Client.lock` |
| mute | a request to a node that is never answered, by any of its awaits (`Asking`) |

`contracts` and `cancelled` are the chain, `node` and `inflight` the nodes and
the requests on their way, `originals` is `original_deployments`, `created`,
`updated`, `doomed` are `contracts.created`, `contracts.updated` and the contracts
`deletedExtrinsics` cancel, `ready` are the deployments whose wait is over. A
contract is named by the operation that created it, which is what the chain's
never repeated ids amount to. `Throw` may happen at any step of the try block;
it stands for each of the exceptions there. `Step` is the call, `NodeStep` the
environment.

The model keeps these facts of the code, which a reader may not expect:

* an exception at or before line 554 leaves `handle()` without a rollback;
* `rollback` pops originals from the end of a list shared by all calls of the
  handler, whatever contract they came from;
* a rollback goes through `UpdateDeployment` (427), so what an update removed may
  not come back: a machine whose own record goes while its disk stays with new data
  is not there after the rollback;
* a rollback puts the node's deployment back, but not the hash on the chain if
  the node never took the update;
* deletions (609) are applied before the wait (616) and not undone by a rollback;
* `contracts.cancel` gives no extrinsic for a contract that is gone, and `batchAll` drops
  what is none (`utility.ts:33`): a deletion of what another call has deleted is passed
  over (`Prepare`), and a rollback does without it (`LookUp`). What goes between such a
  lookup and its batch makes the chain reject the batch;
* the name contract a deletion takes along is whoever holds the name by then (503);
* an RMB request has no deadline (`clients/rmb/client.ts:11-16`), and
  `waitForDeployment` looks at its own between polls only (106);
* a second call may set the version on the chain backwards.

### AtomicProvisioning

What `handle()` promises about contracts, without nodes, requests or loops: a
transaction's contracts appear in one step, its deletions disappear in one step,
and a rollback takes away its own contracts in one step and no others. The three
ways in which the code may end without keeping the promise are endings by name
(lost, stuck, and hung, for a batch or a request without an answer), so that they
cannot hide. TwinDeployment implements it
(`AllOrNothing`), with `PhaseOf` as the refinement mapping.

### TFChainClient

A task is one call of `batch` or `batchAll`. `lock`/`queue` are the `AwaitLock` of
each process (first come, first served), `pos` is the loop variable `i`, `result`
the concatenation, `report` what the subscription has brought. `Gained` is what the
results of a chunk are: `extractResultSectionsAndEvents` keeps the map of the last
extrinsic, which is then applied to every event. The maps of creations and updates
read the event, so that nothing is lost; that of a cancellation is the constant id of
its contract, and all results of a chunk of cancellations (`Cancelling`) are the last id. `pool` and `blocks`
are the external chain: transactions ordered by nonce, the next index which counts
the pool, and what a block makes of `batch` and `batchAll`. The pool may drop a
transaction and the connection may go while a status is awaited; both leave the
callback without an outcome (`Silence`).

### RmbClient

Calls (`Requests`: `send` then `read`; `Pings`: rounds of the ping loop) and one
socket. `con` is its `readyState`, `alive` whether the peer still answers, `deaf`
whether `removeAllListeners` has run; `entry` is the map `responses`; `connector`
is the `connect()` that holds `connectingLock`, `queued` the ones behind it;
`timers`/`handle` the ping timers that are set and the one `__pingPongTimeout`
still knows; `closer` the two places `disconnect()` is called from: the user, and
a `connect()` that failed and does not await it. The payload of an answer is
one of six kinds that `read` tells apart.

### TFKVStore

`store` is the chain's map. An operation reads one key per step (`Clean`, `Carry`,
`Assemble`), and a write ends with `Commit` of its extrinsics as one batch, or
with `Forget`. `current` is what was last committed under a key; `quiet` says that
no batch touched the key since a `get` began; `mangled` marks the keys whose value
a move of several pieces has destroyed (see `kv_move`), so that the other
properties stay meaningful in runs with moves.

### BaseModule

One name of one module. `pc[c]`: *asking* (the indexer has been asked,
`getMyContracts`), *getting* (`_get`, one contract per step), *planning* (`_update`,
`_add`, or `_delete` contract by contract), *handling* (`handle()`), *saving*
(`save`). `site` and `body` are the chain's contracts with their nodes and what
the nodes carry, `indexed` the indexer, `contracts` is `this.contracts`, `aged` the
entries of `newContracts` that are over a minute old and may be pruned
(282-300). `lost` names the contracts that no list has: those a restart, a call or a
save that failed or a pruning took from the static list, or never brought there, before
the indexer had them. `emptied` names those that were written off while active.

The model keeps these facts of the code:

* `_get` writes off a contract that is gone, and also an active one whose node has
  nothing running for it (`WriteOff`, 625-636): an update that keeps no workload
  leaves a list without any, the next `get` hides the contract, and the name is free;
* a contract that is gone is passed over by cancellations (`contracts.cancel` returns
  nothing), unless the plan comes to ask for its node first and throws;
* a batch of cancellations reports the id of the last one for each (`Reported`), so that
  `update` may save one deleted contract of several;
* `update` and `add` throw when they have found no machine (`Refused`).

Abstractions: of `handle()` there is what it leaves behind. It succeeds (`Commit`); it is
rolled back (`Abort`), with its deletions through or not and each update as it was,
as it was to be, or brought back by UpdateDeployment; or it fails without a rollback
that goes through (`Abandon`), and its contracts stay in no list. A rollback brings a
deployment back to its own original; that two may be mixed up is TwinDeployment's. The two
listings of `_list` and `_get` are one. Not in it: `_deleteInstance`, workloads a node
reports deleted that no update removed, the migration of list keys, other names of the
module.

`BaseAssumption` is what the callers see to: `merge()` leaves one deployment per node
and public address, an address is named after its machine, so that no two
deployments of a wish share one, and the machines of a deployment have different
names. That no workload has the name of one of another type (`OneType`) is seen to by
nobody; it is a hypothesis of one theorem, not an assumption of the module.

### PrivateNetwork

One network. `carried` is what the nodes have: subnet, key pair (`wg`), peers (`key`,
`subnet`, whether with an endpoint, `routes`) and, as history, the call that put it
there. A call asks (`Ask`), merges (`Merge`), loads node by node (`Fetch`), plans and
has the contracts created (`Deploy`), sends node by node (`Send`) and ends
(`Finish`, `RollBack`), or removes a machine (`Remove`). `Extension` is `vm.create`'s
use of `addAccess` and `addNode`, `Peers` is `generatePeers`, `Emptied` is
`_deleteMachineNetwork`. A key pair is named by the contract it was made with.

The model keeps these facts of the code:

* the peers of nobody are worked out again when a node leaves: a hidden node whose
  access node goes is cut off (an exception of `Mesh`), and what remains of a
  removed hidden node among the peers passes for a user's access point later;
* without a node that joins, no node is updated, whatever its peers are, and nobody
  looks for the access node of a hidden one;
* a workload to deploy is told by its subnet, and the first net of the loaded network
  that has it gives it key pair and peers (`Leads`; `network.ts:295-320`): once a subnet
  has been given twice, a node may be sent the workload of the other;
* the rollback (`RollBack`) cancels the new contracts, but updates that have been sent stay,
  since what would undo them goes through `UpdateDeployment`, which passes over networks
  (`deployment.ts:55`); that is what the history variable `halfSent` tells. Or it throws
  (`cutOff`), and the new contracts stay on no list;
* a stop between chain and node makes later loads throw (`Fetch` fails).

Not in it: networks stored in the legacy way (330-372), mycelium keys, listening
ports, addresses and subnets chosen by the user, lists of machines per call,
the ends of the ranges. `saveNetworks`' return at the first operation without a
network (`twinDeploymentHandler.ts:144`) and `deleteNode`'s use of the first subnet
(`network.ts:290`) make no difference to the flows that are modelled.

## Runs

| Run | Instance | Distinct states | Shows |
|---|---|---|---|
| `twin_one` | one call: two deployments (one with a name), an update (one that can be undone, or one that cannot), a deletion | 17 815 | TypeOK, NothingDeletedEarly, RestoredIsOriginal, CallEnds |
| `twin_two` | two calls that update one machine, delete one gateway, by id or by name, and want its name | 916 814 | FailureLeavesNothing, NothingDeletedEarly, CancelledForAReason, AllOrNothing |
| `chain` | two tasks of one process (two chunks of creations, one of cancellations), one of another process | 91 849 | TypeOK, NoNonceRace, ReturnsWhatWasApplied, BatchAllRollsBack, CallSettles |
| `chain_cancel` | a `batchAll` of cancellations | violation | CancelledIdsReturned |
| `chain_chunks` | a `batchAll` of two chunks | violation | FailedExtrinsicRollsBackAll |
| `rmb` | a request, a ping, two tries each, one `connect` from outside | 343 693 | TypeOK, NoOrphans, CallSettles |
| `rmb_ping` | two pings | violation | MissedPongReconnects |
| `rmb_drain` | a request and a `disconnect` in node | violation | DrainListens |
| `kv` | a writer and a reader, two keys, values of 1 to 5 characters, pieces of 2 | 177 075 | TypeOK, QuietReadsAreExact, NoStaleFragments |
| `kv_move` | one value moved | violation | MoveKeepsValue |
| `base` | four calls on one name: five wishes with and without public address on two nodes, an addition; an overlap or a restart | 967 557 | TypeOK, OneDeployment, NotWrittenOff, UpdateReaches |
| `network` | four calls: machines on an access node, a plain and a hidden node, with and without access; an overlap or a restart | 2 713 224 | TypeOK, SubnetsApart, AccessApart, AddressesApart, AccessKept, Mesh, NothingLeft, LoadsSucceed |

What the properties say:

* `FailureLeavesNothing`: a call that failed without a batch, or whose rollback
  went through, has no contract left, node or name, whatever the others did.
* `CancelledForAReason`: a contract goes only because a call that has sent
  everything was asked to delete it or the gateway whose name it holds, or because the
  call that made it rolls back. By name it may be another call's contract that goes:
  the lookup (503) takes whoever holds the name.
* `NothingDeletedEarly`: once a call's deletions are on the chain, everything it
  sends is on its node at the version sent or a later one, unless its contract has
  been cancelled since.
* `RestoredIsOriginal`: what a completed rollback put back has the contents that ran
  before. It says so of one update per handler object (with two, the shared list of
  originals may give each the workloads of the other) and of an update that is
  `Undoable`; positions and versions may differ.
* `AllOrNothing`: the refinement of AtomicProvisioning.
* `CallEnds`: a call ends, or a batch of some call hangs, or a node never answers a
  request of its own.
* `NoNonceRace`: a nonce that was read under the lock can only be taken by another
  process of the same account, even after submissions that threw.
* `ReturnsWhatWasApplied`: results are those of the extrinsics that took effect,
  across chunks; for `batchAll` all of them and in order. Of cancellations `batchAll`
  returns as many results as it cancelled contracts; which, see `chain_cancel`.
* `BatchAllRollsBack`: a `batchAll` of one chunk that failed has applied nothing.
* `CallSettles` (chain): a queued task gets through, unless a transaction is never
  heard of again or leaves a gap before the nonces that follow.
* `NoOrphans`: the map holds entries of calls that are being read, and of those
  that an answer which does not decode has hung; nothing else.
* `CallSettles` (RMB): a call gets an outcome, unless an answer does not decode or
  a disconnect removes its entry.
* `QuietReadsAreExact`: a `get` that no batch interrupts returns the value committed
  last, whatever longer or shorter values the key had before.
* `NoStaleFragments`: every piece in the store belongs to a current value.
* `OneDeployment`: of two deployments of one name that did not overlap, one has lost
  its contracts to a restart, a call or save that failed or the pruning of the static
  list, or they were written off for empty. The last case is reached: deploy, an update
  that keeps no workload, get, deploy.
* `NotWrittenOff`: an active contract is in the static list of deleted ones only if a call
  found nothing running on its node; and if calls have not overlapped, nothing runs there.
* `UpdateReaches`: update leaves exactly the machines wished for, but for three cases
  in which the code leaves one out, which the property names: a wished
  deployment without public address on a listed node whose old deployments all have
  one (`base.ts:884-907`); a deployment of which no workload is kept
  (`deployment.ts:58-62`); a new workload listed behind a changed one
  (`deployment.ts:63-100`).
* `SubnetsApart`: two nodes have one subnet only if the calls that brought them in
  overlapped, or a contract had left the static list before a listing could have it
  from the indexer.
* `AccessApart`: calls in a row give no subnet to a node and a user, or to two users.
* `AddressesApart`: two machines of a node have one address only if their calls
  overlapped, or the static list had forgotten a contract the indexer did not have. That case
  is reached: deploy on a node, restart, deploy on it again, and the node is in the
  network twice, with one subnet and one address.
* `AccessKept`: the access point a user was given stays among the peers of its node, until
  a subnet may have been given twice (`forgotten`) and a node sent the workload of another.
* `Mesh`: between calls each node routes the subnet of each other to exactly one peer,
  which is a node of the network. Two things break it, and are named: a hidden node whose
  access node has gone is cut off, and what a deployment that failed half sent leaves
  on the nodes need not fit together until another has been sent in full.
* `NothingLeft`: with the last machine the network's workloads go. It is checked with
  one access node; a comment (`high_level/base.ts:173`) admits that with several
  something may stay.
* `LoadsSucceed`: calls one after the other find the workloads they ask for.

### Disagreements the violation runs show

* `chain_cancel`: `cancel` "patches the extrinsic result with the `contract ID`"
  (`tfchain_client/src/contracts.ts:441-442`), but of the maps of a batch only the last one
  is kept (`utility.ts:60`): the ids `batchAll` returns for two cancellations are twice
  that of the second, and `handle()` records those as deleted.
* `chain_chunks`: "if one of the extrinsics fails in the case of using batchAll, all
  the extrinsics will be rolled back" (`grid_client/src/modules/utility.ts:42`);
  chunks before the failing one stay applied.
* `rmb_ping`: "if no pong receieved after 40 s, reconnect"
  (`rmb_direct_client/lib/client.ts:350`); `connect()` returns at once while
  `readyState` is still OPEN.
* `rmb_drain`: "Waiting for the rmb responses to be received before closing the
  connection" (line 180), after the listener that would receive them was removed
  (line 211).
* `kv_move`: `moveValue` writes each piece to the same key
  (`tfkvstore.ts:119`), and only the last one survives the move that
  `modules/base.ts:203` describes.

### Bounds, and why they are enough

* TwinDeployment: each call is made once, and the request lists are small sets.
  One call meets every kind of operation; two calls meet on every kind of thing
  that calls share (an updated contract, a deleted contract, a name, the list of
  originals, the lock). A third call brings no new kind of interaction, and the
  theorems below hold for any number. Versions count up by one per update and are
  bounded by the number of calls.
* TFChainClient: BATCH_SIZE 2 for 400; three extrinsics make two chunks, the
  second not full. Two tasks of one process compete for the lock and one process
  outside of it for the nonce, which are the two cases that NoNonceRace separates. One
  of the three cancels contracts.
* RmbClient: two calls, because a call of two tries may close the socket another
  waits for; two requests instead of a request and a ping reach the same steps and
  more states than a short run can take. `MaxConnects` bounds the calls of
  `connect()` from outside only; reconnects and the ping loop add their own. A ping
  round beyond `Pings` is not looked at.
* TFKVStore: SPLIT_SIZE 2 for 1490; values of one piece, exactly one, two, exactly
  two and three, so that each write may follow a shorter, an equal and a longer one.
  `MaxWrites` 5 bounds the number of writes begun.
* BaseModule: two overlapping calls meet on every shared list; a third in a row sees
  what they left. Deployments have one machine or two, since positions in the list
  of workloads matter; two nodes and one public address give each case of `_update`.
  `MaxBusy` 2 and `MaxCrashes` 1. `MCBound` gives the fourth call to behaviours with
  one contract or with one written off for empty, which need it (deploy, update, get,
  deploy), a call less for an overlap or a restart, and two calls to those with more
  than two contracts; calls begin in a fixed order (`MCOrder`).
* PrivateNetwork: one node of each kind (access, plain, hidden); four calls add all
  three and remove one, or remove and add again. Two overlapping calls already break
  what only holds for calls in a row, and the properties say so. `MaxBusy` 2,
  `MaxCrashes` 1; `MCBound` takes a call off for an overlap, one for a restart, and one
  for a deployment that failed half sent or whose rollback threw.

`CHECK_DEADLOCK FALSE` stands where calls are made once and the system then is
at rest, or hung as described above. The `kv` runs check deadlock: the reader can
always go on.

### Fairness

* TwinDeployment: weak fairness of each call's own steps, which are those an await that
  returns or throws leads to. That a batch (`Hang`) or a request to a node (`Silence`)
  never settles is a step of the call too, for good and at any of these awaits, and
  the property names both. Nothing is assumed of the nodes.
* TFChainClient: weak fairness of a task's own steps once it has started, and of
  the inclusion of the transaction that is next by nonce. A transaction may still
  be dropped or its connection lost, and the property names that case.
* RmbClient: weak fairness of a call's own steps: the interval of
  `waitForOpenConnection` counts its attempts, and `read` polls until the
  expiration. Nothing is assumed of the socket or the relay.
* TFKVStore, BaseModule and PrivateNetwork have safety properties only: nothing in the
  code promises that the indexer catches up or that a call is made.

## Proofs

`TwinDeployment_proofs` proves, for any calls, requests and contracts that
satisfy `TwinAssumption`:

| Theorem | Statement |
|---|---|
| `TypeCorrect` | `Spec => []TypeOK` |
| `FailedCallsLeaveNothing` | `Spec => []FailureLeavesNothing` |
| `CancellationsAreJustified` | `Spec => CancelledForAReason` |
| `HandleIsAtomic` | `Spec => AllOrNothing`, the refinement of AtomicProvisioning |
| `DeletionsComeLast` | `Spec => []NothingDeletedEarly` |
| `RollbackRestores` | `Spec => []RestoredIsOriginal` |

The assumption says that `NoCall` is not a call, that the contracts there were
before belong to no call and run lists of workloads, and that request lists are ordered as `merge()` leaves
them, each contract updated or deleted at most once.

The argument. `FailureLeavesNothing` is not inductive: a rollback removes
`created`, so one needs that `created` covers all the call has on the chain,
from its batch to its rollback. And `created` is the batch's result without the
updated contracts, so one needs that what a call updates was not made by itself.
The inductive invariant `IInv` is
`TypeOK` and five named parts:

* `OpsOK`: the operations of a call are well formed, and its updates and deletions
  are of contracts it did not make;
* `PreparedOK`: `updated` lists the contracts of the updates prepared so far;
  neither it nor `doomed` holds a contract of the call's own;
* `Unopened`: before its batch a call has no contract, active, cancelled or on a node
  (a module only updates what a node holds, which is why `OpsOK` holds);
* `Accounted`: from the batch to the rollback, what the call has on the chain is
  among `created`, and `created` is its own;
* `Gone`: after the rollback's batch it has none.

`IInv` is shown to hold initially, to be preserved by one lemma per group of
actions, and to imply the
four results; the two action properties and the refinement are step lemmas under
`IInv` that temporal steps put together.

`CancelledForAReason` needs in addition that what a call is to delete was asked for
(`DoomedOK`), from the lookup to the batch: a contract keeps its name while it is there,
and one that is gone does not come back (`NamesStay`).

`NothingDeletedEarly` needs another one, `Placed`, under `IInv`: versions are numbers
(`VersionsOK`), deletions come last in a call's list (`RankedOK`), and everything a
call has had the answer for is settled on its node, for good (`SettledOK`): versions
on a node only grow, as long as the contract is there.

`RestoredIsOriginal` needs two more, and a fact about `UpdateDeployment`.

* `Tracked` holds of all runs: every contract on the chain, cancelled or on a node
  was made by an operation that its call still lists (so that what it ran first is
  known, `Original`), no contract is both active and cancelled, and what is updated
  is or was on a node.
* `Restorable` holds while the handler serves one undoable update (`Single`), which
  is how the theorem is stated. A node holds the original, the update or the
  update undone (`HeldOK`), and so do the requests on their way (`MessagesOK`); the
  update is what `UpdateDeployment` made of the original (`MergedOK`) and is prepared
  once (`UpdatedOK`); the list of originals holds that original or nothing, from
  the time it was read (`OriginalsOK`); what the rollback has recorded is that update
  undone (`RestoresOK`); and from the answer on, the node holds what was recorded
  (`AckedOK`): whatever else arrives late has a version that does not fit.
* `UpdateUndone` (`DeploymentUpdate_proofs`): an `Undoable` update, updated back to the
  original, has the contents of the original, for lists of any length. It
  rests on what each position of the result is (`UpdateFacts`), on `Pick` keeping what
  it is told to (`PickFacts`, by counting ranks: `RankFacts`, `RanksReached`) and on
  the inner loop meeting a workload of the same name (`ChangeIsNamesake`).

That there is one update at some time says that there was at most one before
(`SingleBefore`), so `Single => Restorable` is inductive although `Single` may end.

The other modules' theorems, each for any values of its constants under the assumption the
module states:

| Module | Theorems | Along which invariant |
|---|---|---|
| `RmbClient_proofs` | `TypesHold`, `MapHasNoOrphans` | one part per call (`CallOK`): an entry belongs to a call that is being read, or whose answer does not decode; the relay answers a call once |
| `TFChainClient_proofs` | `TypesHold`, `NonceHeld`, `ResultsAreExact`, `OneChunkRollsBack` | the holder of the lock is the task between nonce and status (`LockOK`); a nonce read is taken by other processes only (`RaceOK`); a task's transaction in the pool is the one of its position (`FlightOK`), and what it has been told is what the chain made of its chunks (`ResultOK`) |
| `TFKVStore_proofs` | `TypeCorrect`, `GetsAreExact`, `NothingStale` | fragments are contiguous and of keys (`StoreOK`); a key that no move has mangled holds the pieces of its current value (`CurrentOK`); a plan covers the fragments before the one it reads next, which only its own writer changes (`OpOK`) |
| `BaseModule_proofs` | `TypesHold`, `NeverWrittenOff`, `DeployedOnce`, `UpdatesReach` | the contracts of a call that is over are indexed, listed or lost, and an answer under way completes the list (`ListedOK`); what is to be cancelled is gone or still listed (`HandledOK`, `ApartOK`); while calls take turns, what was written off runs nothing (`VacantOK`) and is not looked at again (`SeenOK`) |
| `PrivateNetwork_proofs` | `TypesHold`, `SubnetsGivenOnce`, `AddressesGivenOnce` | the contract of a workload whose call is over is indexed or listed, unless forgotten (`CarriedOK`), so that a call loads every workload of the calls before it (`ListedOK`, `ViewOK`); what it has planned but not sent clashes with calls at the same time only (`PutOK`, `SiteOK`), and no other call has seen it (`PairOK`) |

`TFKVStore_proofs` assumes of the keys that none is another one with a fragment number
behind it, and one writer per key; the size of a fragment, the length of the
values and the characters (`Characters`) are arbitrary. For the pieces of `split` it
proves that cutting and joining give the value back (`SplitCuts`, `PrefixGrows`).

`UpdatesReach` is `Spec => [](OneType => UpdateReaches)`. UpdateDeployment compares names and
not types, and a disk with the name of a machine would be taken for it: hence
`OneType`, a statement about the constants alone. The argument has two halves. What
UpdateDeployment makes of one contract (`BroughtIsAsked`, `AskedIsBrought`, by `UpdateFacts`)
and `_update` of all of them (`MatchedIsBrought`, `NoneIsLeft`, `OneIsMissing`) holds of
lists of any length. And a second invariant, `UInv`, under the first one says that the
plan is made of what is there: what nodes carry and calls have found was asked for
(`BodyOK`, `WorkOK`), one call is under way and began after the others were over
(`TurnOK`), and an update has found everything the nodes carry, unless something is
`lost` or was written off and runs nothing, and leaves the nodes with its plan carried out
(`SightOK`, `Reached`). `NeverWrittenOff` rests on both invariants: the first says that what was
written off is `emptied`, the second that no update, rollback or half-done deletion touches
it, since no later call has found it.

`PrivateNetwork_proofs` rests on `FreeIsFree`: the first subnet or address that is not
among finitely many reserved ones exists and is free. That the reserved ones are
finite takes lemmas on images and unions (`FiniteUnion`), which argue with a
smallest counterexample, and needs to be said of every workload on a node
and of every load, so it is a part of the invariant. What is proved of a plan
(`ExtensionFacts`, `WorkloadsFacts`) is about the nodes, keys and subnets in it; the
routes follow with the mesh, below. `AddressesApart` needs of every load that it has the
addresses of all machines of its node, under whichever contract (`ViewOK`), and of every contract
of a machine that it is indexed or listed, unless forgotten (`Known`), so that a node that is
in the network does not join again.

`PrivateNetworkTurns_proofs` goes on from there with what holds of calls that take turns (no
call has begun while another was under way, `~overlapped`), again for any nodes,
wishes and number of calls:

| Theorem | Statement |
|---|---|
| `AccessPointsKept` | `Spec => []AccessKept` |
| `AccessPointsApart` | `Spec => []AccessApart` |
| `LoadsFindAll` | `Spec => LoadsSucceed` |
| `NothingIsLeft` | `Spec => [](OneGateway => NothingLeft)` |
| `NodesReachEachOther` | `Spec => []Mesh` |

`OneGateway` says that there is at most one access node, which is the case the run
checks; with more the statement is false, as the comment at `high_level/base.ts:173`
admits, and the hypothesis is one on a constant. The invariant `TInv` holds under the invariant of
`PrivateNetwork_proofs`, and its parts say of each turn: one call is under way, and it began
after the others were over (`TurnsOK`); what it has in hand at each point of its way
(`HandsOK`); as long as no subnet is given twice, a workload has the key pair of its own contract
(`WgOK`, by `GrownApart`: the first net of a subnet is then the only one); the key of an access point is no node's, so the peer that stands for it
is taken for one by every load and every plan (`UsersOK`); its subnet is neither a
node's nor another access point's, those that are about to be sent included
(`ApartOK`); what is listed is on its node, or being sent, or deleted (`FoundOK`); and
a workload has a machine, or is of an access node, or is being put there by the call under
way (`NodesOK`). Each part has its own condition (`Alone`, `Quiet`, `Calm`),
the one its property has, so that it holds also of runs in which that condition ends.

`NodesReachEachOther` adds one more part, `RoutedOK`, of two halves. In one (`Keyed`), a peer
without an endpoint has both the key and the subnet of a node or neither: without it, what a
removed hidden node leaves behind among the peers could take a subnet that a later plan gives
away. It holds throughout, since each node has its peers from the load or from the plan of
some call, and both are `Keyed` (`KeyedHalf`). The other (`Meshed`) says that each node
routes the subnet of each other to one peer, and to which; it holds unless `halfSent`. While a
deployment is sent (`HalfOK`), what it has planned is both, what it loaded is what the nodes were,
and every node has its part of the one or of the other; so `Finish` ends in a mesh, and
`RollBack` in one if no update had been sent yet. That this is inductive rests on three lemmas: what
`generatePeers` makes of a whole network is both, for any nodes and any choice of access nodes
(`PeersAre`, `RoutesOnce`, `RoutesToNodes`, `LaidSound`); a deployment with a node that joins plans a workload
for every node (`DeploySound`, by `LoadsAll`), whatever was there before; and a network
without some of its nodes keeps both (`MeshedPart`, `KeyedPart`), which is what a removal
leaves. Several access nodes are no exception here.
TLC found `RoutedOK` to hold on the instance of `network`, and with two access nodes, two hidden
nodes and one call at a time, before it was proved.

Every invariant and every action property of a passing run is stated by a theorem, two of
them (`UpdatesReach`, `NothingIsLeft`) under a condition on the constants that the run's instance
meets. Only model-checked: all liveness (`CallEnds`, both `CallSettles`), which the prover
does not reach. The violation runs are counterexamples and have no theorem. That
`Undoable` is necessary was checked over bounded lists and is not proved.

## What is left out

* Time. Whatever has a deadline may reach it at any moment.
* The merge of several operations on one node (`deployMerge`, `updateMerge`):
  the model's requests have the shape it leaves (`Ranked`).
* The WireGuard configuration files, and the stored list a module saves after
  `handle()` (its static counterpart is in BaseModule).
* Contracts that the chain cancels by itself (billing).
* A block that is retracted after `isInBlock`.
* `newProvider` and the connection map; the twin lookup and its cache; signatures
  and encryption, whose outcomes are choices.
* `onunload` in browsers and the signal handlers.
* Two writers of one store key, and keys named like a fragment of another.

## Plan

Next, in this order: the merge functions against reference definitions over bounded
lists; a run of PrivateNetwork with several access nodes, where a machine's removal may
leave an access node behind and cut a hidden node off; the lock of the key migration under BaseModule's listing; the Redis queues
of the RMB peer, with replies that nobody reads.
