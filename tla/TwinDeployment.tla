-------------------------- MODULE TwinDeployment --------------------------
(***************************************************************************)
(* TwinDeploymentHandler (grid_client/src/high_level/                      *)
(* twinDeploymentHandler.ts): one call of handle() brings a list of twin   *)
(* deployments to the grid.  It reserves contracts on the chain in one     *)
(* atomic batch, sends every deployment to its node, cancels what is to be *)
(* deleted, polls the nodes until the workloads run, and rolls back when   *)
(* any of that throws.                                                     *)
(*                                                                         *)
(* Calls share one handler object and run concurrently: a call gives way   *)
(* to the others at each await.  The chain (contracts) and the zos nodes   *)
(* (node, inflight) are external; what they do is what the handler relies  *)
(* on.  Every request to a node may be lost, answered late or refused, and *)
(* every chain query may throw.                                            *)
(***************************************************************************)
EXTENDS DeploymentUpdate, Functions

CONSTANTS
  Calls,        \* calls of handle(), each made at most once
  NoCall,       \* the maker of the contracts that were there before
  Requests,     \* the lists of operations a call may be given
  Preexisting,  \* contract ids that exist at the start
  OldWorkloads, \* what they run: [Preexisting -> Seq(Workload)]
  OldName,      \* the name they reserve, if any: [Preexisting -> Names or NoName]
  NoName        \* no name contract wanted

Verbs == {"deploy", "update", "delete"}

\* A contract is identified by the operation that created it: the chain never
\* gives one id twice, and nothing here compares ids.
NodeContract(c, i) == [by |-> c, op |-> i, kind |-> "node"]
NameContract(c, i) == [by |-> c, op |-> i, kind |-> "name"]
MadeBy(c) == [by : {c}, op : Nat, kind : {"node", "name"}]
ContractIds == [by : Calls \cup {NoCall}, op : Nat, kind : {"node", "name"}]
NoContract == [by |-> NoCall, op |-> 0, kind |-> "none"]

\* merge() (twinDeploymentHandler.ts:277) leaves deployments first, then at
\* most one update for each contract that is not deleted, then the deletions.
Ranked(r) ==
  /\ \A i, j \in DOMAIN r : i < j =>
       \/ r[i].verb = "deploy"
       \/ r[i].verb = "update" /\ r[j].verb # "deploy"
       \/ r[j].verb = "delete"
  /\ \A i, j \in DOMAIN r :
       i # j /\ r[i].verb # "deploy" /\ r[j].verb # "deploy" => r[i].target # r[j].target

Operation == [verb : Verbs, target : ContractIds \cup {NoContract},
              workloads : Seq(Workload), name : STRING]

ASSUME TwinAssumption ==
  /\ NoCall \notin Calls
  /\ Preexisting \subseteq MadeBy(NoCall)
  /\ OldWorkloads \in [Preexisting -> Seq(Workload)]
  /\ \A r \in Requests : r \in Seq(Operation) /\ Ranked(r)

VARIABLES
  contracts,  \* chain: contract id -> [dep, name], the active contracts
  cancelled,  \* chain: ids of the contracts that are no longer active
  node,       \* zos: contract id -> [dep, state], the deployments nodes hold
  inflight,   \* requests to nodes that may still arrive
  originals,  \* this.original_deployments, shared by all calls
  pc,         \* where each call is
  ops,        \* the twin deployments a call works on
  pos,        \* the index of its loop
  created,    \* contracts.created; in a rollback, without those it has found gone
  updated,    \* contracts.updated
  doomed,     \* the contracts its deletedExtrinsics cancel
  ready,      \* operations whose waitForDeployment has returned
  restores,   \* deploymentsToUpdate of its rollback
  reply       \* what the node answered to the request a call waits for

chainVars == <<contracts, cancelled>>
nodeVars  == <<node, inflight>>
vars == <<contracts, cancelled, node, inflight, originals, pc, ops, pos, created,
          updated, doomed, ready, restores, reply>>

Without(f, S) == [x \in DOMAIN f \ S |-> f[x]]
Live == DOMAIN contracts
Positions(c) == DOMAIN ops[c]
Creates(c) == {i \in Positions(c) : ops[c][i].verb = "deploy"}
Updates(c) == {i \in Positions(c) : ops[c][i].verb = "update"}
Sent(c) == Creates(c) \cup Updates(c)
Naming(c) == {i \in Sent(c) : ops[c][i].name # NoName}

RestoreIds(c) == {restores[c][j].id : j \in DOMAIN restores[c]}

\* How a call ends: handle() returns; it throws, with nothing reserved or after
\* its rollback; it throws although its batch was included; its rollback throws
\* before or after its own batch; it waits for ever for a batch (hung) or for the
\* answer of a node (mute).
Terminal == {"done", "failed", "lost", "stuck", "unrestored", "hung", "mute"}

\* The call is about to submit a batch that is not empty.
AtBatch(c) ==
  \/ pc[c] = "prepare" /\ pos[c] \notin Positions(c) /\ Sent(c) # {}
  \/ pc[c] = "send" /\ pos[c] \notin Sent(c) /\ doomed[c] # {}
  \/ pc[c] = "rollback" /\ pos[c] \notin DOMAIN updated[c] /\ created[c] \cup RestoreIds(c) # {}

\* Client.lock is static: a batch that never ends holds it, and every other
\* batch of the process waits behind it.
Unlocked(c) == AtBatch(c) => \A d \in Calls : pc[d] # "hung"

Init ==
  /\ contracts = [k \in Preexisting |->
                    [dep |-> [workloads |-> OldWorkloads[k], version |-> 0],
                     name |-> OldName[k]]]
  /\ cancelled = {}
  /\ node = [k \in {p \in Preexisting : p.kind = "node"} |->
               [dep |-> [workloads |-> OldWorkloads[k], version |-> 0], state |-> "ok"]]
  /\ inflight = {}
  /\ originals = <<>>
  /\ pc = [c \in Calls |-> "idle"]
  /\ ops = [c \in Calls |-> <<>>]
  /\ pos = [c \in Calls |-> 1]
  /\ created = [c \in Calls |-> {}]
  /\ updated = [c \in Calls |-> <<>>]
  /\ doomed = [c \in Calls |-> {}]
  /\ ready = [c \in Calls |-> {}]
  /\ restores = [c \in Calls |-> <<>>]
  /\ reply = [c \in Calls |-> "none"]

-----------------------------------------------------------------------------
(* Before the try block: nothing is on the chain yet.                        *)

\* What the calling module makes of an operation: an update is computed from
\* the deployment the node holds now (modules/base.ts _update, _add) and
\* carries the next version (_updateToLatest).
Merged(o) ==
  LET held == node[o.target].dep
  IN  UpdateDeployment(held.workloads, o.workloads, held.version)

Resolve(o) ==
  [verb |-> o.verb, id |-> o.target, name |-> o.name,
   dep |-> CASE o.verb = "deploy" -> [workloads |-> o.workloads, version |-> 0]
             [] o.verb = "update" -> [workloads |-> Merged(o).workloads,
                                      version |-> node[o.target].dep.version + 1]
             [] OTHER -> node[o.target].dep]

\* A module reads what a node holds before it updates or deletes it, and drops
\* an update that changes nothing.
Needed(o) ==
  o.verb # "deploy" => /\ o.target \in DOMAIN node
                       /\ o.verb = "update" => Merged(o).found

\* KYC, the shape of the deployments, the nodes' capacity and the farms' free
\* addresses are checked first, and each check may throw, or ask a node that is
\* never heard of.
CheckOutcomes == {"prepare", "failed", "mute"}

\* A module builds the list and calls handle(), which merges and checks it.
Submit(c) ==
  /\ pc[c] = "idle"
  /\ \E r \in Requests :
       /\ \A i \in DOMAIN r : Needed(r[i])
       /\ ops' = [ops EXCEPT ![c] = [i \in DOMAIN r |-> Resolve(r[i])]]
  /\ \E next \in CheckOutcomes : pc' = [pc EXCEPT ![c] = next]
  /\ UNCHANGED <<chainVars, nodeVars, originals, pos, created, updated, doomed, ready,
                 restores, reply>>

\* PrepareExtrinsic for one operation.  A deletion looks up its contract and the
\* one that holds its name now: contracts.cancel gives no extrinsic for one that
\* is gone.  The batch that cancels them comes much later.
Prepare(c) ==
  /\ pc[c] = "prepare"
  /\ pos[c] \in Positions(c)
  /\ LET o == ops[c][pos[c]] IN
       /\ o.verb = "update" => o.id \in Live
       /\ updated' = [updated EXCEPT ![c] = IF o.verb = "update" THEN Append(@, o.id) ELSE @]
       /\ doomed' = [doomed EXCEPT ![c] =
            IF o.verb = "delete"
            THEN @ \cup {k \in Live : k = o.id \/ (o.name # NoName /\ contracts[k].name = o.name)}
            ELSE @]
  /\ pos' = [pos EXCEPT ![c] = @ + 1]
  /\ UNCHANGED <<chainVars, nodeVars, originals, pc, ops, created, ready, restores, reply>>

\* The contracts the batch of a call creates.
Fresh(c) == {NodeContract(c, i) : i \in Creates(c)} \cup {NameContract(c, i) : i \in Naming(c)}

\* contracts.created: the results of the batch that are not updated contracts.
ResultIds(c) == Fresh(c) \cup {ops[c][i].id : i \in Updates(c)}
UpdatedIds(c) == Range(updated[c])

\* Mutants: the results are not filtered; name contracts are forgotten.
CreatedUnfiltered(c) == ResultIds(c)
CreatedNodesOnly(c) == {k \in ResultIds(c) : k.kind = "node"} \ UpdatedIds(c)

CreatedContracts(c) == ResultIds(c) \ UpdatedIds(c)

\* The chain accepts the batch: updated contracts exist, names are free.
Acceptable(c) ==
  /\ \A i \in Updates(c) : ops[c][i].id \in Live
  /\ \A i \in Naming(c) : /\ \A k \in Live : contracts[k].name # ops[c][i].name
                          /\ \A j \in Naming(c) : ops[c][j].name = ops[c][i].name => i = j

FreshContract(c, k) ==
  IF k.kind = "node"
  THEN [dep |-> ops[c][k.op].dep, name |-> NoName]
  ELSE [dep |-> [workloads |-> <<>>, version |-> 0], name |-> ops[c][k.op].name]

\* applyAllExtrinsics of the creations and updates, one batchAll.  When the
\* connection drops the batch may be included all the same: the submission
\* throws if it was not acknowledged yet (lost), and otherwise the call waits
\* for ever for the inclusion event (hung).
Reserve(c) ==
  /\ pc[c] = "prepare"
  /\ pos[c] \notin Positions(c)
  /\ Unlocked(c)
  /\ Acceptable(c)
  /\ contracts' = [k \in Live \cup Fresh(c) |->
       IF k \in Fresh(c) THEN FreshContract(c, k)
       ELSE IF \E i \in Updates(c) : ops[c][i].id = k
            THEN [contracts[k] EXCEPT !.dep =
                    ops[c][CHOOSE i \in Updates(c) : ops[c][i].id = k].dep]
            ELSE contracts[k]]
  /\ \/ /\ pc' = [pc EXCEPT ![c] = "send"]
        /\ created' = [created EXCEPT ![c] = CreatedContracts(c)]
     \/ /\ AtBatch(c)
        /\ \E end \in {"hung", "lost"} : pc' = [pc EXCEPT ![c] = end]
        /\ UNCHANGED created
  /\ pos' = [pos EXCEPT ![c] = 1]
  /\ UNCHANGED <<cancelled, nodeVars, originals, ops, updated, doomed, ready, restores, reply>>

\* Up to here an exception leaves handle() without a rollback.
Refuse(c) ==
  /\ pc[c] = "prepare"
  /\ Unlocked(c)
  /\ pc' = [pc EXCEPT ![c] = "failed"]
  /\ UNCHANGED <<chainVars, nodeVars, originals, ops, pos, created, updated, doomed, ready,
                 restores, reply>>

-----------------------------------------------------------------------------
(* The try block: nodes are told, deletions applied, workloads awaited.      *)

\* The batch result whose hash is that of operation i: the first one.
ResultFor(c, i) ==
  LET same == {j \in Sent(c) : ops[c][j].dep = ops[c][i].dep}
      j == CHOOSE k \in same : \A m \in same : k <= m
  IN  IF ops[c][j].verb = "deploy" THEN NodeContract(c, j) ELSE ops[c][j].id

Message(c, verb, id, dep) == [from |-> c, verb |-> verb, id |-> id, dep |-> dep]

\* Before an update is sent, the deployment it replaces is read from the node
\* and kept for the rollback.
ReadOriginal(c) ==
  /\ pc[c] = "send"
  /\ pos[c] \in Updates(c)
  /\ LET id == ops[c][pos[c]].id IN
       /\ id \in DOMAIN node
       /\ originals' = Append(originals, node[id].dep)
  /\ pc' = [pc EXCEPT ![c] = "sendUpdate"]
  /\ UNCHANGED <<chainVars, nodeVars, ops, pos, created, updated, doomed, ready, restores,
                 reply>>

\* sendToNode: sign, then an RMB request whose answer the call waits for.
Send(c) ==
  /\ \/ pc[c] = "send" /\ pos[c] \in Creates(c)
     \/ pc[c] = "sendUpdate"
  /\ LET o  == ops[c][pos[c]]
         id == IF o.verb = "deploy" THEN ResultFor(c, pos[c]) ELSE o.id
     IN  /\ ops' = [ops EXCEPT ![c][pos[c]].id = id]
         /\ inflight' = inflight \cup {Message(c, o.verb, id, o.dep)}
  /\ pc' = [pc EXCEPT ![c] = "await"]
  /\ reply' = [reply EXCEPT ![c] = "none"]
  /\ UNCHANGED <<chainVars, node, originals, pos, created, updated, doomed, ready, restores>>

\* Mutant: the request is not awaited.
AnsweredUnawaited(c) ==
  /\ pc[c] = "await"
  /\ pc' = [pc EXCEPT ![c] = "send"]
  /\ pos' = [pos EXCEPT ![c] = @ + 1]
  /\ UNCHANGED <<chainVars, nodeVars, originals, ops, created, updated, doomed, ready,
                 restores, reply>>

Answered(c) ==
  /\ pc[c] = "await"
  /\ reply[c] = "ok"
  /\ pc' = [pc EXCEPT ![c] = "send"]
  /\ pos' = [pos EXCEPT ![c] = @ + 1]
  /\ UNCHANGED <<chainVars, nodeVars, originals, ops, created, updated, doomed, ready,
                 restores, reply>>

\* applyAllExtrinsics of the deletions, once everything has been sent: a contract
\* that has gone since it was looked up makes the chain reject the batch.  Here
\* too the batch may be included and throw, or never answer.
CancelDoomed(c) ==
  /\ pc[c] = "send"
  /\ pos[c] \notin Sent(c)
  /\ Unlocked(c)
  /\ doomed[c] \subseteq Live
  /\ contracts' = Without(contracts, doomed[c])
  /\ cancelled' = cancelled \cup doomed[c]
  /\ \/ pc' = [pc EXCEPT ![c] = "wait"] /\ UNCHANGED pos
     \/ AtBatch(c) /\ pc' = [pc EXCEPT ![c] = "hung"] /\ UNCHANGED pos
     \/ AtBatch(c) /\ pc' = [pc EXCEPT ![c] = "rollback"] /\ pos' = [pos EXCEPT ![c] = 1]
  /\ UNCHANGED <<nodeVars, originals, ops, created, updated, doomed, ready, restores, reply>>

\* What checkWorkload compares: as many workloads, and one of the same name
\* and version for each.
SameShape(held, wanted) ==
  /\ Len(held) = Len(wanted)
  /\ \A k \in DOMAIN held : \E j \in DOMAIN wanted :
       held[k].name = wanted[j].name /\ held[k].version = wanted[j].version

\* One poll of waitForDeployment that succeeds.
BecomeReady(c, i) ==
  /\ pc[c] = "wait"
  /\ i \in Sent(c) \ ready[c]
  /\ LET id == ops[c][i].id IN
       /\ id \in DOMAIN node
       /\ node[id].state = "ok"
       /\ SameShape(node[id].dep.workloads, ops[c][i].dep.workloads)
  /\ ready' = [ready EXCEPT ![c] = @ \cup {i}]
  /\ UNCHANGED <<chainVars, nodeVars, originals, pc, ops, pos, created, updated, doomed,
                 restores, reply>>

Finish(c) ==
  /\ pc[c] = "wait"
  /\ ready[c] = Sent(c)
  /\ pc' = [pc EXCEPT ![c] = "done"]
  /\ UNCHANGED <<chainVars, nodeVars, originals, ops, pos, created, updated, doomed, ready,
                 restores, reply>>

\* Mutant: waitForDeployment has no deadline.
ThrowNoDeadline(c) ==
  /\ pc[c] \in {"send", "sendUpdate", "await"}
  /\ Unlocked(c)
  /\ pc' = [pc EXCEPT ![c] = "rollback"]
  /\ pos' = [pos EXCEPT ![c] = 1]
  /\ UNCHANGED <<chainVars, nodeVars, originals, ops, created, updated, doomed, ready,
                 restores, reply>>

\* Mutant: the rollback counts its loop from the wrong end.
ThrowOffByOne(c) ==
  /\ pc[c] \in {"send", "sendUpdate", "await", "wait"}
  /\ Unlocked(c)
  /\ pc' = [pc EXCEPT ![c] = "rollback"]
  /\ pos' = [pos EXCEPT ![c] = 0]
  /\ UNCHANGED <<chainVars, nodeVars, originals, ops, created, updated, doomed, ready,
                 restores, reply>>

\* Any await of the try block may throw: a node that cannot be reached, refuses
\* or answers too late, a chain that rejects the deletions, a workload in
\* error, the deployment timeout, a key-value store that saveNetworks cannot
\* write.
Throw(c) ==
  /\ pc[c] \in {"send", "sendUpdate", "await", "wait"}
  /\ Unlocked(c)
  /\ pc' = [pc EXCEPT ![c] = "rollback"]
  /\ pos' = [pos EXCEPT ![c] = 1]
  /\ UNCHANGED <<chainVars, nodeVars, originals, ops, created, updated, doomed, ready,
                 restores, reply>>

-----------------------------------------------------------------------------
(* rollback(): cancel what was created, put back what was updated.           *)

\* rollback begins with a look at each created contract: it cancels those that
\* are there, and one that is gone drops out.
LookUp(c) ==
  /\ pc[c] = "rollback"
  /\ pos[c] = 1
  /\ \E k \in created[c] \ Live : created' = [created EXCEPT ![c] = @ \ {k}]
  /\ UNCHANGED <<chainVars, nodeVars, originals, pc, ops, pos, updated, doomed, ready,
                 restores, reply>>

\* One turn of the loop over contracts.updated.  The originals are taken from
\* the end of the shared list, whatever contract they came from.
ReadBack(c) ==
  /\ pc[c] = "rollback"
  /\ pos[c] \in DOMAIN updated[c]
  /\ LET id   == updated[c][pos[c]]
         held == node[id].dep
         last == originals[Len(originals)]
         back == UpdateDeployment(held.workloads, last.workloads, held.version)
     IN  /\ id \in DOMAIN node
         /\ IF originals = <<>>
            THEN UNCHANGED <<originals, restores>>
            ELSE /\ originals' = SubSeq(originals, 1, Len(originals) - 1)
                 /\ IF back.found
                    THEN /\ id \in Live
                         /\ restores' = [restores EXCEPT ![c] =
                              Append(@, [id  |-> id,
                                         dep |-> [workloads |-> back.workloads,
                                                  version |-> held.version + 1]])]
                    ELSE UNCHANGED restores
  /\ pos' = [pos EXCEPT ![c] = @ + 1]
  /\ UNCHANGED <<chainVars, nodeVars, pc, ops, created, updated, doomed, ready, reply>>

\* The rollback's own batchAll: all of it or nothing.
Revert(c) ==
  /\ pc[c] = "rollback"
  /\ pos[c] \notin DOMAIN updated[c]
  /\ Unlocked(c)
  /\ created[c] \cup RestoreIds(c) \subseteq Live
  /\ contracts' = [k \in Live \ created[c] |->
       IF k \in RestoreIds(c)
       THEN [contracts[k] EXCEPT !.dep =
               restores[c][CHOOSE j \in DOMAIN restores[c] : restores[c][j].id = k].dep]
       ELSE contracts[k]]
  /\ cancelled' = cancelled \cup created[c]
  /\ \/ pc' = [pc EXCEPT ![c] = "resend"]
     \/ AtBatch(c) /\ \E end \in {"hung", "stuck"} : pc' = [pc EXCEPT ![c] = end]
  /\ pos' = [pos EXCEPT ![c] = 1]
  /\ UNCHANGED <<nodeVars, originals, ops, created, updated, doomed, ready, restores, reply>>

Resend(c) ==
  /\ pc[c] = "resend"
  /\ pos[c] \in DOMAIN restores[c]
  /\ LET r == restores[c][pos[c]]
     IN  inflight' = inflight \cup {Message(c, "update", r.id, r.dep)}
  /\ pc' = [pc EXCEPT ![c] = "awaitRestore"]
  /\ reply' = [reply EXCEPT ![c] = "none"]
  /\ UNCHANGED <<chainVars, node, originals, ops, pos, created, updated, doomed, ready,
                 restores>>

Restored(c) ==
  /\ pc[c] = "awaitRestore"
  /\ reply[c] = "ok"
  /\ pc' = [pc EXCEPT ![c] = "resend"]
  /\ pos' = [pos EXCEPT ![c] = @ + 1]
  /\ UNCHANGED <<chainVars, nodeVars, originals, ops, created, updated, doomed, ready,
                 restores, reply>>

\* The rollback is over and the original exception is thrown again.
RolledBack(c) ==
  /\ pc[c] = "resend"
  /\ pos[c] \notin DOMAIN restores[c]
  /\ pc' = [pc EXCEPT ![c] = "failed"]
  /\ UNCHANGED <<chainVars, nodeVars, originals, ops, pos, created, updated, doomed, ready,
                 restores, reply>>

\* An exception inside rollback() leaves it where it is.  Before its batch the
\* created contracts stay; after it some updated deployments are not put back.
Abandon(c) ==
  /\ pc[c] \in {"rollback", "resend", "awaitRestore"}
  /\ Unlocked(c)
  /\ pc' = [pc EXCEPT ![c] = IF @ = "rollback" THEN "stuck" ELSE "unrestored"]
  /\ UNCHANGED <<chainVars, nodeVars, originals, ops, pos, created, updated, doomed, ready,
                 restores, reply>>

\* A batch goes out over a connection that drops, is not included and is never
\* answered.
Hang(c) ==
  /\ AtBatch(c)
  /\ Unlocked(c)
  /\ pc' = [pc EXCEPT ![c] = "hung"]
  /\ UNCHANGED <<chainVars, nodeVars, originals, ops, pos, created, updated, doomed, ready,
                 restores, reply>>

\* A request to a node: to read what it holds, to send it a deployment, or to poll
\* it.  rmb.request has no deadline of its own, and what it waits for may never come.
Asking(c) ==
  \/ pc[c] = "send" /\ pos[c] \in Updates(c)
  \/ pc[c] = "rollback" /\ pos[c] \in DOMAIN updated[c]
  \/ pc[c] = "wait" /\ ready[c] # Sent(c)
  \/ pc[c] \in {"await", "awaitRestore"}

Silence(c) ==
  /\ Asking(c)
  /\ pc' = [pc EXCEPT ![c] = "mute"]
  /\ UNCHANGED <<chainVars, nodeVars, originals, ops, pos, created, updated, doomed, ready,
                 restores, reply>>

-----------------------------------------------------------------------------
(* The zos nodes, as the handler relies on them.                             *)

Awaits(c, m) ==
  \/ /\ pc[c] = "await"
     /\ LET o == ops[c][pos[c]] IN m = Message(c, o.verb, o.id, o.dep)
  \/ /\ pc[c] = "awaitRestore"
     /\ LET r == restores[c][pos[c]] IN m = Message(c, "update", r.id, r.dep)

\* A node takes a deployment whose hash is that of an active contract and that
\* is new to it or one version ahead of what it holds.  The sender may have
\* given up by then; a request that is lost or refused simply stays unanswered.
NodeAccepts(m) ==
  /\ m \in inflight
  /\ m.id \in Live
  /\ contracts[m.id].dep = m.dep
  /\ IF m.verb = "deploy" THEN m.id \notin DOMAIN node
     ELSE m.id \in DOMAIN node /\ node[m.id].dep.version + 1 = m.dep.version
  /\ node' = [k \in DOMAIN node \cup {m.id} |->
                IF k = m.id THEN [dep |-> m.dep, state |-> "init"] ELSE node[k]]
  /\ inflight' = inflight \ {m}
  /\ reply' = [c \in Calls |-> IF c = m.from /\ Awaits(c, m) THEN "ok" ELSE reply[c]]
  /\ UNCHANGED <<chainVars, originals, pc, ops, pos, created, updated, doomed, ready, restores>>

\* The workloads of a deployment come up, or one of them does not.
NodeRuns(k) ==
  /\ node[k].state = "init"
  /\ \E s \in {"ok", "error"} : node' = [node EXCEPT ![k].state = s]
  /\ UNCHANGED <<chainVars, inflight, originals, pc, ops, pos, created, updated, doomed,
                 ready, restores, reply>>

\* A node drops the deployment of a cancelled contract.
NodeDrops(k) ==
  /\ k \in cancelled
  /\ node' = Without(node, {k})
  /\ UNCHANGED <<chainVars, inflight, originals, pc, ops, pos, created, updated, doomed,
                 ready, restores, reply>>

NodeStep == \/ \E m \in inflight : NodeAccepts(m)
            \/ \E k \in DOMAIN node : NodeRuns(k) \/ NodeDrops(k)

-----------------------------------------------------------------------------
Step(c) ==
  \/ Prepare(c) \/ Reserve(c) \/ Refuse(c)
  \/ ReadOriginal(c) \/ Send(c) \/ Answered(c) \/ CancelDoomed(c)
  \/ \E i \in Positions(c) : BecomeReady(c, i)
  \/ Finish(c) \/ Throw(c)
  \/ LookUp(c) \/ ReadBack(c) \/ Revert(c) \/ Resend(c)
  \/ Restored(c) \/ RolledBack(c) \/ Abandon(c) \/ Hang(c)

Next == (\E c \in Calls : Submit(c) \/ Step(c) \/ Silence(c)) \/ NodeStep

Spec == Init /\ [][Next]_vars

\* A call goes on after each await, except the two that may not end, each an action
\* of its own: a batch (Hang) and a request to a node (Silence; a deadline such as
\* that of waitForDeployment is looked at between awaits only).
FairSpec == Spec /\ \A c \in Calls : WF_vars(Step(c))

-----------------------------------------------------------------------------
\* Every variable has the shape the handler, the chain and the nodes give it.
TypeOK ==
  /\ Live \subseteq ContractIds
  /\ \A k \in Live : DOMAIN contracts[k] = {"dep", "name"}
  /\ cancelled \subseteq ContractIds
  /\ DOMAIN node \subseteq ContractIds
  /\ \A k \in DOMAIN node : /\ DOMAIN node[k] = {"dep", "state"}
                           /\ node[k].state \in {"init", "ok", "error"}
  /\ \A m \in inflight : m.from \in Calls /\ m.verb \in {"deploy", "update"}
  /\ pc \in [Calls -> {"idle", "prepare", "send", "sendUpdate", "await", "wait",
                       "rollback", "resend", "awaitRestore"} \cup Terminal]
  /\ pos \in [Calls -> Nat \ {0}]
  /\ created \in [Calls -> SUBSET ContractIds]
  /\ updated \in [Calls -> Seq(ContractIds)]
  /\ doomed \in [Calls -> SUBSET ContractIds]
  /\ ready \in [Calls -> SUBSET Nat]
  /\ reply \in [Calls -> {"none", "ok"}]

\* handle() that throws after its rollback, or without having reserved anything,
\* leaves no contract of its own on the chain, node or name contract, whatever
\* the other calls did meanwhile ("cancel all created contracts", line 408).
FailureLeavesNothing ==
  \A c \in Calls : pc[c] \in {"failed", "unrestored"} => Live \cap MadeBy(c) = {}

\* A contract leaves the chain for a reason: a call that has sent everything was
\* asked to delete it, or to delete the gateway whose name it reserves, or the call
\* that made it rolls back.  No rollback takes down what was there before or what
\* another call made.  Of name contracts the name decides and not the maker: the
\* lookup (line 503) finds whoever holds the name by then.
CancelledForAReason ==
  [][\A k \in Live \ DOMAIN contracts' : \E c \in Calls :
       \/ /\ pc[c] = "send" /\ pos[c] \notin Sent(c)
          /\ \E i \in Positions(c) :
               /\ ops[c][i].verb = "delete"
               /\ \/ k = ops[c][i].id
                  \/ ops[c][i].name # NoName /\ contracts[k].name = ops[c][i].name
       \/ pc[c] = "rollback" /\ k \in MadeBy(c)]_vars

\* From the time its deletions reach the chain until it reports success, every
\* deployment and update of a call is on its node, at the version it sent or a
\* later one, unless its contract has been cancelled since.
NothingDeletedEarly ==
  \A c \in Calls : pc[c] \in {"wait", "done"} =>
    \A i \in Sent(c) :
      LET o == ops[c][i] IN
        \/ o.id \in cancelled
        \/ o.id \in DOMAIN node /\ node[o.id].dep.version >= o.dep.version

\* What a contract's deployment ran before anything updated it.
Original(k) == IF k.by \in Calls THEN ops[k.by][k.op].dep.workloads ELSE OldWorkloads[k]

\* The handler object serves one update at most.
OneUpdate == \A c, d \in Calls : \A i \in Updates(c), j \in Updates(d) : c = d /\ i = j

\* A deployment that the rollback of a failed call has put back runs what it ran
\* before, whatever answers came late and whatever the other calls did.  The shared
\* list of originals (line 425) makes this hold only while a handler object serves
\* one update: with two, each may get the workloads of the other.  And the rollback
\* goes through UpdateDeployment, which does not undo every update it has made.
RestoredIsOriginal ==
  OneUpdate =>
    \A c \in Calls : pc[c] = "failed" =>
      \A i \in Updates(c) :
        LET k == ops[c][i].id IN
          k \in RestoreIds(c) \cap DOMAIN node /\ Undoable(Original(k), ops[c][i].dep.workloads) =>
            Contents(node[k].dep.workloads) = Contents(Original(k))

\* handle() returns or throws, unless a batch of this or of another call went out over
\* a connection that dropped, or a node never answered a request of its own (mute):
\* nothing else keeps it waiting, be it a lock that is free again or a workload that
\* never comes up (line 106).
CallEnds == \A c \in Calls :
  pc[c] # "idle" ~> pc[c] \in Terminal \/ \E d \in Calls : pc[d] = "hung"

-----------------------------------------------------------------------------
\* The transaction a call stands for (AtomicProvisioning).
PhaseOf(p) ==
  CASE p \in {"idle", "prepare"} -> "idle"
    [] p \in {"send", "sendUpdate", "await"} -> "open"
    [] p = "wait" -> "sealed"
    [] p = "done" -> "committed"
    [] p = "rollback" -> "retreating"
    [] p \in {"resend", "awaitRestore", "failed", "unrestored"} -> "aborted"
    [] p = "mute" -> "hung"
    [] OTHER -> p  \* lost, stuck, hung

Phase == [c \in Calls |-> PhaseOf(pc[c])]

Atomic == INSTANCE AtomicProvisioning
            WITH Transactions <- Calls, Contracts <- ContractIds, Initial <- Preexisting,
                 Own <- MadeBy, live <- Live, phase <- Phase

\* On the chain handle() is an atomic transaction: all of its contracts appear
\* at once, its deletions vanish at once and spare what it made, and a rollback
\* takes away exactly what it made.
AllOrNothing == Atomic!Spec

=============================================================================
