---------------------------- MODULE BaseModule ----------------------------
(***************************************************************************)
(* The deployments of a module (modules/base.ts, with its callers of       *)
(* machines.ts): deploy, get, update, add and delete a deployment by name. *)
(* Which contracts belong to the name is known from the indexer, which     *)
(* lags behind the chain, from two static lists that complete its answer,  *)
(* and from the listing the module keeps (this.contracts).                 *)
(*                                                                         *)
(* One name of one module.  Of handle() there is what it leaves behind:    *)
(* contracts appear; then the nodes carry them and the deletions are done, *)
(* or it fails, and is rolled back or not.                                 *)
(***************************************************************************)
EXTENDS Naturals, Sequences, FiniteSets, Functions, TLC, DeploymentUpdate

CONSTANTS
  Calls,
  Wishes,     \* what is asked for: sets of deployments [node, ip, wls]
  Extras,     \* what is added: single deployments
  NoIp,       \* a deployment without a public address
  NoNode,
  Unlisted,   \* this.contracts before the first listing
  MaxBusy,    \* how many calls are under way at once
  MaxCrashes  \* how often the process is restarted

Deployments == (UNION Wishes) \cup Extras

\* merge() leaves one deployment per node and public address, and an address is
\* named after its machine; the machines of a deployment have different names
\* (machines.ts:88, high_level/machine.ts:157).
ASSUME BaseAssumption ==
  /\ MaxBusy \in Nat /\ MaxCrashes \in Nat
  /\ \A w \in Wishes : IsFiniteSet(w)
  /\ \A w \in Wishes : \A t, u \in w :
       t.ip = u.ip /\ (t.node = u.node \/ t.ip # NoIp) => t = u
  /\ \A t \in Deployments :
       t = [node |-> t.node, ip |-> t.ip, wls |-> t.wls] /\ t.wls \in Seq(Workload)
  /\ \A t \in Deployments : \A i, j \in DOMAIN t.wls :
       t.wls[i].type = "machine" /\ t.wls[j].type = "machine" /\ t.wls[i].name = t.wls[j].name
         => i = j

VARIABLES
  made,       \* contracts so far
  chain,      \* the active contracts
  site,       \* the node of every contract there ever was, and the call it is from
  body,       \* the deployment each active contract has on its node
  indexed,    \* the contracts the indexer lists
  newContracts, deletedContracts,    \* the static lists
  aged,       \* entries of newContracts that are over a minute old
  contracts,  \* this.contracts
  pc, job, answer, todo, found, plan,  \* of each call
  crashes,
  before,     \* history: the calls that were over when a call began
  overlapped, \* history: two calls have been under way at once
  lost,       \* history: contracts no static list has, or had when an older
              \* answer of the indexer was merged
  emptied     \* history: contracts written off while they were active

grid == <<made, chain, site, body>>
lists == <<newContracts, deletedContracts, aged>>
local == <<job, answer, todo, found, plan>>
history == <<before, overlapped, lost, emptied>>
vars == <<grid, indexed, lists, contracts, pc, local, crashes, history>>

Over == {"done", "failed"}
Busy == {c \in Calls : pc[c] \notin Over \cup {"idle"}}
NoJob == [op |-> "none"]
NoPlan == [create |-> {}, update |-> <<>>, delete |-> {}, new |-> <<>>]

Init ==
  /\ made = 0 /\ chain = {} /\ site = <<>> /\ body = <<>> /\ indexed = {}
  /\ newContracts = {} /\ deletedContracts = {} /\ aged = {}
  /\ contracts = Unlisted
  /\ pc = [c \in Calls |-> "idle"]
  /\ job = [c \in Calls |-> NoJob]
  /\ answer = [c \in Calls |-> {}]
  /\ todo = [c \in Calls |-> {}]
  /\ found = [c \in Calls |-> <<>>]
  /\ plan = [c \in Calls |-> NoPlan]
  /\ crashes = 0
  /\ before = [c \in Calls |-> {}] /\ overlapped = FALSE /\ lost = {} /\ emptied = {}

-----------------------------------------------------------------------------
(* The listing.                                                              *)

\* Mutant: the static list is not looked at.
IndexedOnly(from) == from \ deletedContracts

\* getMyContracts: the indexer's answer, completed by the static lists.
Listing(from) == (from \cup newContracts) \ deletedContracts

\* A call begins: deploy, get, update, add or delete, and the indexer is asked.
Ask(c) ==
  /\ pc[c] = "idle"
  /\ Cardinality(Busy) < MaxBusy
  /\ \/ \E op \in {"get", "delete"} : job' = [job EXCEPT ![c] = [op |-> op]]
     \/ \E op \in {"deploy", "update"}, w \in Wishes :
          job' = [job EXCEPT ![c] = [op |-> op, wish |-> w]]
     \/ \E x \in Extras : job' = [job EXCEPT ![c] = [op |-> "add", extra |-> x]]
  /\ answer' = [answer EXCEPT ![c] = indexed]
  /\ pc' = [pc EXCEPT ![c] = "asking"]
  /\ before' = [before EXCEPT ![c] = {d \in Calls : pc[d] \in Over}]
  /\ overlapped' = (overlapped \/ Busy # {})
  /\ UNCHANGED <<grid, indexed, lists, contracts, todo, found, plan, crashes, lost,
                 emptied>>

\* The call is over.
End(c, how) ==
  /\ pc' = [pc EXCEPT ![c] = how]
  /\ job' = [job EXCEPT ![c] = NoJob]
  /\ answer' = [answer EXCEPT ![c] = {}]
  /\ todo' = [todo EXCEPT ![c] = {}]
  /\ found' = [found EXCEPT ![c] = <<>>]
  /\ plan' = [plan EXCEPT ![c] = NoPlan]

Fail(c) ==
  /\ End(c, "failed")
  /\ UNCHANGED <<grid, indexed, lists, contracts, crashes, history>>

\* The answer has come: entries the indexer has by now, and that are over a
\* minute old, leave the static list for good.  deploy goes on when the name is
\* not listed, the others when it is.
Merge(c) ==
  /\ pc[c] = "asking"
  /\ LET listed == Listing(answer[c])
         dropped == aged \cap answer[c]
     IN /\ contracts' = listed
        /\ newContracts' = newContracts \ dropped
        /\ aged' = aged \ dropped
        /\ lost' = lost \cup
             {k \in dropped : \E d \in Calls \ {c} : pc[d] = "asking" /\ k \notin answer[d]}
        /\ IF (job[c].op = "deploy") = (listed = {})
           THEN /\ todo' = [todo EXCEPT ![c] = listed]
                /\ answer' = [answer EXCEPT ![c] = {}]
                /\ pc' = [pc EXCEPT ![c] = IF listed = {} THEN "planning" ELSE "getting"]
                /\ UNCHANGED <<job, found, plan>>
           ELSE End(c, IF job[c].op \in {"get", "delete"} THEN "done" ELSE "failed")
  /\ UNCHANGED <<grid, indexed, deletedContracts, crashes, before, overlapped, emptied>>

-----------------------------------------------------------------------------
(* _get.                                                                     *)

\* Nothing runs: no workload is left but, it may be, the network's.
Vacant(d) == \A i \in DOMAIN d.wls : d.wls[i].type = NetworkType

\* A contract is written off; the save may throw when the list knows of it.
WriteOff(c, k) ==
  /\ deletedContracts' = deletedContracts \cup {k}
  /\ emptied' = emptied \cup ({k} \cap chain)
  /\ \/ todo' = [todo EXCEPT ![c] = @ \ {k}] /\ UNCHANGED <<pc, job, answer, found, plan>>
     \/ End(c, "failed")
  /\ UNCHANGED <<grid, indexed, newContracts, aged, contracts, crashes, before, overlapped,
                 lost>>

\* A deployment has come from its node.
Note(c, k) ==
  /\ found' = [found EXCEPT ![c] = [x \in DOMAIN @ \cup {k} |-> IF x = k THEN body[k] ELSE @[x]]]
  /\ todo' = [todo EXCEPT ![c] = @ \ {k}]
  /\ UNCHANGED <<grid, indexed, lists, contracts, pc, job, answer, plan, crashes, history>>

\* Mutant: a node that does not answer counts as one that has nothing.
InspectRash(c, k) ==
  /\ pc[c] = "getting"
  /\ k \in todo[c]
  /\ \/ WriteOff(c, k)
     \/ k \in DOMAIN body /\ ~Vacant(body[k]) /\ Note(c, k)

\* A contract that is gone is written off, and so is one whose node has nothing
\* running for it, active or not.  When the chain or the node does not answer, when
\* the node does not have the deployment yet, or the storage throws before the list
\* knows of the contract, the call throws.
Inspect(c, k) ==
  /\ pc[c] = "getting"
  /\ k \in todo[c]
  /\ \/ (k \notin chain \/ (k \in DOMAIN body /\ Vacant(body[k]))) /\ WriteOff(c, k)
     \/ k \in DOMAIN body /\ ~Vacant(body[k]) /\ Note(c, k)
     \/ Fail(c)

\* All have been looked at: get is over.
Got(c) ==
  /\ pc[c] = "getting" /\ todo[c] = {}
  /\ IF job[c].op = "get"
     THEN End(c, "done")
     ELSE pc' = [pc EXCEPT ![c] = "planning"] /\ UNCHANGED local
  /\ UNCHANGED <<grid, indexed, lists, contracts, crashes, history>>

-----------------------------------------------------------------------------
(* What deploy, update and add have handle() do.                             *)

Machines(wls) == {wls[i] : i \in {i \in DOMAIN wls : wls[i].type = "machine"}}
MachineNames(wls) == {w.name : w \in Machines(wls)}

\* _getNodeIdFromContractId: as this.contracts has it by now.
SiteOf(k) == IF k \in contracts THEN site[k].node ELSE NoNode

\* The wished deployments for nodes that this.contracts has.
OnSameNodes(wish) == {t \in wish : \E k \in contracts : t.node = site[k].node}

\* reject_update_pubIP_of_oldDeployment
Rejected(olds, same) ==
  \E k \in DOMAIN olds :
    \/ olds[k].ip # NoIp /\ same = {}
    \/ \E t \in same :
         /\ t.node = SiteOf(k)
         /\ MachineNames(olds[k].wls) \cap MachineNames(t.wls) # {}
         /\ t.ip # olds[k].ip
         /\ NoIp \in {t.ip, olds[k].ip}

\* The wished deployment an old one is brought to: on the same node, and with
\* the same public address or both without.
Matches(k, olds, same) == {t \in same : t.node = SiteOf(k) /\ t.ip = olds[k].ip}

Renewed(old, t) == UpdateDeployment(old.wls, t.wls, 0)

\* Mutant: an old deployment that is not wished any more stays.
PlanKeeping(olds, wish) ==
  LET same == OnSameNodes(wish)
      matched == {k \in DOMAIN olds : Matches(k, olds, same) # {}}
      new(k) == Renewed(olds[k], CHOOSE t \in Matches(k, olds, same) : TRUE)
  IN  [create |-> (wish \ same) \cup
         {t \in same : t.ip # NoIp /\ \A k \in matched : olds[k].ip # t.ip},
       update |-> [k \in {k \in matched : new(k).found} |-> new(k).workloads],
       delete |-> {}, new |-> <<>>]

\* _update: deployments on other nodes are new, old ones without a match go.
\* Of the wished ones on the same nodes that match none, only those with a
\* public address are made.
UpdatePlan(olds, wish) ==
  LET same == OnSameNodes(wish)
      matched == {k \in DOMAIN olds : Matches(k, olds, same) # {}}
      new(k) == Renewed(olds[k], CHOOSE t \in Matches(k, olds, same) : TRUE)
  IN  [create |-> (wish \ same) \cup
         {t \in same : t.ip # NoIp /\ \A k \in matched : olds[k].ip # t.ip},
       update |-> [k \in {k \in matched : new(k).found} |-> new(k).workloads],
       delete |-> DOMAIN olds \ matched, new |-> <<>>]

\* _add: the machine joins the contract k of its node, if that has no public
\* address and the machine needs none; otherwise it gets one of its own.
AddPlan(olds, x, k) ==
  IF x.ip = NoIp /\ k \in DOMAIN olds /\ olds[k].ip = NoIp
  THEN [NoPlan EXCEPT !.update =
          [y \in {k} |-> UpdateDeployment(olds[k].wls, olds[k].wls \o x.wls, 0).workloads]]
  ELSE [NoPlan EXCEPT !.create = {x}]

\* _getContractIdFromNodeId: the first contract listed for the node, 0 if none.
ContractsAt(n) ==
  LET ks == {k \in contracts : site[k].node = n} IN IF ks = {} THEN {0} ELSE ks

\* The plans a call may come to.
Plans(c) ==
  CASE job[c].op = "deploy" -> {[NoPlan EXCEPT !.create = job[c].wish]}
    [] job[c].op = "update" -> {UpdatePlan(found[c], job[c].wish)}
    [] job[c].op = "add" ->
         {AddPlan(found[c], job[c].extra, k) : k \in ContractsAt(job[c].extra.node)}

\* What the modules refuse before they plan.  They take the network from the first
\* machine they have found, and throw when there is none.
Refused(c) ==
  \/ /\ job[c].op \in {"update", "add"}
     /\ \A k \in DOMAIN found[c] : Machines(found[c][k].wls) = {}
  \/ /\ job[c].op = "update"
     /\ Rejected(found[c], OnSameNodes(job[c].wish))
  \/ /\ job[c].op = "add"
     /\ \E k \in DOMAIN found[c] :
          NamesOf(found[c][k].wls) \cap MachineNames(job[c].extra.wls) # {}

Touched(p) == DOMAIN p.update \cup p.delete

\* handle() creates the contracts, or finds one gone that it is to update, or there
\* is nothing to do.  A deletion of a contract that is gone makes the plan throw, or
\* is passed over if the contract went after its node was looked up.
Open(c) ==
  /\ pc[c] = "planning" /\ job[c].op # "delete"
  /\ UNCHANGED <<body, indexed, lists, contracts, crashes, history>>
  /\ \/ /\ Refused(c)
        /\ End(c, "failed") /\ UNCHANGED <<made, chain, site>>
     \/ /\ ~Refused(c)
        /\ \E q \in Plans(c) : LET p == [q EXCEPT !.delete = @ \cap chain] IN
             \/ /\ ~(Touched(q) \subseteq chain)
                /\ End(c, "failed") /\ UNCHANGED <<made, chain, site>>
             \/ /\ p.create = {} /\ Touched(p) = {}
                /\ End(c, "done") /\ UNCHANGED <<made, chain, site>>
             \/ /\ p.create # {} \/ Touched(p) # {}
                /\ DOMAIN p.update \subseteq chain
                /\ LET ids == (made + 1) .. (made + Cardinality(p.create))
                       new == CHOOSE f \in [ids -> p.create] : Range(f) = p.create
                   IN /\ made' = made + Cardinality(p.create)
                      /\ chain' = chain \cup ids
                      /\ site' = [k \in 1 .. made' |->
                           IF k \in ids
                           THEN [node |-> new[k].node, by |-> c, op |-> job[c].op]
                           ELSE site[k]]
                      /\ plan' = [plan EXCEPT ![c] = [p EXCEPT !.new = new]]
                      /\ pc' = [pc EXCEPT ![c] = "handling"]
                      /\ UNCHANGED <<job, answer, todo, found>>

\* Mutant: a deleted contract leaves its deployment behind.
CommitLeaving(c) ==
  LET p == plan[c] IN
    /\ pc[c] = "handling"
    /\ Touched(p) \subseteq chain
    /\ chain' = chain \ p.delete
    /\ body' = [k \in DOMAIN body \cup DOMAIN p.new |->
         IF k \in DOMAIN p.new THEN p.new[k]
         ELSE IF k \in DOMAIN p.update THEN [body[k] EXCEPT !.wls = p.update[k]]
         ELSE body[k]]
    /\ pc' = [pc EXCEPT ![c] = "saving"]
    /\ UNCHANGED <<made, site, indexed, lists, contracts, local, crashes, history>>

\* The nodes carry the new deployments and the updates, and the deletions are done.
Commit(c) ==
  LET p == plan[c] IN
    /\ pc[c] = "handling"
    /\ Touched(p) \subseteq chain
    /\ chain' = chain \ p.delete
    /\ body' = [k \in (DOMAIN body \ p.delete) \cup DOMAIN p.new |->
         IF k \in DOMAIN p.new THEN p.new[k]
         ELSE IF k \in DOMAIN p.update THEN [body[k] EXCEPT !.wls = p.update[k]]
         ELSE body[k]]
    /\ pc' = [pc EXCEPT ![c] = "saving"]
    /\ UNCHANGED <<made, site, indexed, lists, contracts, local, crashes, history>>

\* What a deployment that handle() was to update runs when it fails: what it ran,
\* unless the deletions are through already, or what it was to run.
Left(p, k, gone) ==
  {p.update[k]} \cup (IF gone = {} THEN {body[k].wls} ELSE {})

\* Or, after a rollback, what it ran, brought back by UpdateDeployment.
Restored(p, k, gone) ==
  LET back == UpdateDeployment(p.update[k], body[k].wls, 0)
  IN  Left(p, k, gone) \cup (IF back.found THEN {back.workloads} ELSE {})

\* The deletions of a plan are one transaction, and come last.
Deletions(p) == {{}} \cup {gone \in {p.delete} : gone \subseteq chain}

\* handle() fails and is rolled back.  Deletions are not, and no list learns of them.
Abort(c) ==
  LET p == plan[c]
      both == DOMAIN p.update \cap DOMAIN body IN
    /\ pc[c] = "handling"
    /\ \E gone \in Deletions(p) :
       \E wls \in [both -> UNION {Restored(p, k, gone) : k \in both}] :
         /\ \A k \in both : wls[k] \in Restored(p, k, gone)
         /\ chain' = (chain \ DOMAIN p.new) \ gone
         /\ body' = [k \in DOMAIN body \ gone |->
              IF k \in both THEN [body[k] EXCEPT !.wls = wls[k]] ELSE body[k]]
    /\ End(c, "failed")
    /\ UNCHANGED <<made, site, indexed, lists, contracts, crashes, history>>

\* handle() fails and is not: the answer of the batch is lost, or the rollback
\* throws.  The new contracts stay, sent or not, and no list has them.
Abandon(c) ==
  LET p == plan[c]
      both == DOMAIN p.update \cap DOMAIN body IN
    /\ pc[c] = "handling"
    /\ \E gone \in Deletions(p) : \E sent \in SUBSET DOMAIN p.new :
       \E wls \in [both -> UNION {Left(p, k, gone) : k \in both}] :
         /\ gone # {} => sent = DOMAIN p.new
         /\ \A k \in both : wls[k] \in Left(p, k, gone)
         /\ chain' = chain \ gone
         /\ body' = [k \in (DOMAIN body \ gone) \cup sent |->
              IF k \in sent THEN p.new[k]
              ELSE IF k \in both THEN [body[k] EXCEPT !.wls = wls[k]] ELSE body[k]]
    /\ lost' = lost \cup (DOMAIN p.new \ indexed)
    /\ End(c, "failed")
    /\ UNCHANGED <<made, site, indexed, lists, contracts, crashes, before, overlapped,
                   emptied>>

\* delete goes through the deployments one by one; when one fails, those before it
\* are gone and nothing is saved.  One that is gone already makes it fail, or is
\* passed over.
Cancel(c, k) ==
  /\ pc[c] = "planning" /\ job[c].op = "delete"
  /\ k \in DOMAIN found[c]
  /\ \/ /\ chain' = chain \ {k}
        /\ body' = Restrict(body, DOMAIN body \ {k})
        /\ found' = [found EXCEPT ![c] = Restrict(@, DOMAIN @ \ {k})]
        /\ plan' = [plan EXCEPT ![c].delete = @ \cup ({k} \cap chain)]
        /\ UNCHANGED <<made, site, indexed, lists, contracts, pc, job, answer, todo,
                       crashes, history>>
     \/ Fail(c)

Cancelled(c) ==
  /\ pc[c] = "planning" /\ job[c].op = "delete"
  /\ DOMAIN found[c] = {}
  /\ pc' = [pc EXCEPT ![c] = "saving"]
  /\ UNCHANGED <<grid, indexed, lists, contracts, local, crashes, history>>

-----------------------------------------------------------------------------
(* save, the indexer, time and restarts.                                     *)

\* A batch of cancellations gives back the id of the last one for each: update has
\* one batch, delete one for each deployment, which may end with its network's.
Reported(c) ==
  {known \in SUBSET plan[c].delete : job[c].op = "delete" \/ \A x, y \in known : x = y}

\* save: the static lists learn of the contracts.
Save(c) ==
  /\ pc[c] = "saving"
  /\ newContracts' = newContracts \cup DOMAIN plan[c].new
  /\ \E known \in Reported(c) : deletedContracts' = deletedContracts \cup known
  /\ End(c, "done")
  /\ UNCHANGED <<grid, indexed, aged, contracts, crashes, history>>

\* The storage throws: at the list that is loaded first, or at an entry that is
\* written after the lists have learnt of some of the contracts.
SaveFails(c) ==
  /\ pc[c] = "saving"
  /\ \/ /\ lost' = lost \cup (DOMAIN plan[c].new \ indexed)
        /\ UNCHANGED <<newContracts, deletedContracts>>
     \/ /\ newContracts' = newContracts \cup DOMAIN plan[c].new
        /\ \E known \in Reported(c) : deletedContracts' = deletedContracts \cup known
        /\ UNCHANGED lost
  /\ End(c, "failed")
  /\ UNCHANGED <<grid, indexed, aged, contracts, crashes, before, overlapped, emptied>>

\* The indexer catches up with one contract.
Index(k) ==
  /\ (k \in chain) # (k \in indexed)
  /\ indexed' = IF k \in chain THEN indexed \cup {k} ELSE indexed \ {k}
  /\ UNCHANGED <<grid, lists, contracts, pc, local, crashes, history>>

\* An entry becomes older than a minute.
Age(k) ==
  /\ k \in newContracts \ aged
  /\ aged' = aged \cup {k}
  /\ UNCHANGED <<grid, indexed, newContracts, deletedContracts, contracts, pc, local,
                 crashes, history>>

\* The process stops and is started again.
Crash ==
  /\ crashes < MaxCrashes
  /\ crashes' = crashes + 1
  /\ pc' = [c \in Calls |-> IF c \in Busy THEN "failed" ELSE pc[c]]
  /\ job' = [c \in Calls |-> NoJob] /\ answer' = [c \in Calls |-> {}]
  /\ todo' = [c \in Calls |-> {}] /\ found' = [c \in Calls |-> <<>>]
  /\ plan' = [c \in Calls |-> NoPlan]
  /\ newContracts' = {} /\ deletedContracts' = {} /\ aged' = {}
  /\ contracts' = Unlisted
  /\ lost' = lost \cup (chain \ indexed)
  /\ UNCHANGED <<grid, indexed, before, overlapped, emptied>>

Next ==
  \/ \E c \in Calls :
       \/ Ask(c) \/ Merge(c) \/ Got(c) \/ Open(c) \/ Commit(c) \/ Abort(c)
       \/ Abandon(c) \/ Cancelled(c) \/ Save(c) \/ SaveFails(c)
       \/ \E k \in 1 .. made : Inspect(c, k) \/ Cancel(c, k)
  \/ \E k \in 1 .. made : Index(k) \/ Age(k)
  \/ Crash

Spec == Init /\ [][Next]_vars

-----------------------------------------------------------------------------
\* Every variable has the values base.ts gives it.
TypeOK ==
  /\ chain \subseteq 1 .. made /\ DOMAIN site = 1 .. made
  /\ DOMAIN body \subseteq chain
  /\ indexed \subseteq 1 .. made /\ newContracts \subseteq 1 .. made
  /\ deletedContracts \subseteq 1 .. made /\ aged \subseteq newContracts
  /\ contracts = Unlisted \/ contracts \subseteq 1 .. made
  /\ pc \in [Calls -> {"idle", "asking", "getting", "planning", "handling", "saving"}
                        \cup Over]
  /\ \A c \in Calls : DOMAIN found[c] \subseteq 1 .. made /\ todo[c] \subseteq 1 .. made
  /\ crashes \in 0 .. MaxCrashes

\* Two calls, neither of which was over when the other began.
AtOnce(c, d) == c # d /\ c \notin before[d] /\ d \notin before[c]

\* A name that is taken is not deployed again (machines.ts:161), though the
\* indexer may not have the contracts of the first deployment yet (base.ts:
\* 261-312): unless the two were under way at once, or what is left of one was
\* in no list, or had been written off for empty.
OneDeployment ==
  \A k, x \in chain :
    site[k].op = "deploy" /\ site[x].op = "deploy" /\ site[k].by # site[x].by =>
      \/ AtOnce(site[k].by, site[x].by)
      \/ \E d \in {site[k].by, site[x].by} :
           {y \in chain : site[y].by = d} \subseteq lost \cup emptied

\* An active contract is written off only by a call that has found nothing running
\* on its node (base.ts:625-636), and nothing comes to run there unseen, unless calls
\* overlap: not when its node does not answer, nor when the call that cancels it
\* fails (base.ts:609-637, 1021-1057).
NotWrittenOff ==
  \A k \in deletedContracts \cap chain :
    k \in emptied /\ (overlapped \/ (k \in DOMAIN body /\ Vacant(body[k])))

\* No workload is named like one of another type.  Nothing refuses, say, a disk with
\* the name of a machine, and UpdateDeployment compares names only.
OneType ==
  \A t, u \in Deployments : \A i \in DOMAIN t.wls : \A j \in DOMAIN u.wls :
    t.wls[i].name = u.wls[j].name => t.wls[i].type = u.wls[j].type

\* The machines wished for, or running, with their node.
Wanted(wish) == UNION {{[node |-> t.node, name |-> w.name, data |-> w.data] :
                          w \in Machines(t.wls)} : t \in wish}
Running == Wanted({body[k] : k \in DOMAIN body})

\* update brings the machines to those wished for (base.ts:867-922): none is left
\* that is not wished for, and one is missing only
\* (1) when it has no public address, its node is one of those listed for the
\*     name, and no old deployment there is without one (base.ts:884-907);
\* (2) when the old deployment of its node keeps no workload (deployment.ts:58-62);
\* (3) when, for every workload it keeps, a change to it comes first in the
\*     wished list (deployment.ts:63-100).
UpdateReaches ==
  \A c \in Calls :
    pc[c] = "saving" /\ job[c].op = "update" /\ ~overlapped /\ lost = {} =>
      /\ Running \subseteq Wanted(job[c].wish)
      /\ \A t \in job[c].wish : \A j \in DOMAIN t.wls :
           LET w == t.wls[j]
               olds == {k \in DOMAIN found[c] :
                          found[c][k].node = t.node /\ found[c][k].ip = t.ip}
               kept(k) == {o \in Range(found[c][k].wls) :
                             o.type # NetworkType /\ o.name \in NamesOf(t.wls)}
           IN  w.type = "machine" /\ [node |-> t.node, name |-> w.name, data |-> w.data]
                                        \notin Running =>
                 \/ /\ t.ip = NoIp /\ olds = {}
                    /\ \E k \in contracts : site[k].node = t.node
                 \/ \E k \in olds :
                      \A o \in kept(k) : \E i \in 1 .. (j - 1) :
                        t.wls[i].name = o.name /\ t.wls[i].data # o.data
=============================================================================
