-------------------------- MODULE PrivateNetwork --------------------------
(***************************************************************************)
(* The private network of a user's machines (primitives/network.ts, with   *)
(* the callers in high_level/machine.ts and high_level/base.ts).  There is *)
(* no record of it anywhere but on the nodes: each call lists the network  *)
(* contracts with the indexer, which lags behind the chain, reads the      *)
(* network's workload from every node, chooses free subnets and addresses, *)
(* works out the peers of every node and has the result deployed.          *)
(*                                                                         *)
(* One network of one process.  A key pair is named by the contract it was *)
(* made with.  Subnets count from the second one of the network's range,   *)
(* and addresses, each with its subnet, from the second one of the         *)
(* subnet's, as in the code.                                               *)
(***************************************************************************)
EXTENDS Naturals, FiniteSets, Functions

CONSTANTS
  Nodes,
  Hidden,      \* the nodes without a public address
  Gateways,    \* the nodes with a public configuration (access nodes)
  Calls,       \* deployments and removals of a machine
  NoNode,
  Wishes,      \* what may be deployed: the node, whether access is wanted, and
               \* by which access node (NoNode: any)
  MaxBusy,     \* how many calls are under way at once
  MaxCrashes   \* how often the process is restarted

ASSUME NetworkAssumption ==
  /\ Hidden \subseteq Nodes
  /\ Gateways \subseteq Nodes \ Hidden
  /\ Gateways # {}
  /\ NoNode \notin Nodes
  /\ Wishes \subseteq [node : Nodes, access : BOOLEAN, via : Gateways \cup {NoNode}]
  /\ MaxBusy \in Nat
  /\ MaxCrashes \in Nat

VARIABLES
  made,       \* contracts and user keys so far: the next one is made + 1
  chain,      \* the network contracts there are
  carried,    \* the workload each of them has on its node: subnet, key pair, peers
  indexed,    \* the contracts the indexer lists
  machines,   \* the machines there are, with node, network contract and address
  users,      \* the access points given to users
  newContracts, deletedContracts,   \* the static lists
  pc, job, answer, todo, view, plan,  \* of each call
  crashes,
  before,     \* history: the calls that were over when a call began
  overlapped, \* history: two calls have been under way at once
  cutOff,     \* history: a crash has cut a call off, or a rollback has failed
  halfSent,   \* history: updates of a deployment that failed are on the nodes, and
              \* none that was sent in full has come after
  forgotten   \* history: contracts the static list lost before every listing
              \* could have them from the indexer

world == <<made, chain, carried, machines, users>>
lists == <<newContracts, deletedContracts>>
local == <<job, answer, todo, view, plan>>
history == <<before, overlapped, cutOff, halfSent, forgotten>>
vars == <<world, indexed, lists, pc, local, crashes, history>>

Over == {"done", "failed"}
Busy == {c \in Calls : pc[c] \notin Over \cup {"idle"}}
NoJob == [op |-> "none"]
NoPlan == [put |-> {}, new |-> {}, machine |-> {}, users |-> {}, drop |-> {}]

Init ==
  /\ made = 0 /\ chain = {} /\ carried = <<>> /\ indexed = {}
  /\ machines = {} /\ users = {}
  /\ newContracts = {} /\ deletedContracts = {}
  /\ pc = [c \in Calls |-> "idle"]
  /\ job = [c \in Calls |-> NoJob]
  /\ answer = [c \in Calls |-> {}]
  /\ todo = [c \in Calls |-> {}]
  /\ view = [c \in Calls |-> {}]
  /\ plan = [c \in Calls |-> NoPlan]
  /\ crashes = 0
  /\ before = [c \in Calls |-> {}] /\ overlapped = FALSE
  /\ cutOff = FALSE /\ halfSent = FALSE /\ forgotten = {}

-----------------------------------------------------------------------------
(* Subnets, addresses and peers.                                             *)

\* getFreeSubnet and getFreeIP: the first free one, from the second on.
FirstFree(reserved) ==
  CHOOSE s \in 2 .. (Cardinality(reserved) + 2) :
    /\ s \notin reserved
    /\ \A t \in 2 .. (s - 1) : t \in reserved

\* getAccessPoints: the peers without an endpoint whose key is no node's.
AccessPoints(nets) ==
  {[key |-> p[2].key, node |-> p[1].node, subnet |-> p[2].subnet] :
     p \in {q \in UNION {{n} \X n.peers : n \in nets} :
              ~q[2].direct /\ \A n \in nets : n.wg # q[2].key}}

\* Mutant: the subnets of the access points are not looked at.
ReservedByNodes(nets, points) == {x.subnet : x \in nets}

\* getReservedSubnets: those of the nodes and of the access points.
Reserved(nets, points) == {x.subnet : x \in nets \cup points}

\* The hidden nodes of a network that has other nodes.
HiddenNets(nets) ==
  {n \in nets : n.node \in Hidden /\ Cardinality(nets) > 1}

\* A hidden node is an access point of the access node chosen for it.
Behind(nets, relay) ==
  {[key |-> n.wg, node |-> relay[n], subnet |-> n.subnet] : n \in HiddenNets(nets)}

\* Mutant: the access points of the users are not carried over.
PeersForgetful(n, nets, points, relay) ==
  {[key |-> m.wg, subnet |-> m.subnet, direct |-> TRUE, routes |-> {m.subnet}] :
     m \in {m \in nets : m.node # n.node /\ m.node \notin Hidden}}
  \cup {[key |-> p.key, subnet |-> p.subnet, direct |-> FALSE, routes |-> {p.subnet}] :
     p \in {p \in Behind(nets, relay) : p.node = n.node}}

\* Mutant: what is behind an access node is not routed through it.
PeersUnrouted(n, nets, points, relay) ==
  {[key |-> m.wg, subnet |-> m.subnet, direct |-> TRUE, routes |-> {m.subnet}] :
     m \in {m \in nets : m.node # n.node /\ m.node \notin Hidden}}
  \cup {[key |-> p.key, subnet |-> p.subnet, direct |-> FALSE, routes |-> {p.subnet}] :
     p \in {p \in points \cup Behind(nets, relay) : p.node = n.node}}

\* generatePeers, for one node: the nodes it can reach, each with the subnets
\* behind it; for a hidden node only its access node, with all the subnets.
Peers(n, nets, points, relay) ==
  LET isHidden == n \in HiddenNets(nets)
      through(m) == {m.subnet} \cup
        {p.subnet : p \in {p \in points \cup Behind(nets, relay) : p.node = m.node}}
      all == Reserved(nets, points) \ {n.subnet}
  IN  {[key |-> m.wg, subnet |-> m.subnet, direct |-> TRUE,
        routes |-> through(m) \cup (IF isHidden THEN all ELSE {})] :
         m \in {m \in nets : /\ m.node # n.node /\ m.node \notin Hidden
                             /\ isHidden => m.node = relay[n]}}
      \cup {[key |-> p.key, subnet |-> p.subnet, direct |-> FALSE, routes |-> {p.subnet}] :
         p \in {p \in points \cup Behind(nets, relay) : p.node = n.node}}

-----------------------------------------------------------------------------
(* The listing and the load of the network.                                  *)

\* Mutant: the indexer alone is believed.
IndexedOnly(found) == found \ deletedContracts

\* Mutant: the contracts deleted are not taken out.
WithDeleted(found) == found \cup newContracts

\* getMyNetworkContracts: the indexer's answer, completed by the static lists.
Listing(found) == (found \cup newContracts) \ deletedContracts

\* A call begins: a machine is to be deployed or removed, and the indexer has
\* been asked.
Ask(c) ==
  /\ pc[c] = "idle"
  /\ Cardinality(Busy) < MaxBusy
  /\ \/ \E w \in Wishes : job' = [job EXCEPT ![c] = [op |-> "deploy", wish |-> w]]
     \/ \E m \in machines : job' = [job EXCEPT ![c] = [op |-> "remove", machine |-> m]]
  /\ answer' = [answer EXCEPT ![c] = indexed]
  /\ pc' = [pc EXCEPT ![c] = "asking"]
  /\ before' = [before EXCEPT ![c] = {d \in Calls : pc[d] \in Over}]
  /\ overlapped' = (overlapped \/ Busy # {})
  /\ UNCHANGED <<world, indexed, lists, todo, view, plan, crashes, cutOff, halfSent,
                 forgotten>>

\* Contracts that an answer has leave the static list, for good, whatever the
\* answers have that are still to come.
Prune(c, found) ==
  /\ newContracts' = newContracts \ found
  /\ forgotten' = forgotten \cup
       {k \in newContracts \cap found :
          \E d \in Calls \ {c} : pc[d] = "asking" /\ k \notin answer[d]}

\* The answer has come.
Merge(c) ==
  /\ pc[c] = "asking"
  /\ todo' = [todo EXCEPT ![c] = Listing(answer[c])]
  /\ Prune(c, answer[c])
  /\ answer' = [answer EXCEPT ![c] = {}]
  /\ pc' = [pc EXCEPT ![c] = "loading"]
  /\ UNCHANGED <<world, indexed, deletedContracts, job, view, plan, crashes, before,
                 overlapped, cutOff, halfSent>>

\* The call is over and its Network object is dropped.
End(c, how) ==
  /\ pc' = [pc EXCEPT ![c] = how]
  /\ job' = [job EXCEPT ![c] = NoJob]
  /\ answer' = [answer EXCEPT ![c] = {}]
  /\ todo' = [todo EXCEPT ![c] = {}]
  /\ view' = [view EXCEPT ![c] = {}]
  /\ plan' = [plan EXCEPT ![c] = NoPlan]

Fail(c) ==
  /\ End(c, "failed")
  /\ UNCHANGED <<world, indexed, lists, crashes, history>>

\* Mutant: the machines on the node are not looked at.
NoAddresses(n) == {}

\* The addresses of the machines that a node has.
Addresses(n) == {m.ip : m \in {m \in machines : m.node = n}}

\* The node is asked for the deployment and for the addresses in use; load
\* throws when it does not have the deployment.
Fetch(c, k) ==
  /\ pc[c] = "loading"
  /\ k \in todo[c]
  /\ IF k \notin DOMAIN carried THEN Fail(c)
     ELSE LET w == carried[k] IN
       /\ view' = [view EXCEPT ![c] = @ \cup
            {[key |-> k, node |-> w.node, subnet |-> w.subnet, wg |-> w.wg,
              peers |-> w.peers, ips |-> Addresses(w.node)]}]
       /\ todo' = [todo EXCEPT ![c] = @ \ {k}]
       /\ UNCHANGED <<world, indexed, lists, pc, job, answer, plan, crashes, history>>

Loaded(c) == pc[c] = "loading" /\ todo[c] = {}

-----------------------------------------------------------------------------
(* Deploying a machine.                                                      *)

NodesOf(nets) == {n.node : n \in nets}
Subnets(nets) == {n.subnet : n \in nets}

\* getFreeIP: the first address of the node's subnet that is not in use on it.
FreeIP(n) == <<n.subnet, FirstFree({a[2] : a \in {a \in n.ips : a[1] = n.subnet}})>>

\* Mutant: the key is one further on.
JoiningLater(key, n, reserved) ==
  [key |-> key + 1, node |-> n, subnet |-> FirstFree(reserved), wg |-> key,
   peers |-> {}, ips |-> {}]

\* A node that joins, with a new key and the next free subnet.
Joining(key, n, reserved) ==
  [key |-> key, node |-> n, subnet |-> FirstFree(reserved), wg |-> key,
   peers |-> {}, ips |-> {}]

\* What vm.create wants of the network: an access node for the user, unless it
\* has one already; then the node of the machine; g is the random choice of an
\* access node, known whether the network is listed by now.
Extension(c, g, known) ==
  LET nets == view[c]
      n == job[c].wish.node
      taken == Reserved(nets, AccessPoints(nets))
      wants == job[c].wish.access /\ Gateways \cap NodesOf(nets) = {}
      self == wants /\ job[c].wish.via = n
      first == IF wants /\ ~self THEN {Joining(made + 1, g, taken)} ELSE {}
      granted ==
        IF wants /\ (self => ~known)
        THEN {[key |-> made + 2, node |-> IF self THEN n ELSE g, by |-> c,
               at |-> IF self THEN made + 3 ELSE made + 1,
               subnet |-> FirstFree(taken \cup {FirstFree(taken)})]}
        ELSE {}
      second ==
        IF n \in NodesOf(nets \cup first) THEN {}
        ELSE {Joining(made + 3, n,
                taken \cup (IF first = {} THEN {} ELSE Subnets(first \cup granted)))}
  IN  [joined |-> first \cup second, granted |-> granted]

\* getUpdatedNetwork: of each subnet, the first net that has it, in the order of the
\* listing.
Leads(nets) ==
  {f \in [Subnets(nets) -> nets] : \A s \in Subnets(nets) : f[s].subnet = s}

\* The workloads to deploy: of the nodes that join, and of those loaded, which
\* need the new peers; without a node that joins there are none.  A workload is
\* told by its subnet: key pair and peers are those of the first that has it.
Workloads(c, ext, lead, relay, known) ==
  LET nets == view[c] \cup ext.joined
      points == AccessPoints(view[c]) \cup
        {[key |-> u.key, node |-> u.node, subnet |-> u.subnet] : u \in ext.granted}
  IN  {[key |-> n.key, node |-> n.node, subnet |-> n.subnet,
        wg |-> lead[n.subnet].wg, peers |-> Peers(lead[n.subnet], nets, points, relay)] :
         n \in IF ext.joined = {} THEN {}
               ELSE ext.joined \cup (IF known THEN view[c] ELSE {})}

\* The plan is made and handle() creates the contracts.  It fails when a hidden
\* node finds no access node, and when a contract it updates has gone.
Deploy(c) ==
  /\ Loaded(c) /\ job[c].op = "deploy"
  /\ \E g \in IF job[c].wish.access /\ job[c].wish.via # NoNode THEN {job[c].wish.via} ELSE Gateways :
       LET known == Listing(indexed) # {}
           ext == Extension(c, g, known)
           nets == view[c] \cup ext.joined
           new == {n.key : n \in ext.joined}
           relays == IF ext.joined = {} THEN {<<>>}
                     ELSE [HiddenNets(nets) -> Gateways \cap NodesOf(nets)]
       IN \/ /\ \E relay \in relays, lead \in Leads(nets),
                   site \in {n \in nets : n.node = job[c].wish.node} :
                  LET put == Workloads(c, ext, lead, relay, known) IN
                    /\ {w.key : w \in put} \ new \subseteq chain
                    /\ plan' = [plan EXCEPT ![c] =
                         [put |-> put, new |-> new, users |-> ext.granted, drop |-> {},
                          machine |-> {[by |-> c, node |-> site.node, at |-> site.key,
                                        ip |-> FreeIP(site)]}]]
                    /\ todo' = [todo EXCEPT ![c] = {w.key : w \in put}]
             /\ chain' = chain \cup new
             /\ made' = made + 3
             /\ Prune(c, indexed)
             /\ pc' = [pc EXCEPT ![c] = "sending"]
             /\ UNCHANGED <<carried, indexed, machines, users, deletedContracts, job,
                            answer, view, crashes, before, overlapped, cutOff, halfSent>>
          \/ /\ \/ ext.joined # {} /\ HiddenNets(nets) # {}
                   /\ Gateways \cap NodesOf(nets) = {}
                \/ ext.joined # {} /\ known /\ ~({n.key : n \in view[c]} \subseteq chain)
             /\ Fail(c)

\* A node takes a workload: the new ones first, then those to update.
Send(c, k) ==
  /\ pc[c] = "sending"
  /\ k \in todo[c]
  /\ \/ k \in plan[c].new
     \/ todo[c] \cap plan[c].new = {} /\ k \in DOMAIN carried
  /\ LET w == CHOOSE w \in plan[c].put : w.key = k IN
       carried' = [x \in DOMAIN carried \cup {k} |->
         IF x # k THEN carried[x]
         ELSE [node |-> w.node, subnet |-> w.subnet, wg |-> w.wg, peers |-> w.peers,
               by |-> IF k \in DOMAIN carried THEN carried[k].by ELSE c]]
  /\ todo' = [todo EXCEPT ![c] = @ \ {k}]
  /\ UNCHANGED <<made, chain, machines, users, indexed, lists, pc, job, answer, view,
                 plan, crashes, history>>

\* handle() fails and rolls back: the contracts it created go, while the peers that
\* nodes have been sent stay, since UpdateDeployment passes over networks.  Or the
\* rollback throws, and the contracts stay too, though on no list.
RollBack(c) ==
  /\ pc[c] = "sending"
  /\ \/ /\ chain' = chain \ plan[c].new
        /\ carried' = Restrict(carried, DOMAIN carried \ plan[c].new)
        /\ halfSent' = (halfSent \/ ~({w.key : w \in plan[c].put} \subseteq todo[c] \cup plan[c].new))
        /\ UNCHANGED <<cutOff, forgotten>>
     \/ /\ plan[c].new # {}
        /\ cutOff' = TRUE
        /\ forgotten' = forgotten \cup (plan[c].new \ indexed)
        /\ UNCHANGED <<chain, carried, halfSent>>
  /\ End(c, "failed")
  /\ UNCHANGED <<made, machines, users, indexed, lists, crashes, before, overlapped>>

-----------------------------------------------------------------------------
(* Removing a machine.                                                       *)

\* Mutant: the node that is left alone is not looked at.
EmptiedFirst(nets, m) ==
  LET left == {n \in nets : n.node # m.node}
      ips(n) == n.ips \ (IF n.node = m.node THEN {m.ip} ELSE {})
      kept == \/ \E n \in nets : n.node = m.node /\ ips(n) # {}
              \/ Cardinality(nets) # 1 /\ \E p \in AccessPoints(nets) : p.node = m.node
  IN  IF kept THEN {} ELSE nets \ left

\* _deleteMachineNetwork: the workload of the machine's node goes with the last
\* address on it, unless it has an access point and other nodes beside it; then
\* that of the one node left, if it has no address in use.
Emptied(nets, m) ==
  LET left == {n \in nets : n.node # m.node}
      ips(n) == n.ips \ (IF n.node = m.node THEN {m.ip} ELSE {})
      kept == \/ \E n \in nets : n.node = m.node /\ ips(n) # {}
              \/ Cardinality(nets) # 1 /\ \E p \in AccessPoints(nets) : p.node = m.node
  IN  IF kept THEN {}
      ELSE (nets \ left) \cup
           (IF Cardinality(left) = 1 THEN {n \in left : n.ips = {}} ELSE {})

\* The contracts are cancelled; nobody's peers are worked out again.
Remove(c) ==
  /\ Loaded(c) /\ job[c].op = "remove"
  /\ LET m == job[c].machine
         drop == {n.key : n \in Emptied(view[c], m)}
     IN IF m \in machines /\ drop \subseteq chain
        THEN /\ chain' = chain \ drop
             /\ carried' = Restrict(carried, DOMAIN carried \ drop)
             /\ machines' = machines \ {m}
             /\ plan' = [plan EXCEPT ![c] = [NoPlan EXCEPT !.drop = drop]]
             /\ pc' = [pc EXCEPT ![c] = "saving"]
             /\ UNCHANGED <<made, users, indexed, lists, job, answer, todo, view, crashes,
                            history>>
        ELSE Fail(c)

\* saveNetworks, and the machine is there.
Finish(c) ==
  /\ \/ pc[c] = "saving"
     \/ pc[c] = "sending" /\ todo[c] = {}
  /\ machines' = machines \cup plan[c].machine
  /\ users' = users \cup plan[c].users
  /\ newContracts' = newContracts \cup plan[c].new
  /\ deletedContracts' = deletedContracts \cup plan[c].drop
  /\ halfSent' = (halfSent /\ plan[c].put = {})
  /\ End(c, "done")
  /\ UNCHANGED <<made, chain, carried, indexed, crashes, before, overlapped, cutOff,
                 forgotten>>

-----------------------------------------------------------------------------
\* The indexer catches up with one contract.
Index(k) ==
  /\ (k \in chain) # (k \in indexed)
  /\ indexed' = IF k \in chain THEN indexed \cup {k} ELSE indexed \ {k}
  /\ UNCHANGED <<world, lists, pc, local, crashes, history>>

\* The process stops and is started again: the static lists are empty.
Crash ==
  /\ crashes < MaxCrashes
  /\ crashes' = crashes + 1
  /\ pc' = [c \in Calls |-> IF c \in Busy THEN "failed" ELSE pc[c]]
  /\ job' = [c \in Calls |-> NoJob] /\ answer' = [c \in Calls |-> {}]
  /\ todo' = [c \in Calls |-> {}] /\ view' = [c \in Calls |-> {}]
  /\ plan' = [c \in Calls |-> NoPlan]
  /\ newContracts' = {} /\ deletedContracts' = {}
  /\ forgotten' = forgotten \cup (chain \ indexed)
  /\ cutOff' = (cutOff \/ Busy # {})
  /\ UNCHANGED <<world, indexed, before, overlapped, halfSent>>

Next ==
  \/ \E c \in Calls :
       \/ Ask(c) \/ Merge(c) \/ Deploy(c) \/ RollBack(c) \/ Remove(c) \/ Finish(c)
       \/ \E k \in 1 .. made : Fetch(c, k) \/ Send(c, k)
  \/ \E k \in 1 .. made : Index(k)
  \/ Crash

Spec == Init /\ [][Next]_vars

-----------------------------------------------------------------------------
\* Every variable has the values network.ts gives it.
TypeOK ==
  /\ chain \subseteq 1 .. made
  /\ DOMAIN carried \subseteq 1 .. made /\ indexed \subseteq 1 .. made
  /\ newContracts \subseteq 1 .. made /\ deletedContracts \subseteq 1 .. made
  /\ pc \in [Calls -> {"idle", "asking", "loading", "sending", "saving"} \cup Over]
  /\ \A c \in Calls : todo[c] \subseteq 1 .. made
  /\ crashes \in 0 .. MaxCrashes

\* Two calls, neither of which was over when the other began.
AtOnce(c, d) == c # d /\ c \notin before[d] /\ d \notin before[c]

\* No subnet is given to two nodes, though no call ever reserves one and the
\* indexer may not have the contract of the node that has it (network.ts:555-588,
\* 633-668): only by calls that were under way at once, or once the static list
\* had forgotten a contract the indexer did not have.
SubnetsApart ==
  forgotten = {} =>
    \A k, x \in DOMAIN carried : k # x /\ carried[k].subnet = carried[x].subnet =>
      AtOnce(carried[k].by, carried[x].by)

\* Nor to a node and a user, or to two users, though an access point is known from
\* the peers of its node alone (network.ts:538-553, 600-622).
AccessApart ==
  LET nets == {[key |-> k, subnet |-> carried[k].subnet] : k \in DOMAIN carried}
      points == {[key |-> u.key, subnet |-> u.subnet] :
                   u \in {u \in users : u.at \in DOMAIN carried}}
  IN  forgotten = {} /\ ~overlapped =>
        \A x \in points, y \in nets \cup points : x # y => x.subnet # y.subnet

\* No address is given to two machines of a node while the network of both is
\* there (network.ts:490-536): only by calls that were under way at once, or once the
\* static list had forgotten a contract the indexer did not have, so that a node
\* joined twice; within one network contract not even then.
AddressesApart ==
  \A x, y \in machines :
    /\ x # y /\ x.node = y.node /\ x.ip = y.ip
    /\ x.at = y.at \/ (forgotten = {} /\ {x.at, y.at} \subseteq DOMAIN carried)
    => AtOnce(x.by, y.by)

\* An access point is nowhere but among the peers of its node, which every call
\* works out again, and tells from a hidden node by a key that is no node's
\* (network.ts:600-622, 856-916): the one a user was given stays there, with its
\* subnet, as long as the node's workload does.  Calls at once overwrite each other's
\* peers, and a node whose subnet was given twice may get the workload of the other.
AccessKept ==
  ~overlapped /\ forgotten = {} =>
    \A u \in users : u.at \in DOMAIN carried =>
      \E p \in carried[u.at].peers : p.key = u.key /\ p.subnet = u.subnet

\* "The target is to make a private Mesh connection between the nodes so they can
\* reach each other" (docs/network/wireguard_network.md:5): between calls every
\* node routes the subnet of every other to exactly one peer, and that is a node of
\* the network (network.ts:828-918).  Only a hidden node whose access node has been
\* removed is cut off, since nobody works out the peers again (base.ts:147-192).
\* Updates that a failed deployment has sent are not taken back, and the nodes may
\* disagree, until the next node that joins has the peers of all worked out again.
Mesh ==
  LET Cut(k) == /\ carried[k].node \in Hidden
                /\ \A x \in DOMAIN carried : \A p \in carried[x].peers : p.key # carried[k].wg
      Via(k, x) == {p \in carried[k].peers : carried[x].subnet \in p.routes}
  IN Busy = {} /\ ~overlapped /\ ~cutOff /\ ~halfSent /\ forgotten = {} =>
       \A k, x \in DOMAIN carried : k # x /\ ~Cut(k) /\ ~Cut(x) =>
         /\ Cardinality(Via(k, x)) = 1
         /\ \A p \in Via(k, x) : \E y \in DOMAIN carried : carried[y].wg = p.key

\* Calls one after the other always find the nodes' workloads: what has been
\* deleted is not asked for though the indexer still lists it (network.ts:655).
LoadsSucceed ==
  [][\A c \in Calls : pc[c] = "loading" /\ todo[c] # {} /\ pc'[c] = "failed" =>
       overlapped \/ crashes' > 0 \/ \E d \in Calls : pc[d] = "failed"]_vars

\* Once the last machine is gone, so is the network (base.ts:137-192).
NothingLeft ==
  Busy = {} /\ ~overlapped /\ ~cutOff /\ forgotten = {} /\ machines = {} => carried = <<>>
=============================================================================
