--------------------- MODULE PrivateNetworkTurns_proofs ---------------------
(***************************************************************************)
(* Theorems of PrivateNetwork about calls that take turns: what holds as   *)
(* long as no call has begun while another was under way, for any nodes,   *)
(* wishes and calls.  They rest on the invariant of PrivateNetwork_proofs. *)
(***************************************************************************)
EXTENDS PrivateNetwork_proofs

-----------------------------------------------------------------------------
(* What each step changes, call by call.                                     *)

\* A step of c leaves what the other calls keep for themselves alone.
Apart(c) ==
  \A d \in Calls \ {c} :
    /\ pc'[d] = pc[d] /\ job'[d] = job[d] /\ answer'[d] = answer[d]
    /\ todo'[d] = todo[d] /\ view'[d] = view[d] /\ plan'[d] = plan[d]

Ended(c, how) ==
  /\ pc'[c] = how /\ answer'[c] = {} /\ todo'[c] = {} /\ view'[c] = {}
  /\ plan'[c] = NoPlan

\* The contracts a call has workloads for.
PutKeys(c) == {w.key : w \in plan[c].put}

\* An update at c leaves the others alone.
LEMMA Updated ==
  ASSUME NEW f, f = [d \in Calls |-> f[d]], NEW c \in Calls, NEW x
  PROVE  /\ [f EXCEPT ![c] = x][c] = x
         /\ \A d \in Calls \ {c} : [f EXCEPT ![c] = x][d] = f[d]
OBVIOUS

LEMMA EndFacts ==
  ASSUME MapsOK, NEW c \in Calls, NEW how, End(c, how) PROVE Apart(c) /\ Ended(c, how)
BY DEF End, MapsOK, Apart, Ended

LEMMA AskFacts ==
  ASSUME IInv, NEW c \in Calls, Ask(c)
  PROVE  /\ pc[c] = "idle" /\ pc'[c] = "asking" /\ answer'[c] = indexed
         /\ job'[c].op = "deploy" => job'[c].wish \in Wishes
         /\ before'[c] = {d \in Calls : pc[d] \in Over}
         /\ \A d \in Calls \ {c} : before'[d] = before[d]
         /\ overlapped' = (overlapped \/ Busy # {})
         /\ Apart(c)
         /\ made' = made /\ chain' = chain /\ carried' = carried /\ indexed' = indexed
         /\ machines' = machines /\ users' = users /\ newContracts' = newContracts
         /\ deletedContracts' = deletedContracts /\ todo' = todo /\ view' = view
         /\ plan' = plan /\ crashes' = crashes /\ cutOff' = cutOff /\ forgotten' = forgotten
         /\ halfSent' = halfSent
<1> USE DEF Ask, world, lists
<1>1. MapsOK
  BY DEF IInv
<1>2. pc'[c] = "asking" /\ \A d \in Calls \ {c} : pc'[d] = pc[d]
  BY <1>1, Updated DEF MapsOK
<1>3. answer'[c] = indexed /\ \A d \in Calls \ {c} : answer'[d] = answer[d]
  BY <1>1, Updated DEF MapsOK
<1>4. /\ before'[c] = {d \in Calls : pc[d] \in Over}
      /\ \A d \in Calls \ {c} : before'[d] = before[d]
  BY <1>1, Updated DEF MapsOK
<1>5. /\ job'[c].op = "deploy" => job'[c].wish \in Wishes
      /\ \A d \in Calls \ {c} : job'[d] = job[d]
  <2>1. CASE \E w \in Wishes : job' = [job EXCEPT ![c] = [op |-> "deploy", wish |-> w]]
    BY <1>1, <2>1, Updated DEF MapsOK
  <2>2. CASE \E m \in machines : job' = [job EXCEPT ![c] = [op |-> "remove", machine |-> m]]
    BY <1>1, <2>2, Updated DEF MapsOK
  <2> QED
    BY <2>1, <2>2
<1> QED
  BY <1>2, <1>3, <1>4, <1>5 DEF Apart

LEMMA MergeFacts ==
  ASSUME IInv, NEW c \in Calls, Merge(c)
  PROVE  /\ pc[c] = "asking" /\ pc'[c] = "loading" /\ answer'[c] = {}
         /\ todo'[c] = Listing(answer[c]) /\ Apart(c) /\ job' = job
         /\ newContracts' \subseteq newContracts /\ forgotten \subseteq forgotten'
         /\ made' = made /\ chain' = chain /\ carried' = carried /\ indexed' = indexed
         /\ machines' = machines /\ users' = users
         /\ deletedContracts' = deletedContracts /\ view' = view /\ plan' = plan
         /\ crashes' = crashes /\ before' = before /\ overlapped' = overlapped
         /\ cutOff' = cutOff /\ halfSent' = halfSent
<1> USE DEF Merge, world, Prune
<1>1. MapsOK
  BY DEF IInv
<1>2. pc'[c] = "loading" /\ \A d \in Calls \ {c} : pc'[d] = pc[d]
  BY <1>1, Updated DEF MapsOK
<1>3. answer'[c] = {} /\ \A d \in Calls \ {c} : answer'[d] = answer[d]
  BY <1>1, Updated DEF MapsOK
<1>4. todo'[c] = Listing(answer[c]) /\ \A d \in Calls \ {c} : todo'[d] = todo[d]
  BY <1>1, Updated DEF MapsOK
<1> QED
  BY <1>2, <1>3, <1>4 DEF Apart

LEMMA FailFacts ==
  ASSUME IInv, NEW c \in Calls, Fail(c)
  PROVE  /\ Apart(c) /\ Ended(c, "failed")
         /\ made' = made /\ chain' = chain /\ carried' = carried /\ indexed' = indexed
         /\ machines' = machines /\ users' = users /\ newContracts' = newContracts
         /\ deletedContracts' = deletedContracts /\ crashes' = crashes
         /\ before' = before /\ overlapped' = overlapped /\ cutOff' = cutOff
         /\ forgotten' = forgotten /\ halfSent' = halfSent
<1>1. Apart(c) /\ Ended(c, "failed")
  BY EndFacts DEF Fail, IInv
<1> QED
  BY <1>1 DEF Fail, world, lists, history

\* What a call reads from one node.
Loads(k) == [key |-> k, node |-> carried[k].node, subnet |-> carried[k].subnet,
             wg |-> carried[k].wg, peers |-> carried[k].peers, ips |-> Addresses(carried[k].node)]

LEMMA FetchFacts ==
  ASSUME IInv, NEW c \in Calls, NEW k, Fetch(c, k), k \in DOMAIN carried
  PROVE  /\ pc[c] = "loading" /\ k \in todo[c] /\ pc' = pc /\ Apart(c) /\ job' = job
         /\ view'[c] = view[c] \cup {Loads(k)} /\ todo'[c] = todo[c] \ {k}
         /\ answer' = answer /\ plan' = plan
         /\ made' = made /\ chain' = chain /\ carried' = carried /\ indexed' = indexed
         /\ machines' = machines /\ users' = users /\ newContracts' = newContracts
         /\ deletedContracts' = deletedContracts /\ crashes' = crashes
         /\ before' = before /\ overlapped' = overlapped /\ cutOff' = cutOff
         /\ forgotten' = forgotten /\ halfSent' = halfSent
<1> USE DEF Fetch, world, lists, history
<1>1. MapsOK
  BY DEF IInv
<1>2. view' = [view EXCEPT ![c] = @ \cup {Loads(k)}]
  BY DEF Loads
<1>3. view'[c] = view[c] \cup {Loads(k)} /\ \A d \in Calls \ {c} : view'[d] = view[d]
  BY <1>1, <1>2, Updated DEF MapsOK
<1>4. todo'[c] = todo[c] \ {k} /\ \A d \in Calls \ {c} : todo'[d] = todo[d]
  BY <1>1, Updated DEF MapsOK
<1> QED
  BY <1>3, <1>4 DEF Apart

\* The node gets the workload the call has planned for it.
LEMMA SendTakes ==
  ASSUME IInv, NEW c \in Calls, NEW k \in 1 .. made, Send(c, k)
  PROVE  /\ DOMAIN carried' = DOMAIN carried \cup {k}
         /\ \A x \in DOMAIN carried \ {k} : carried'[x] = carried[x]
         /\ \E w \in plan[c].put :
              /\ w.key = k /\ carried'[k].node = w.node /\ carried'[k].subnet = w.subnet
              /\ carried'[k].peers = w.peers /\ carried'[k].wg = w.wg
<1> USE DEF Send
<1>1. PutOK(c)
  BY DEF IInv, CallOK, PlanOK
<1> DEFINE w == CHOOSE w \in plan[c].put : w.key = k
<1>2. w \in plan[c].put /\ w.key = k
  BY <1>1 DEF PutOK
<1>3. carried' = [x \in DOMAIN carried \cup {k} |->
         IF x # k THEN carried[x]
         ELSE [node |-> w.node, subnet |-> w.subnet, wg |-> w.wg, peers |-> w.peers,
               by |-> IF k \in DOMAIN carried THEN carried[k].by ELSE c]]
  OBVIOUS
<1> HIDE DEF w
<1>4. /\ DOMAIN carried' = DOMAIN carried \cup {k}
      /\ \A x \in DOMAIN carried \ {k} : carried'[x] = carried[x]
  BY <1>3
<1>5. /\ carried'[k].node = w.node /\ carried'[k].subnet = w.subnet
      /\ carried'[k].peers = w.peers /\ carried'[k].wg = w.wg
  BY <1>3
<1> QED
  BY <1>2, <1>4, <1>5

LEMMA SendFacts ==
  ASSUME IInv, NEW c \in Calls, NEW k, Send(c, k)
  PROVE  /\ pc[c] = "sending" /\ k \in todo[c] /\ pc' = pc /\ Apart(c)
         /\ job' = job /\ answer' = answer /\ view' = view /\ plan' = plan
         /\ todo'[c] = todo[c] \ {k}
         /\ made' = made /\ chain' = chain /\ indexed' = indexed
         /\ machines' = machines /\ users' = users /\ newContracts' = newContracts
         /\ deletedContracts' = deletedContracts /\ crashes' = crashes
         /\ before' = before /\ overlapped' = overlapped /\ cutOff' = cutOff
         /\ forgotten' = forgotten /\ halfSent' = halfSent
         /\ k \notin DOMAIN carried => k \in New(c)
<1> USE DEF Send, lists, history
<1>1. MapsOK
  BY DEF IInv
<1>2. todo'[c] = todo[c] \ {k} /\ \A d \in Calls \ {c} : todo'[d] = todo[d]
  BY <1>1, Updated DEF MapsOK
<1> QED
  BY <1>2 DEF Apart, New

\* A rollback that goes through takes the new contracts away, and what was sent to
\* the others stays; one that throws takes nothing away.
LEMMA RollBackFacts ==
  ASSUME IInv, NEW c \in Calls, RollBack(c)
  PROVE  /\ pc[c] = "sending" /\ Apart(c) /\ Ended(c, "failed")
         /\ made' = made /\ indexed' = indexed
         /\ machines' = machines /\ users' = users /\ newContracts' = newContracts
         /\ deletedContracts' = deletedContracts /\ crashes' = crashes
         /\ before' = before /\ overlapped' = overlapped
         /\ chain' \subseteq chain /\ forgotten \subseteq forgotten'
         /\ DOMAIN carried' \subseteq DOMAIN carried
         /\ \A x \in DOMAIN carried' : carried'[x] = carried[x]
         /\ \/ /\ chain' = chain \ New(c) /\ DOMAIN carried' = DOMAIN carried \ New(c)
               /\ cutOff' = cutOff /\ forgotten' = forgotten
               /\ halfSent' = (halfSent \/ ~(PutKeys(c) \subseteq todo[c] \cup New(c)))
            \/ cutOff' = TRUE /\ chain' = chain /\ carried' = carried /\ halfSent' = halfSent
<1>1. Apart(c) /\ Ended(c, "failed")
  BY EndFacts DEF RollBack, IInv
<1>2. /\ pc[c] = "sending" /\ made' = made /\ indexed' = indexed
      /\ machines' = machines /\ users' = users /\ newContracts' = newContracts
      /\ deletedContracts' = deletedContracts /\ crashes' = crashes
      /\ before' = before /\ overlapped' = overlapped
  BY DEF RollBack, lists
<1>3. CASE /\ chain' = chain \ New(c)
           /\ carried' = Restrict(carried, DOMAIN carried \ New(c))
           /\ halfSent' = (halfSent \/ ~(PutKeys(c) \subseteq todo[c] \cup New(c)))
           /\ UNCHANGED <<cutOff, forgotten>>
  <2>1. /\ DOMAIN carried' = DOMAIN carried \ New(c)
        /\ \A x \in DOMAIN carried' : carried'[x] = carried[x]
    BY <1>3 DEF Restrict
  <2> QED
    BY <1>1, <1>2, <1>3, <2>1
<1>4. CASE /\ cutOff' = TRUE
           /\ forgotten' = forgotten \cup (New(c) \ indexed)
           /\ UNCHANGED <<chain, carried, halfSent>>
  BY <1>1, <1>2, <1>4
<1> QED
  BY <1>3, <1>4 DEF RollBack, New, PutKeys

LEMMA RemoveFacts ==
  ASSUME IInv, NEW c \in Calls, Remove(c), ~Fail(c)
  PROVE  LET m == job[c].machine
             drop == {n.key : n \in Emptied(view[c], m)}
         IN
         /\ pc[c] = "loading" /\ todo[c] = {} /\ m \in machines
         /\ pc'[c] = "saving" /\ Apart(c)
         /\ job' = job /\ answer' = answer /\ todo' = todo /\ view' = view
         /\ plan'[c] = [NoPlan EXCEPT !.drop = drop]
         /\ chain' = chain \ drop /\ machines' = machines \ {m}
         /\ DOMAIN carried' = DOMAIN carried \ drop
         /\ \A x \in DOMAIN carried' : carried'[x] = carried[x]
         /\ made' = made /\ indexed' = indexed
         /\ users' = users /\ newContracts' = newContracts
         /\ deletedContracts' = deletedContracts /\ crashes' = crashes
         /\ before' = before /\ overlapped' = overlapped /\ cutOff' = cutOff
         /\ forgotten' = forgotten /\ halfSent' = halfSent
<1> DEFINE m == job[c].machine
           drop == {n.key : n \in Emptied(view[c], m)}
<1>1. /\ pc[c] = "loading" /\ todo[c] = {} /\ m \in machines
      /\ chain' = chain \ drop
      /\ carried' = Restrict(carried, DOMAIN carried \ drop)
      /\ machines' = machines \ {m}
      /\ plan' = [plan EXCEPT ![c] = [NoPlan EXCEPT !.drop = drop]]
      /\ pc' = [pc EXCEPT ![c] = "saving"]
      /\ UNCHANGED <<made, users, indexed, lists, job, answer, todo, view, crashes, history>>
  BY DEF Remove, Loaded
<1> HIDE DEF m, drop
<1>2. MapsOK
  BY DEF IInv
<1>3. pc'[c] = "saving" /\ \A d \in Calls \ {c} : pc'[d] = pc[d]
  BY <1>1, <1>2, Updated DEF MapsOK
<1>4. plan'[c] = [NoPlan EXCEPT !.drop = drop] /\ \A d \in Calls \ {c} : plan'[d] = plan[d]
  BY <1>1, <1>2, Updated DEF MapsOK
<1>5. DOMAIN carried' = DOMAIN carried \ drop /\ \A x \in DOMAIN carried' : carried'[x] = carried[x]
  BY <1>1 DEF Restrict
<1>6. /\ pc[c] = "loading" /\ todo[c] = {} /\ m \in machines
      /\ pc'[c] = "saving" /\ Apart(c)
      /\ job' = job /\ answer' = answer /\ todo' = todo /\ view' = view
      /\ plan'[c] = [NoPlan EXCEPT !.drop = drop]
      /\ chain' = chain \ drop /\ machines' = machines \ {m}
      /\ DOMAIN carried' = DOMAIN carried \ drop
      /\ \A x \in DOMAIN carried' : carried'[x] = carried[x]
      /\ made' = made /\ indexed' = indexed
      /\ users' = users /\ newContracts' = newContracts
      /\ deletedContracts' = deletedContracts /\ crashes' = crashes
      /\ before' = before /\ overlapped' = overlapped /\ cutOff' = cutOff
      /\ forgotten' = forgotten /\ halfSent' = halfSent
  BY <1>1, <1>3, <1>4, <1>5 DEF Apart, lists, history
<1> QED
  BY <1>6 DEF m, drop

LEMMA FinishFacts ==
  ASSUME IInv, NEW c \in Calls, Finish(c)
  PROVE  /\ (pc[c] = "saving" \/ (pc[c] = "sending" /\ todo[c] = {}))
         /\ Apart(c) /\ Ended(c, "done")
         /\ made' = made /\ chain' = chain /\ carried' = carried /\ indexed' = indexed
         /\ machines' = machines \cup plan[c].machine
         /\ users' = users \cup plan[c].users
         /\ newContracts' = newContracts \cup New(c)
         /\ deletedContracts' = deletedContracts \cup Dropped(c)
         /\ crashes' = crashes /\ before' = before /\ overlapped' = overlapped
         /\ cutOff' = cutOff /\ forgotten' = forgotten
         /\ halfSent' = (halfSent /\ plan[c].put = {})
<1>1. Apart(c) /\ Ended(c, "done")
  BY EndFacts DEF Finish, IInv
<1> QED
  BY <1>1 DEF Finish, New, Dropped

LEMMA IndexFacts ==
  ASSUME NEW k, Index(k)
  PROVE  /\ indexed' \subseteq indexed \cup chain
         /\ made' = made /\ chain' = chain /\ carried' = carried /\ machines' = machines
         /\ users' = users /\ newContracts' = newContracts
         /\ deletedContracts' = deletedContracts /\ pc' = pc /\ job' = job
         /\ answer' = answer /\ todo' = todo /\ view' = view /\ plan' = plan
         /\ crashes' = crashes /\ before' = before /\ overlapped' = overlapped
         /\ cutOff' = cutOff /\ forgotten' = forgotten /\ halfSent' = halfSent
BY DEF Index, world, lists, local, history

LEMMA CrashFacts ==
  ASSUME IInv, Crash
  PROVE  /\ \A c \in Calls : pc'[c] = IF c \in Busy THEN "failed" ELSE pc[c]
         /\ \A c \in Calls : /\ view'[c] = {} /\ plan'[c] = NoPlan /\ answer'[c] = {}
                             /\ todo'[c] = {} /\ job'[c] = NoJob
         /\ crashes' = crashes + 1 /\ newContracts' = {} /\ deletedContracts' = {}
         /\ forgotten' = forgotten \cup (chain \ indexed)
         /\ cutOff' = (cutOff \/ Busy # {})
         /\ made' = made /\ chain' = chain /\ carried' = carried /\ indexed' = indexed
         /\ machines' = machines /\ users' = users
         /\ before' = before /\ overlapped' = overlapped /\ halfSent' = halfSent
BY DEF Crash, world

-----------------------------------------------------------------------------
(* The invariant of calls that take turns.                                   *)

OneGateway == \A g, h \in Gateways : g = h

Quiet == ~overlapped /\ crashes = 0 /\ \A c \in Calls : pc[c] # "failed"
Alone == ~overlapped /\ forgotten = {}
Calm == ~overlapped /\ ~cutOff /\ forgotten = {}

\* No call is under way while another is, and each began after the ones before.
TurnsOK ==
  ~overlapped => \A c, d \in Calls : c # d /\ pc[c] # "idle" /\ pc[d] # "idle" =>
    /\ pc[c] \in Over \/ pc[d] \in Over
    /\ pc[c] \notin Over => d \in before[c]
    /\ ~AtOnce(c, d)

\* What a call has in hand at each point of its way.
HandOK(c) ==
  /\ pc[c] \in {"asking", "loading"} /\ job[c].op = "deploy" => job[c].wish \in Wishes
  /\ pc[c] # "asking" => answer[c] = {}
  /\ pc[c] # "saving" => Dropped(c) = {}
  /\ IF pc[c] = "sending" THEN plan[c].machine # {}
     ELSE plan[c].put = {} /\ plan[c].users = {}

HandsOK == carried = [k \in DOMAIN carried |-> carried[k]] /\ \A c \in Calls : HandOK(c)

\* While no subnet is given twice, a node keeps the key pair its contract came with.
WgOK ==
  Alone =>
    /\ \A k \in DOMAIN carried : carried[k].wg = k
    /\ \A c \in Calls :
         /\ \A n \in view[c] : /\ n.wg = n.key
                               /\ pc[c] = "loading" => n.key \in DOMAIN carried
         /\ \A w \in plan[c].put : w.wg = w.key

\* A peer that stands for the access point of a user.
Has(peers, u) == \E p \in peers : p.key = u.key /\ p.subnet = u.subnet /\ ~p.direct

AllUsers == users \cup UNION {plan[c].users : c \in Calls}

\* The key of an access point is no node's, and the node of its access node, every
\* load of it and every workload planned for it has the access point as a peer.
UserOK(u) ==
  /\ u.key \in 1 .. made /\ u.at \in 1 .. made
  /\ u.key \notin chain /\ \A c \in Calls : u.key \notin Keys(c)
  /\ Alone =>
       /\ u.at \in DOMAIN carried => Has(carried[u.at].peers, u)
       /\ \A c \in Calls :
            /\ \A n \in view[c] : n.key = u.at => Has(n.peers, u)
            /\ \A w \in plan[c].put : w.key = u.at => Has(w.peers, u)

UsersOK ==
  /\ \A u \in AllUsers : UserOK(u)
  /\ \A c \in Calls : /\ \A u \in plan[c].users : u.at \in New(c)
                      /\ \A u \in users : u.at \notin New(c)

\* The access points that are there, or about to be, have subnets of their own.
InUse == {u \in users : u.at \in DOMAIN carried} \cup UNION {plan[c].users : c \in Calls}

ApartOK ==
  /\ \A u, v \in AllUsers : u # v => u.key # v.key
  /\ ~overlapped /\ forgotten = {} =>
       \A u \in InUse :
         /\ \A k \in DOMAIN carried : carried[k].subnet # u.subnet
         /\ \A v \in InUse : v # u => v.subnet # u.subnet
         /\ \A c \in Calls : \A w \in plan[c].put : w.key \in New(c) => w.subnet # u.subnet

Sending(k) == \E c \in Calls : k \in New(c) /\ k \in todo[c]
Listed(k) == k \in indexed \cup newContracts \/ \E c \in Calls : k \in answer[c]
Gone(k) == k \in deletedContracts \/ \E c \in Calls : k \in Dropped(c)

\* What is listed is on its node, unless it is being sent or has been deleted.
FoundOK ==
  Quiet =>
    /\ \A k \in chain : k \in DOMAIN carried \/ Sending(k)
    /\ \A k : Listed(k) => k \in chain \/ Gone(k)
    /\ \A c \in Calls : /\ New(c) \subseteq chain
                        /\ pc[c] = "loading" => todo[c] \subseteq DOMAIN carried

\* A node has one workload, for a machine or as an access node; only access nodes
\* have access points; without a machine there is nothing, given one access node.
NodeOK(k) ==
  /\ \/ carried[k].node \in Gateways
     \/ \E m \in machines : m.at = k
     \/ \E c \in Calls : k \in New(c) /\ \E p \in plan[c].machine : p.at = k
  /\ OneGateway /\ machines = {} => \E c \in Calls : k \in New(c)
  /\ \A x \in DOMAIN carried : x # k => carried[x].node # carried[k].node
  /\ \A p \in carried[k].peers : ~p.direct => carried[k].node \in Gateways

\* A call has loaded what there is.
LoadOK(c) ==
  \A n \in view[c] :
    /\ pc[c] \in {"loading", "sending"} => n.key \in DOMAIN carried
    /\ pc[c] # "saving" => n.ips = Addresses(n.node)
    /\ \A p \in n.peers : ~p.direct => n.node \in Gateways

\* The nodes that join are the one of the machine and an access node.
JoinOK(c) ==
  /\ pc[c] = "sending" => New(c) \subseteq DOMAIN carried \cup todo[c]
  /\ \A w \in plan[c].put :
       /\ \A p \in w.peers : ~p.direct => w.node \in Gateways
       /\ w.key \in New(c) =>
            /\ w.node \in Gateways \/ \E p \in plan[c].machine : p.at = w.key
            /\ \A x \in DOMAIN carried : x # w.key => carried[x].node # w.node
            /\ \A v \in plan[c].put : v.key \in New(c) /\ v.key # w.key => v.node # w.node

NodesOK ==
  Calm =>
    /\ \A k \in DOMAIN carried : NodeOK(k)
    /\ \A m \in machines : m.at \in DOMAIN carried /\ \A c \in Calls : m.at \notin New(c)
    /\ \A c \in Calls : LoadOK(c) /\ JoinOK(c)

TInv == TurnsOK /\ HandsOK /\ WgOK /\ UsersOK /\ ApartOK /\ FoundOK /\ NodesOK

\* The others rest while one call that takes its turn is under way.
LEMMA OthersRest ==
  ASSUME IInv, TurnsOK, HandsOK, ~overlapped, NEW c \in Calls, pc[c] \notin Over \cup {"idle"}
  PROVE  \A d \in Calls \ {c} :
           /\ pc[d] \in Over \cup {"idle"} /\ answer[d] = {} /\ todo[d] \cap New(d) = {}
           /\ view[d] = {} /\ Keys(d) = {} /\ New(d) = {} /\ Dropped(d) = {}
           /\ plan[d].put = {} /\ plan[d].users = {} /\ plan[d].machine = {}
<1> SUFFICES ASSUME NEW d \in Calls \ {c}
             PROVE  /\ pc[d] \in Over \cup {"idle"} /\ answer[d] = {} /\ todo[d] \cap New(d) = {}
                    /\ view[d] = {} /\ Keys(d) = {} /\ New(d) = {} /\ Dropped(d) = {}
                    /\ plan[d].put = {} /\ plan[d].users = {} /\ plan[d].machine = {}
  OBVIOUS
<1>1. pc[d] \in Over \cup {"idle"}
  BY DEF TurnsOK
<1>2. pc[d] \notin {"asking", "loading", "sending", "saving"}
  BY <1>1 DEF Over
<1>3. ViewOK(d) /\ FormOK(d) /\ HandOK(d)
  BY DEF IInv, CallOK, PlanOK, HandsOK
<1>4. view[d] = {} /\ New(d) = {} /\ plan[d].machine = {}
  BY <1>2, <1>3 DEF ViewOK, FormOK
<1>5. answer[d] = {} /\ Dropped(d) = {} /\ plan[d].put = {} /\ plan[d].users = {}
  BY <1>2, <1>3 DEF HandOK
<1> QED
  BY <1>1, <1>4, <1>5 DEF Keys

\* A call that takes its turn has loaded every workload there is, with its subnet.
LEMMA LoadsAll ==
  ASSUME IInv, TurnsOK, HandsOK, ~overlapped, forgotten = {}, NEW c \in Calls,
         pc[c] = "loading", todo[c] = {}, NEW k \in DOMAIN carried
  PROVE  \E n \in view[c] :
           n.key = k /\ n.node = carried[k].node /\ n.subnet = carried[k].subnet
<1>1. CarriedOK(k) /\ ListedOK(c) /\ ViewOK(c)
  BY DEF IInv, CallOK
<1> DEFINE b == carried[k].by
<1>2. b \in Calls /\ pc[b] \in Over
  <2>1. CASE b = c
    BY <1>1, <2>1 DEF CarriedOK, Over
  <2>2. CASE b # c
    <3>1. b \in Calls \ {c} => New(b) = {}
      BY OthersRest DEF Over
    <3> QED
      BY <1>1, <2>2, <3>1 DEF CarriedOK
  <2> QED
    BY <2>1, <2>2
<1>3. b \in before[c]
  <2>1. pc[c] # "idle" /\ pc[b] # "idle" /\ pc[c] \notin Over /\ b # c
    BY <1>2 DEF Over
  <2> QED
    BY <1>2, <2>1 DEF TurnsOK
<1>4. k \in Keys(c)
  BY <1>1, <1>3 DEF ListedOK, Since
<1> QED
  BY <1>1, <1>4 DEF Keys, ViewOK

-----------------------------------------------------------------------------
(* Turns, and what a call has in hand.                                       *)

LEMMA TurnsKeep ==
  ASSUME TurnsOK, before' = before, ~overlapped' => ~overlapped,
         \A c \in Calls : /\ pc'[c] # "idle" => pc[c] # "idle"
                          /\ pc[c] \in Over => pc'[c] \in Over
  PROVE  TurnsOK'
BY DEF TurnsOK, AtOnce, Over

LEMMA TurnsAsk == ASSUME IInv, TurnsOK, NEW c \in Calls, Ask(c) PROVE TurnsOK'
<1> SUFFICES ASSUME ~overlapped', NEW d \in Calls, NEW e \in Calls, d # e,
                    pc'[d] # "idle", pc'[e] # "idle"
             PROVE  /\ pc'[d] \in Over \/ pc'[e] \in Over
                    /\ pc'[d] \notin Over => e \in before'[d]
                    /\ ~AtOnce(d, e)'
  BY DEF TurnsOK
<1>1. /\ pc[c] = "idle" /\ pc'[c] = "asking" /\ before'[c] = {x \in Calls : pc[x] \in Over}
      /\ \A x \in Calls \ {c} : before'[x] = before[x] /\ pc'[x] = pc[x]
      /\ ~overlapped /\ Busy = {}
  BY AskFacts DEF Apart
<1>2. \A x \in Calls \ {c} : pc'[x] # "idle" => pc'[x] \in Over /\ x \in before'[c]
  BY <1>1 DEF Busy
<1>3. "asking" \notin Over /\ pc'[c] \notin Over
  BY <1>1 DEF Over
<1>4. CASE d = c
  BY <1>2, <1>3, <1>4 DEF AtOnce
<1>5. CASE e = c
  BY <1>2, <1>3, <1>5 DEF AtOnce
<1>6. CASE d # c /\ e # c
  BY <1>1, <1>2, <1>6 DEF AtOnce, TurnsOK
<1> QED
  BY <1>4, <1>5, <1>6

LEMMA TurnsNext == ASSUME IInv, TurnsOK, Next PROVE TurnsOK'
<1>1. ASSUME NEW c \in Calls,
             \/ Merge(c) \/ Deploy(c) \/ RollBack(c) \/ Remove(c) \/ Finish(c)
             \/ \E k \in 1 .. made : Fetch(c, k) \/ Send(c, k)
      PROVE  TurnsOK'
  <2>1. /\ before' = before /\ overlapped' = overlapped
        /\ pc[c] \in {"asking", "loading", "sending", "saving"}
        /\ \/ pc' = pc
           \/ Apart(c)
           \/ \E x : pc' = [pc EXCEPT ![c] = x]
    <3>1. ASSUME Fail(c) PROVE before' = before /\ overlapped' = overlapped /\ Apart(c)
      BY <3>1, FailFacts
    <3>2. CASE Merge(c)
      BY <3>2, MergeFacts
    <3>3. CASE Deploy(c)
      <4>1. CASE Fail(c)
        BY <3>1, <3>3, <4>1 DEF Deploy, Loaded
      <4>2. CASE ~Fail(c)
        BY <3>3, <4>2, DeployFacts DEF Loaded
      <4> QED
        BY <4>1, <4>2
    <3>4. CASE RollBack(c)
      BY <3>4, RollBackFacts
    <3>5. CASE Remove(c)
      <4>1. CASE Fail(c)
        BY <3>1, <3>5, <4>1 DEF Remove, Loaded
      <4>2. CASE ~Fail(c)
        BY <3>5, <4>2, RemoveFacts
      <4> QED
        BY <4>1, <4>2
    <3>6. CASE Finish(c)
      BY <3>6, FinishFacts
    <3>7. ASSUME NEW k \in 1 .. made, Fetch(c, k)
          PROVE  before' = before /\ overlapped' = overlapped /\ Apart(c)
      <4>1. CASE k \in DOMAIN carried
        BY <3>7, <4>1, FetchFacts
      <4>2. CASE k \notin DOMAIN carried
        BY <3>1, <3>7, <4>2 DEF Fetch
      <4> QED
        BY <4>1, <4>2
    <3>8. ASSUME NEW k \in 1 .. made, Send(c, k)
          PROVE  before' = before /\ overlapped' = overlapped /\ pc' = pc /\ pc[c] = "sending"
      BY <3>8, SendFacts
    <3>9. ASSUME NEW k \in 1 .. made, Fetch(c, k) PROVE pc[c] = "loading"
      BY <3>9 DEF Fetch
    <3> QED
      BY <1>1, <3>2, <3>3, <3>4, <3>5, <3>6, <3>7, <3>8, <3>9
  <2>2. ASSUME NEW d \in Calls
        PROVE  /\ pc'[d] # "idle" => pc[d] # "idle"
               /\ pc[d] \in Over => pc'[d] \in Over
    <3>1. MapsOK
      BY DEF IInv
    <3>2. CASE d = c
      BY <2>1, <3>2 DEF Over
    <3>3. CASE d # c
      BY <2>1, <3>1, <3>3 DEF Apart, MapsOK
    <3> QED
      BY <3>2, <3>3
  <2> QED
    BY <2>1, <2>2, TurnsKeep
<1>2. ASSUME NEW c \in Calls, Ask(c) PROVE TurnsOK'
  BY <1>2, TurnsAsk
<1>3. ASSUME NEW k \in 1 .. made, Index(k) PROVE TurnsOK'
  BY <1>3, IndexFacts, TurnsKeep
<1>4. CASE Crash
  <2>1. \A c \in Calls : /\ pc'[c] # "idle" => pc[c] # "idle"
                         /\ pc[c] \in Over => pc'[c] \in Over
    BY <1>4, CrashFacts DEF Busy, Over
  <2> QED
    BY <1>4, <2>1, CrashFacts, TurnsKeep
<1> QED
  BY <1>1, <1>2, <1>3, <1>4 DEF Next

\* A step of c keeps the hands of the others as they are.
LEMMA HandsStep ==
  ASSUME IInv, HandsOK, NEW c \in Calls, Apart(c), HandOK(c)',
         carried' = [k \in DOMAIN carried' |-> carried'[k]]
  PROVE  HandsOK'
BY DEF HandsOK, HandOK, Apart, Dropped

LEMMA HandsEnd ==
  ASSUME IInv, HandsOK, NEW c \in Calls, NEW how \in Over, Apart(c), Ended(c, how),
         carried' = [k \in DOMAIN carried' |-> carried'[k]]
  PROVE  HandsOK'
<1>1. HandOK(c)'
  BY DEF Ended, HandOK, NoPlan, Dropped, Over
<1> QED
  BY <1>1, HandsStep

LEMMA HandsNext == ASSUME IInv, HandsOK, Next PROVE HandsOK'
<1>1. carried = [k \in DOMAIN carried |-> carried[k]] /\ \A c \in Calls : HandOK(c)
  BY DEF HandsOK
<1>2. ASSUME NEW c \in Calls, pc[c] = "loading", Fail(c) PROVE HandsOK'
  BY <1>1, <1>2, FailFacts, HandsEnd DEF Over
<1>3. ASSUME NEW c \in Calls, Ask(c) PROVE HandsOK'
  <2>1. HandOK(c)'
    BY <1>1, <1>3, AskFacts DEF HandOK, Dropped
  <2> QED
    BY <1>1, <1>3, <2>1, AskFacts, HandsStep
<1>4. ASSUME NEW c \in Calls, Merge(c) PROVE HandsOK'
  <2>1. HandOK(c)'
    BY <1>1, <1>4, MergeFacts DEF HandOK, Dropped
  <2> QED
    BY <1>1, <1>4, <2>1, MergeFacts, HandsStep
<1>5. ASSUME NEW c \in Calls, Deploy(c) PROVE HandsOK'
  <2>1. CASE Fail(c)
    BY <1>2, <1>5, <2>1 DEF Deploy, Loaded
  <2>2. CASE ~Fail(c)
    <3>1. PICK joined, granted, put, site : Planned(c, joined, granted, put, site)
      BY <1>5, <2>2, DeployFacts
    <3>2. /\ plan'[c].machine # {} /\ Dropped(c)' = {}
          /\ \A d \in Calls \ {c} : plan'[d] = plan[d] /\ todo'[d] = todo[d]
      BY <3>1 DEF Planned, MapsOK, IInv, Dropped
    <3>3. /\ pc'[c] = "sending" /\ \A d \in Calls \ {c} : pc'[d] = pc[d]
          /\ pc[c] = "loading" /\ carried' = carried /\ job' = job /\ answer' = answer
          /\ view' = view
      <4>1. MapsOK
        BY DEF IInv
      <4> QED
        BY <1>5, <2>2, <4>1, DeployFacts, Updated DEF MapsOK, Loaded
    <3>4. HandOK(c)' /\ Apart(c)
      BY <1>1, <3>2, <3>3 DEF HandOK, Apart
    <3> QED
      BY <1>1, <3>3, <3>4, HandsStep
  <2> QED
    BY <2>1, <2>2
<1>6. ASSUME NEW c \in Calls, RollBack(c) PROVE HandsOK'
  <2>1. carried' = [k \in DOMAIN carried' |-> carried'[k]]
    BY <1>1, <1>6 DEF RollBack, Restrict
  <2> QED
    BY <1>6, <2>1, RollBackFacts, HandsEnd DEF Over
<1>7. ASSUME NEW c \in Calls, Remove(c) PROVE HandsOK'
  <2>1. CASE Fail(c)
    BY <1>2, <1>7, <2>1 DEF Remove, Loaded
  <2>2. CASE ~Fail(c)
    <3>1. carried' = [k \in DOMAIN carried' |-> carried'[k]]
      BY <1>7, <2>2 DEF Remove, Restrict
    <3>2. HandOK(c)'
      BY <1>1, <1>7, <2>2, RemoveFacts DEF HandOK, NoPlan
    <3> QED
      BY <1>7, <2>2, <3>1, <3>2, RemoveFacts, HandsStep
  <2> QED
    BY <2>1, <2>2
<1>8. ASSUME NEW c \in Calls, Finish(c) PROVE HandsOK'
  BY <1>1, <1>8, FinishFacts, HandsEnd DEF Over
<1>9. ASSUME NEW c \in Calls, NEW k \in 1 .. made, Fetch(c, k) PROVE HandsOK'
  <2>1. CASE k \in DOMAIN carried
    <3>1. HandOK(c)'
      BY <1>1, <1>9, <2>1, FetchFacts DEF HandOK, Dropped
    <3> QED
      BY <1>1, <1>9, <2>1, <3>1, FetchFacts, HandsStep
  <2>2. CASE k \notin DOMAIN carried
    BY <1>2, <1>9, <2>2 DEF Fetch
  <2> QED
    BY <2>1, <2>2
<1>10. ASSUME NEW c \in Calls, NEW k \in 1 .. made, Send(c, k) PROVE HandsOK'
  <2>1. carried' = [x \in DOMAIN carried' |-> carried'[x]]
    BY <1>10 DEF Send
  <2>2. HandOK(c)'
    <3>1. pc' = pc /\ job' = job /\ answer' = answer /\ plan' = plan
      BY <1>10, SendFacts
    <3> QED
      BY <1>1, <3>1 DEF HandOK, Dropped
  <2> QED
    BY <1>10, <2>1, <2>2, SendFacts, HandsStep
<1>11. ASSUME NEW k \in 1 .. made, Index(k) PROVE HandsOK'
  BY <1>1, <1>11, IndexFacts DEF HandsOK, HandOK, Dropped
<1>12. CASE Crash
  BY <1>1, <1>12, CrashFacts DEF HandsOK, HandOK, Dropped, NoPlan, NoJob, Busy, Over
<1> QED
  BY <1>3, <1>4, <1>5, <1>6, <1>7, <1>8, <1>9, <1>10, <1>11, <1>12 DEF Next

-----------------------------------------------------------------------------
(* The plan of a deployment, with the mesh.                                  *)

\* The node that joins for an access point, the access point and the node of the
\* machine: with new keys, and with subnets that neither each other nor anything in
\* the network has.
LEMMA JoinedFacts ==
  ASSUME NEW c \in Calls, NEW g \in Gateways, NEW known, Nets(view[c]), made \in Nat,
         job[c].wish \in Wishes
  PROVE  LET ext == Extension(c, g, known)
             taken == Reserved(view[c], AccessPoints(view[c]))
         IN
         /\ \A j \in ext.joined : /\ j.subnet \notin taken /\ j.node \notin NodesOf(view[c])
                                  /\ j.node \in Gateways \/ j.node = job[c].wish.node
                                  /\ j.ips = {}
         /\ \A i, j \in ext.joined : i # j => i.node # j.node
         /\ \A u \in ext.granted :
              /\ u.key = made + 2 /\ u.at \in {made + 1, made + 3}
              /\ u.node \in Gateways /\ u.subnet \notin taken
              /\ \E j \in ext.joined : j.key = u.at
              /\ \A j \in ext.joined : /\ j.subnet # u.subnet
                                       /\ j.key = u.at => j.node = u.node
         /\ \A u, v \in ext.granted : u = v
<1> DEFINE nets == view[c]
           n == job[c].wish.node
           taken == Reserved(nets, AccessPoints(nets))
           wants == job[c].wish.access /\ Gateways \cap NodesOf(nets) = {}
           self == wants /\ job[c].wish.via = n
           first == IF wants /\ ~self THEN {Joining(made + 1, g, taken)} ELSE {}
           u == [key |-> made + 2, node |-> IF self THEN n ELSE g, by |-> c,
                 at |-> IF self THEN made + 3 ELSE made + 1,
                 subnet |-> FirstFree(taken \cup {FirstFree(taken)})]
           granted == IF wants /\ (self => ~known) THEN {u} ELSE {}
           all == taken \cup (IF first = {} THEN {} ELSE Subnets(first \cup granted))
           second == IF n \in NodesOf(nets \cup first) THEN {} ELSE {Joining(made + 3, n, all)}
<1>1. Extension(c, g, known).joined = first \cup second
      /\ Extension(c, g, known).granted = granted
  BY DEF Extension
<1>2. IsFiniteSet(taken)
  <2> DEFINE points == AccessPoints(nets)
  <2>1. taken = Reserved(nets, points) /\ IsFiniteSet(points) /\ IsFiniteSet(nets)
    BY PointsFinite DEF Nets
  <2> HIDE DEF points
  <2> QED
    BY <2>1, ReservedFinite
<1>3. n \in Nodes /\ (self => n \in Gateways)
  BY NetworkAssumption
<1>4. FirstFree(taken) \notin taken
  <2> HIDE DEF taken
  <2> QED
    BY <1>2, FreeIsFree
<1>5. u.subnet \notin taken \cup {FirstFree(taken)}
  <2> HIDE DEF taken
  <2>1. IsFiniteSet(taken \cup {FirstFree(taken)})
    BY <1>2, FS_Singleton, FS_Union
  <2>2. FirstFree(taken \cup {FirstFree(taken)}) \notin taken \cup {FirstFree(taken)}
    BY <2>1, FreeIsFree
  <2> QED
    BY <2>2
<1>6. IsFiniteSet(all) /\ taken \subseteq all
  <2>1. IsFiniteSet(first \cup granted)
    <3>1. IsFiniteSet(first) /\ IsFiniteSet(granted)
      <4> HIDE DEF taken, u, wants, self
      <4> QED
        BY FS_Singleton, FS_EmptySet
    <3> HIDE DEF first, granted
    <3> QED
      BY <3>1, FS_Union
  <2> DEFINE both == first \cup granted
  <2>2. IsFiniteSet(Subnets(both))
    <3> HIDE DEF both
    <3> QED
      BY <2>1, FS_EmptySet, ReservedFinite DEF both
  <2> HIDE DEF taken, first
  <2>3. all = taken \/ all = taken \cup Subnets(both)
    OBVIOUS
  <2> HIDE DEF all, both
  <2>4. IsFiniteSet(taken \cup Subnets(both))
    BY <1>2, <2>2, FS_Union
  <2> QED
    BY <1>2, <2>3, <2>4
<1>7. FirstFree(all) \notin all
  <2> HIDE DEF all
  <2> QED
    BY <1>6, FreeIsFree
<1> DEFINE ff == FirstFree(taken)
           fa == FirstFree(all)
           us == FirstFree(taken \cup {FirstFree(taken)})
<1>8. /\ wants /\ ~self => all = taken \cup {x.subnet : x \in first \cup granted}
      /\ ~(wants /\ ~self) => all = taken
  <2> HIDE DEF taken, wants, self, granted
  <2> QED
    BY DEF Subnets
<1>9. /\ first = IF wants /\ ~self
                 THEN {[key |-> made + 1, node |-> g, subnet |-> ff, wg |-> made + 1,
                        peers |-> {}, ips |-> {}]}
                 ELSE {}
      /\ second = IF n \in NodesOf(nets \cup first) THEN {}
                  ELSE {[key |-> made + 3, node |-> n, subnet |-> fa, wg |-> made + 3,
                         peers |-> {}, ips |-> {}]}
      /\ u = [key |-> made + 2, node |-> IF self THEN n ELSE g, by |-> c,
              at |-> IF self THEN made + 3 ELSE made + 1, subnet |-> us]
  BY DEF Joining
<1>10. us # ff /\ us \notin taken
  BY <1>5
<1>11. /\ wants => g \notin NodesOf(nets)
       /\ self => n \notin NodesOf(nets)
  <2> HIDE DEF taken
  <2> QED
    BY <1>3
<1>12. n \in NodesOf(nets \cup first) <=> n \in NodesOf(nets) \/ (wants /\ ~self /\ n = g)
  <2>1. (\A x \in first : wants /\ ~self /\ x.node = g) /\ (wants /\ ~self => first # {})
    <3> HIDE DEF taken, wants, self, ff
    <3> QED
      BY <1>9
  <2> HIDE DEF taken, wants, self, ff, first
  <2> QED
    BY <2>1 DEF NodesOf
<1>13. fa # ff \/ ~(wants /\ ~self)
  <2> SUFFICES ASSUME wants, ~self PROVE fa # ff
    OBVIOUS
  <2>1. \E x \in first : x.subnet = ff
    BY <1>9
  <2>2. ff \in all
    <3> HIDE DEF taken, wants, self, ff, granted, first, all
    <3> QED
      BY <1>8, <2>1
  <2> HIDE DEF ff, all
  <2> QED
    BY <1>7, <2>2
<1>14. fa # us \/ ~(wants /\ (self => ~known))
  <2>1. CASE wants /\ ~self
    <3>1. u \in granted /\ u.subnet = us
      BY <2>1
    <3>2. us \in all
      <4> HIDE DEF u, us, first, granted, all
      <4> QED
        BY <1>8, <2>1, <3>1
    <3> HIDE DEF us, all
    <3> QED
      BY <1>7, <3>2
  <2>2. CASE ~(wants /\ ~self)
    <3>1. fa = ff
      BY <1>8, <2>2
    <3> QED
      BY <1>10, <3>1
  <2> QED
    BY <2>1, <2>2
<1>15. fa \notin taken
  <2> HIDE DEF all
  <2> QED
    BY <1>6, <1>7
<1> DEFINE joined == first \cup second
<1> HIDE DEF taken, wants, self, ff, fa, us, all, u, nets, n
<1>16. \A x \in first : /\ wants /\ ~self /\ x.key = made + 1 /\ x.node = g
                        /\ x.subnet = ff /\ x.ips = {}
  BY <1>9
<1>17. \A x \in second : /\ n \notin NodesOf(nets \cup first) /\ x.key = made + 3
                         /\ x.node = n /\ x.subnet = fa /\ x.ips = {}
  <2> HIDE DEF first
  <2> QED
    BY <1>9
<1>18. (\A x, y \in first : x = y) /\ (\A x, y \in second : x = y)
  <2>1. \A x, y \in first : x = y
    OBVIOUS
  <2> HIDE DEF first
  <2> QED
    BY <2>1
<1>19. /\ wants /\ ~self => \E x \in first : x.key = made + 1
       /\ n \notin NodesOf(nets \cup first) => \E x \in second : x.key = made + 3
  <2>1. wants /\ ~self => \E x \in first : x.key = made + 1
    BY <1>9
  <2> HIDE DEF first
  <2> QED
    BY <1>9, <2>1
<1> HIDE DEF first, second
<1>20. \A j \in joined : /\ j.subnet \notin taken /\ j.node \notin NodesOf(nets)
                         /\ j.node \in Gateways \/ j.node = n
                         /\ j.ips = {}
  BY <1>4, <1>11, <1>12, <1>15, <1>16, <1>17 DEF ff
<1>21. \A i, j \in joined : i # j => i.node # j.node
  BY <1>12, <1>16, <1>17, <1>18
<1>22. \A v \in granted :
         /\ v.key = made + 2 /\ v.at \in {made + 1, made + 3}
         /\ v.node \in Gateways /\ v.subnet \notin taken
         /\ \E j \in joined : j.key = v.at
         /\ \A j \in joined : /\ j.subnet # v.subnet
                              /\ j.key = v.at => j.node = v.node
  <2> SUFFICES ASSUME wants, self => ~known
               PROVE /\ u.key = made + 2 /\ u.at \in {made + 1, made + 3}
                     /\ u.node \in Gateways /\ u.subnet \notin taken
                     /\ \E j \in joined : j.key = u.at
                     /\ \A j \in joined : /\ j.subnet # u.subnet
                                          /\ j.key = u.at => j.node = u.node
    OBVIOUS
  <2>1. CASE self
    <3>1. u.at = made + 3 /\ u.node = n /\ u.key = made + 2 /\ u.subnet = us
      BY <2>1 DEF u, us
    <3> QED
      BY <1>3, <1>10, <1>11, <1>12, <1>14, <1>16, <1>17, <1>19, <2>1, <3>1
  <2>2. CASE ~self
    <3>1. u.at = made + 1 /\ u.node = g /\ u.key = made + 2 /\ u.subnet = us
      BY <2>2 DEF u, us
    <3> QED
      BY <1>3, <1>10, <1>11, <1>12, <1>14, <1>16, <1>17, <1>19, <2>2, <3>1
  <2> QED
    BY <2>1, <2>2
<1>23. \A v, w \in granted : v = w
  OBVIOUS
<1> DEFINE E == Extension(c, g, known)
<1>24. E.joined = joined /\ E.granted = granted
  BY <1>1
<1>25. taken = Reserved(view[c], AccessPoints(view[c])) /\ NodesOf(nets) = NodesOf(view[c])
       /\ n = job[c].wish.node
  BY DEF taken, nets, n
<1> HIDE DEF joined, granted, E
<1> QED
  <2>1. /\ \A j \in E.joined : /\ j.subnet \notin taken /\ j.node \notin NodesOf(view[c])
                               /\ j.node \in Gateways \/ j.node = job[c].wish.node
                               /\ j.ips = {}
        /\ \A i, j \in E.joined : i # j => i.node # j.node
        /\ \A v \in E.granted :
             /\ v.key = made + 2 /\ v.at \in {made + 1, made + 3}
             /\ v.node \in Gateways /\ v.subnet \notin taken
             /\ \E j \in E.joined : j.key = v.at
             /\ \A j \in E.joined : /\ j.subnet # v.subnet
                                    /\ j.key = v.at => j.node = v.node
        /\ \A v, w \in E.granted : v = w
    BY <1>20, <1>21, <1>22, <1>23, <1>24, <1>25
  <2> QED
    BY <1>25, <2>1 DEF E

\* An access point is a peer without an endpoint, of a node that was loaded.
LEMMA PointFacts ==
  ASSUME NEW nets
  PROVE  /\ \A q \in AccessPoints(nets) :
              \E n \in nets : q.node = n.node /\ \E p \in n.peers : ~p.direct
         /\ \A n \in nets : \A p \in n.peers :
              ~p.direct /\ (\A x \in nets : x.wg # p.key) =>
                [key |-> p.key, node |-> n.node, subnet |-> p.subnet] \in AccessPoints(nets)
<1> DEFINE pairs == UNION {{n} \X n.peers : n \in nets}
           some == {q \in pairs : ~q[2].direct /\ \A n \in nets : n.wg # q[2].key}
<1>1. AccessPoints(nets) = {[key |-> p[2].key, node |-> p[1].node, subnet |-> p[2].subnet] :
                              p \in some}
  BY DEF AccessPoints
<1>2. \A q \in pairs : q[1] \in nets /\ q[2] \in q[1].peers
  OBVIOUS
<1>3. \A n \in nets : \A p \in n.peers :
        <<n, p>> \in pairs /\ <<n, p>>[1] = n /\ <<n, p>>[2] = p
  OBVIOUS
<1> HIDE DEF pairs
<1>4. ASSUME NEW q \in AccessPoints(nets)
      PROVE  \E n \in nets : q.node = n.node /\ \E p \in n.peers : ~p.direct
  <2>1. PICK p \in some : q = [key |-> p[2].key, node |-> p[1].node, subnet |-> p[2].subnet]
    BY <1>1
  <2>2. q.node = p[1].node
    BY <2>1
  <2> QED
    BY <1>2, <2>1, <2>2
<1>5. ASSUME NEW n \in nets, NEW p \in n.peers, ~p.direct, \A x \in nets : x.wg # p.key
      PROVE  [key |-> p.key, node |-> n.node, subnet |-> p.subnet] \in AccessPoints(nets)
  <2>1. <<n, p>> \in some
    BY <1>3, <1>5
  <2> HIDE DEF some
  <2> QED
    BY <1>1, <1>3, <2>1
<1> QED
  BY <1>4, <1>5

\* The workload w of the node n, that m leads the subnet of, has the points beside m
\* as peers, and no others without an endpoint but hidden nodes behind m.
Linked(w, n, m, points, nets, relay) ==
  /\ w.key = n.key /\ w.node = n.node /\ w.subnet = n.subnet
  /\ m.subnet = n.subnet /\ w.wg = m.wg
  /\ \A q \in points : q.node = m.node => Has(w.peers, q)
  /\ (\E p \in w.peers : ~p.direct) =>
       (\E q \in points : q.node = m.node) \/ \E x \in HiddenNets(nets) : relay[x] = m.node

\* The net that leads a subnet is one of those that have it.
LEMMA LeadFacts ==
  ASSUME NEW nets, NEW lead \in Leads(nets), NEW n \in nets
  PROVE  lead[n.subnet] \in nets /\ lead[n.subnet].subnet = n.subnet
<1>1. n.subnet \in Subnets(nets)
  BY DEF Subnets
<1> QED
  BY <1>1 DEF Leads

\* The access points beside a node are peers of it, and only access nodes have any.
LEMMA MeshFacts ==
  ASSUME NEW c \in Calls, NEW ext, NEW relay, NEW known,
         NEW lead \in Leads(view[c] \cup ext.joined)
  PROVE  \A w \in Workloads(c, ext, lead, relay, known) : \E n, m \in view[c] \cup ext.joined :
           Linked(w, n, m, AccessPoints(view[c]) \cup ext.granted, view[c] \cup ext.joined, relay)
<1> DEFINE nets == view[c] \cup ext.joined
           given == {[key |-> u.key, node |-> u.node, subnet |-> u.subnet] : u \in ext.granted}
           known0 == AccessPoints(view[c])
           points == known0 \cup given
           ones == IF ext.joined = {} THEN {}
                   ELSE ext.joined \cup (IF known THEN view[c] ELSE {})
           put == Workloads(c, ext, lead, relay, known)
<1>1. put = {[key |-> n.key, node |-> n.node, subnet |-> n.subnet,
              wg |-> lead[n.subnet].wg,
              peers |-> Peers(lead[n.subnet], nets, points, relay)] : n \in ones}
  BY DEF Workloads
<1>2. ones \subseteq nets
  OBVIOUS
<1>3. \A u \in ext.granted : \E q \in given :
        q.key = u.key /\ q.node = u.node /\ q.subnet = u.subnet
  <2> SUFFICES ASSUME NEW u \in ext.granted
               PROVE  \E q \in given : q.key = u.key /\ q.node = u.node /\ q.subnet = u.subnet
    OBVIOUS
  <2> DEFINE q == [key |-> u.key, node |-> u.node, subnet |-> u.subnet]
  <2>1. q \in given
    OBVIOUS
  <2>2. q.key = u.key /\ q.node = u.node /\ q.subnet = u.subnet
    OBVIOUS
  <2> QED
    BY <2>1, <2>2, Zenon
<1>4. \A q \in given : \E u \in ext.granted : q.node = u.node
  OBVIOUS
<1> HIDE DEF given, ones, put, known0
<1> SUFFICES ASSUME NEW w \in put
             PROVE  \E n, m \in nets : Linked(w, n, m, known0 \cup ext.granted, nets, relay)
  BY DEF put, known0
<1>5. PICK n \in ones : w = [key |-> n.key, node |-> n.node, subnet |-> n.subnet,
                             wg |-> lead[n.subnet].wg,
                             peers |-> Peers(lead[n.subnet], nets, points, relay)]
  BY <1>1
<1> DEFINE m == lead[n.subnet]
<1>6. m \in nets /\ m.subnet = n.subnet
  BY <1>2, LeadFacts
<1>7. /\ w.key = n.key /\ w.node = n.node /\ w.subnet = n.subnet /\ n \in nets
      /\ w.wg = m.wg /\ w.peers = Peers(m, nets, points, relay)
  BY <1>2, <1>5
<1> HIDE DEF nets, points, m
<1> DEFINE beside(p) == [key |-> p.key, subnet |-> p.subnet, direct |-> FALSE,
                         routes |-> {p.subnet}]
           near == {p \in points \cup Behind(nets, relay) : p.node = m.node}
<1>8. \A p \in near : beside(p) \in Peers(m, nets, points, relay)
  BY DEF Peers
<1>9. \A x \in Peers(m, nets, points, relay) : ~x.direct => \E p \in near : x = beside(p)
  BY DEF Peers
<1>10. \A p : /\ beside(p).key = p.key /\ beside(p).subnet = p.subnet
             /\ ~beside(p).direct
  OBVIOUS
<1>11. \A b \in Behind(nets, relay) : \E x \in HiddenNets(nets) : b.node = relay[x]
  BY DEF Behind
<1> HIDE DEF beside
<1>12. ASSUME NEW q \in points, q.node = m.node PROVE Has(w.peers, q)
  <2>1. q \in near
    BY <1>12
  <2> QED
    BY <1>7, <1>8, <1>10, <2>1 DEF Has
<1>13. ASSUME NEW q \in ext.granted, q.node = m.node PROVE Has(w.peers, q)
  <2>1. PICK p \in points : p.key = q.key /\ p.node = q.node /\ p.subnet = q.subnet
    BY <1>3 DEF points
  <2>2. Has(w.peers, p)
    BY <1>12, <1>13, <2>1
  <2> QED
    BY <2>1, <2>2 DEF Has
<1>14. (\E p \in w.peers : ~p.direct) =>
         \/ \E q \in known0 \cup ext.granted : q.node = m.node
         \/ \E x \in HiddenNets(nets) : relay[x] = m.node
  <2> SUFFICES ASSUME NEW p \in near
               PROVE  \/ \E q \in known0 \cup ext.granted : q.node = m.node
                      \/ \E x \in HiddenNets(nets) : relay[x] = m.node
    BY <1>7, <1>9
  <2>1. p.node = m.node /\ p \in points \cup Behind(nets, relay)
    OBVIOUS
  <2> HIDE DEF near
  <2> QED
    BY <1>4, <1>11, <2>1 DEF points
<1>15. Linked(w, n, m, known0 \cup ext.granted, nets, relay)
  BY <1>7, <1>12, <1>13, <1>14, <1>6 DEF points, Linked
<1> QED
  BY <1>7, <1>15, <1>6

\* What a deployment has chosen: the access node for the user, those for the hidden
\* nodes, the nets that lead the subnets and the one the machine goes to.
Chosen(c, g, relay, lead, site) ==
  LET known == Listing(indexed) # {}
      ext == Extension(c, g, known)
      nets == view[c] \cup ext.joined
      put == Workloads(c, ext, lead, relay, known)
      new == {n.key : n \in ext.joined}
  IN
  /\ ext.joined # {} => relay \in [HiddenNets(nets) -> Gateways \cap NodesOf(nets)]
  /\ lead \in Leads(nets) /\ site \in nets /\ site.node = job[c].wish.node
  /\ chain' = chain \cup new
  /\ todo' = [todo EXCEPT ![c] = {w.key : w \in put}]
  /\ plan' = [plan EXCEPT ![c] =
       [put |-> put, new |-> new, users |-> ext.granted, drop |-> {},
        machine |-> {[by |-> c, node |-> site.node, at |-> site.key, ip |-> FreeIP(site)]}]]

LEMMA DeployChoice ==
  ASSUME IInv, HandsOK, NEW c \in Calls, Deploy(c), ~Fail(c)
  PROVE  \E g \in Gateways : \E relay, lead, site : Chosen(c, g, relay, lead, site)
<1> DEFINE known == Listing(indexed) # {}
           ext(g) == Extension(c, g, known)
           nets(g) == view[c] \cup ext(g).joined
           new(g) == {n.key : n \in ext(g).joined}
           put(g, lead, relay) == Workloads(c, ext(g), lead, relay, known)
           Settled(g, relay, lead, site) ==
             /\ plan' = [plan EXCEPT ![c] =
                  [put |-> put(g, lead, relay), new |-> new(g), users |-> ext(g).granted,
                   drop |-> {},
                   machine |-> {[by |-> c, node |-> site.node, at |-> site.key,
                                 ip |-> FreeIP(site)]}]]
             /\ todo' = [todo EXCEPT ![c] = {w.key : w \in put(g, lead, relay)}]
             /\ site \in nets(g) /\ site.node = job[c].wish.node /\ lead \in Leads(nets(g))
             /\ ext(g).joined # {} =>
                  relay \in [HiddenNets(nets(g)) -> Gateways \cap NodesOf(nets(g))]
<1>1. PICK g \in Gateways : /\ \E relay, lead, site : Settled(g, relay, lead, site)
                            /\ chain' = chain \cup new(g)
  <2>1. PICK g \in IF job[c].wish.access /\ job[c].wish.via # NoNode
                  THEN {job[c].wish.via} ELSE Gateways :
          \/ /\ \E relay \in IF ext(g).joined = {} THEN {<<>>}
                            ELSE [HiddenNets(nets(g)) -> Gateways \cap NodesOf(nets(g))],
                   lead \in Leads(nets(g)),
                   site \in {n \in nets(g) : n.node = job[c].wish.node} :
                  /\ {w.key : w \in put(g, lead, relay)} \ new(g) \subseteq chain
                  /\ plan' = [plan EXCEPT ![c] =
                       [put |-> put(g, lead, relay), new |-> new(g), users |-> ext(g).granted,
                        drop |-> {},
                        machine |-> {[by |-> c, node |-> site.node, at |-> site.key,
                                      ip |-> FreeIP(site)]}]]
                  /\ todo' = [todo EXCEPT ![c] = {w.key : w \in put(g, lead, relay)}]
             /\ chain' = chain \cup new(g)
             /\ made' = made + 3
             /\ Prune(c, indexed)
             /\ pc' = [pc EXCEPT ![c] = "sending"]
             /\ UNCHANGED <<carried, indexed, machines, users, deletedContracts, job,
                            answer, view, crashes, before, overlapped, cutOff, halfSent>>
          \/ /\ \/ ext(g).joined # {} /\ HiddenNets(nets(g)) # {}
                   /\ Gateways \cap NodesOf(nets(g)) = {}
                \/ /\ ext(g).joined # {} /\ known
                   /\ ~({n.key : n \in view[c]} \subseteq chain)
             /\ Fail(c)
    BY DEF Deploy
  <2>2. /\ \E relay, lead, site : Settled(g, relay, lead, site)
        /\ chain' = chain \cup new(g)
    <3> HIDE DEF put, new, nets, ext, known
    <3> QED
      BY <2>1
  <2>3. g \in Gateways
    <3>1. job[c].wish \in Wishes
      BY DEF IInv, MapsOK, Deploy
    <3>2. job[c].wish.via \in Gateways \cup {NoNode}
      BY <3>1, NetworkAssumption
    <3> QED
      BY <2>1, <3>2
  <2> HIDE DEF Settled, new
  <2> QED
    BY <2>2, <2>3
<1>2. PICK relay, lead, site : Settled(g, relay, lead, site)
  BY <1>1
<1>3. Chosen(c, g, relay, lead, site)
  BY <1>1, <1>2 DEF Chosen
<1> QED
  BY <1>3

\* What a deployment adds to the network: the nodes that join are the machine's and
\* an access node, neither of which was in it, and the access point given to the user
\* is beside one of them; the workloads keep the access points there are.
Grown(c, joined, granted, put, site) ==
  LET taken == Reserved(view[c], AccessPoints(view[c]))
      nets == view[c] \cup joined
  IN
  /\ \A j \in joined : /\ j.subnet \notin taken /\ j.node \notin NodesOf(view[c])
                       /\ j.node \in Gateways \/ j = site
  /\ \A i, j \in joined : i # j => i.node # j.node
  /\ \A u \in granted : /\ u.key = made + 2 /\ u.at \in {made + 1, made + 3}
                        /\ u.subnet \notin taken
                        /\ \E j \in joined : j.key = u.at
                        /\ \A j \in joined : /\ j.subnet # u.subnet
                                             /\ j.key = u.at => j.node = u.node
  /\ \A u, v \in granted : u = v
  /\ \A w \in put : \E n, m \in nets :
       /\ w.key = n.key /\ w.node = n.node /\ w.subnet = n.subnet
       /\ m.subnet = n.subnet /\ w.wg = m.wg
       /\ \A q \in AccessPoints(view[c]) \cup granted : q.node = m.node => Has(w.peers, q)
       /\ (\E p \in w.peers : ~p.direct) =>
            \/ \E q \in AccessPoints(view[c]) : q.node = m.node
            \/ m.node \in Gateways
  /\ \A w \in put : \E n \in nets :
       w.key = n.key /\ w.node = n.node /\ w.subnet = n.subnet /\ IsFiniteSet(w.peers)
  /\ \A j \in joined : \E w \in put : w.key = j.key
  /\ \A j \in joined : /\ j.key \in {made + 1, made + 3} /\ j.wg = j.key
                       /\ j.subnet \notin Subnets(view[c])
  /\ \A i, j \in joined : i # j => i.key # j.key /\ i.subnet # j.subnet
  /\ site \in nets

LEMMA GrownFacts ==
  ASSUME IInv, HandsOK, NEW c \in Calls, Deploy(c), ~Fail(c)
  PROVE  \E joined, granted, put, site :
           LET new == {n.key : n \in joined} IN
           /\ chain' = chain \cup new
           /\ todo' = [todo EXCEPT ![c] = {w.key : w \in put}]
           /\ plan' = [plan EXCEPT ![c] =
                [put |-> put, new |-> new, users |-> granted, drop |-> {},
                 machine |-> {[by |-> c, node |-> site.node, at |-> site.key,
                               ip |-> FreeIP(site)]}]]
           /\ Grown(c, joined, granted, put, site)
<1>1. job[c].wish \in Wishes
  BY DEF Deploy, Loaded, HandsOK, HandOK
<1>2. PICK g \in Gateways : \E relay, lead, site : Chosen(c, g, relay, lead, site)
  BY DeployChoice
<1>3. PICK relay, lead, s : Chosen(c, g, relay, lead, s)
  BY <1>2
<1> DEFINE known == Listing(indexed) # {}
           E == Extension(c, g, known)
           joined == E.joined
           granted == E.granted
           P == Workloads(c, E, lead, relay, known)
           taken == Reserved(view[c], AccessPoints(view[c]))
           n == job[c].wish.node
<1>4. Nets(view[c]) /\ made \in Nat
  BY DEF IInv, WorldOK, CallOK, ViewOK, Nets
<1>5. /\ IsFiniteSet(joined) /\ IsFiniteSet(granted)
      /\ \A j \in joined : /\ j.key \in {made + 1, made + 3}
                           /\ j.subnet \notin Subnets(view[c])
                           /\ j.peers = {} /\ j.ips = {} /\ j.wg = j.key
      /\ \A i, j \in joined : i # j => i.key # j.key /\ i.subnet # j.subnet
      /\ job[c].wish.node \in NodesOf(view[c] \cup joined)
  <2> HIDE DEF known
  <2> QED
    BY <1>4, ExtensionFacts
<1>6. /\ \A j \in joined : /\ j.subnet \notin taken /\ j.node \notin NodesOf(view[c])
                           /\ j.node \in Gateways \/ j.node = n
                           /\ j.ips = {}
      /\ \A i, j \in joined : i # j => i.node # j.node
      /\ \A u \in granted :
           /\ u.key = made + 2 /\ u.at \in {made + 1, made + 3}
           /\ u.node \in Gateways /\ u.subnet \notin taken
           /\ \E j \in joined : j.key = u.at
           /\ \A j \in joined : /\ j.subnet # u.subnet
                                /\ j.key = u.at => j.node = u.node
      /\ \A u, v \in granted : u = v
  <2> HIDE DEF known
  <2> QED
    BY <1>1, <1>4, JoinedFacts
<1>7. s \in view[c] \cup joined /\ s.node = n /\ lead \in Leads(view[c] \cup joined)
  BY <1>3 DEF Chosen
<1>8. \A j \in joined : j.node = n => j = s
  <2>1. NodesOf(view[c]) = {x.node : x \in view[c]}
    BY DEF NodesOf
  <2> HIDE DEF joined, n, taken, granted
  <2> QED
    BY <1>6, <1>7, <2>1
<1>9. /\ \A w \in P : /\ IsFiniteSet(w.peers)
                      /\ \E x \in view[c] \cup joined :
                           w.key = x.key /\ w.node = x.node /\ w.subnet = x.subnet
      /\ \A j \in joined : \E w \in P : w.key = j.key
  <2>1. P = Workloads(c, E, lead, relay, known) /\ lead \in Leads(view[c] \cup E.joined)
    BY <1>7
  <2>2. IsFiniteSet(E.joined) /\ IsFiniteSet(E.granted) /\ \A j \in E.joined : j.peers = {}
    BY <1>5
  <2> HIDE DEF known, E, P
  <2> QED
    BY <1>4, <2>1, <2>2, WorkloadsFacts
<1>10. \A w \in P : \E x, m \in view[c] \cup joined :
         Linked(w, x, m, AccessPoints(view[c]) \cup granted, view[c] \cup joined, relay)
  <2>1. P = Workloads(c, E, lead, relay, known) /\ lead \in Leads(view[c] \cup E.joined)
    BY <1>7
  <2> HIDE DEF known, E, P
  <2> QED
    BY <2>1, MeshFacts
<1>11. joined # {} => \A y \in HiddenNets(view[c] \cup joined) : relay[y] \in Gateways
  BY <1>3 DEF Chosen
<1>12. P # {} => joined # {}
  BY DEF Workloads
<1>13. /\ chain' = chain \cup {x.key : x \in joined}
       /\ todo' = [todo EXCEPT ![c] = {w.key : w \in P}]
       /\ plan' = [plan EXCEPT ![c] =
            [put |-> P, new |-> {x.key : x \in joined}, users |-> granted, drop |-> {},
             machine |-> {[by |-> c, node |-> s.node, at |-> s.key, ip |-> FreeIP(s)]}]]
  BY <1>3 DEF Chosen
<1> HIDE DEF joined, granted, P, E, n, taken
<1>14. ASSUME NEW w \in P
       PROVE  \E x, m \in view[c] \cup joined :
         /\ w.key = x.key /\ w.node = x.node /\ w.subnet = x.subnet
         /\ m.subnet = x.subnet /\ w.wg = m.wg
         /\ \A q \in AccessPoints(view[c]) \cup granted : q.node = m.node => Has(w.peers, q)
         /\ (\E p \in w.peers : ~p.direct) =>
              \/ \E q \in AccessPoints(view[c]) : q.node = m.node
              \/ m.node \in Gateways
  <2>1. PICK x, m \in view[c] \cup joined :
          Linked(w, x, m, AccessPoints(view[c]) \cup granted, view[c] \cup joined, relay)
    BY <1>10, <1>14
  <2>2. \A q \in granted : q.node \in Gateways
    BY <1>6
  <2>3. /\ w.key = x.key /\ w.node = x.node /\ w.subnet = x.subnet
        /\ m.subnet = x.subnet /\ w.wg = m.wg
        /\ \A q \in AccessPoints(view[c]) \cup granted : q.node = m.node => Has(w.peers, q)
        /\ (\E p \in w.peers : ~p.direct) =>
             \/ \E q \in AccessPoints(view[c]) \cup granted : q.node = m.node
             \/ \E y \in HiddenNets(view[c] \cup joined) : relay[y] = m.node
    BY <2>1 DEF Linked
  <2>4. (\E p \in w.peers : ~p.direct) =>
          \/ \E q \in AccessPoints(view[c]) : q.node = m.node
          \/ m.node \in Gateways
    BY <1>11, <1>14, <1>12, <2>2, <2>3
  <2> QED
    BY <2>3, <2>4
<1>15. Grown(c, joined, granted, P, s)
  BY <1>5, <1>6, <1>7, <1>8, <1>9, <1>14 DEF Grown, taken
<1> QED
  BY <1>13, <1>15

\* The step of a deployment that is not a failure.
LEMMA DeployTurn ==
  ASSUME IInv, HandsOK, NEW c \in Calls, Deploy(c), ~Fail(c)
  PROVE  /\ pc[c] = "loading" /\ todo[c] = {} /\ pc'[c] = "sending" /\ Apart(c)
         /\ job' = job /\ answer' = answer /\ view' = view /\ carried' = carried
         /\ indexed' = indexed /\ machines' = machines /\ users' = users
         /\ deletedContracts' = deletedContracts /\ crashes' = crashes
         /\ before' = before /\ overlapped' = overlapped /\ cutOff' = cutOff
         /\ halfSent' = halfSent
         /\ newContracts' \subseteq newContracts /\ forgotten \subseteq forgotten'
         /\ made' = made + 3
         /\ \E joined, granted, put, site :
              /\ Grown(c, joined, granted, put, site)
              /\ chain' = chain \cup {n.key : n \in joined}
              /\ todo'[c] = {w.key : w \in put}
              /\ New(c)' = {n.key : n \in joined} /\ Dropped(c)' = {}
              /\ plan'[c].put = put /\ plan'[c].users = granted
              /\ plan'[c].machine = {[by |-> c, node |-> site.node, at |-> site.key,
                                      ip |-> FreeIP(site)]}
<1>1. MapsOK
  BY DEF IInv
<1>2. /\ pc[c] = "loading" /\ todo[c] = {}
      /\ Prune(c, indexed) /\ made' = made + 3 /\ pc' = [pc EXCEPT ![c] = "sending"]
      /\ UNCHANGED <<carried, indexed, machines, users, deletedContracts, job,
                     answer, view, crashes, before, overlapped, cutOff, halfSent>>
  BY DeployFacts DEF Loaded
<1>3. PICK joined, granted, put, site :
        /\ Grown(c, joined, granted, put, site)
        /\ chain' = chain \cup {n.key : n \in joined}
        /\ todo' = [todo EXCEPT ![c] = {w.key : w \in put}]
        /\ plan' = [plan EXCEPT ![c] =
             [put |-> put, new |-> {n.key : n \in joined}, users |-> granted, drop |-> {},
              machine |-> {[by |-> c, node |-> site.node, at |-> site.key,
                            ip |-> FreeIP(site)]}]]
  <2>1. \E joined, granted, put, site :
           LET new == {n.key : n \in joined} IN
           /\ chain' = chain \cup new
           /\ todo' = [todo EXCEPT ![c] = {w.key : w \in put}]
           /\ plan' = [plan EXCEPT ![c] =
                [put |-> put, new |-> new, users |-> granted, drop |-> {},
                 machine |-> {[by |-> c, node |-> site.node, at |-> site.key,
                               ip |-> FreeIP(site)]}]]
           /\ Grown(c, joined, granted, put, site)
    BY GrownFacts
  <2> QED
    BY <2>1
<1>4. pc'[c] = "sending" /\ \A d \in Calls \ {c} : pc'[d] = pc[d]
  BY <1>1, <1>2, Updated DEF MapsOK
<1>5. todo'[c] = {w.key : w \in put} /\ \A d \in Calls \ {c} : todo'[d] = todo[d]
  BY <1>1, <1>3, Updated DEF MapsOK
<1>6. /\ plan'[c] = [put |-> put, new |-> {n.key : n \in joined}, users |-> granted, drop |-> {},
                     machine |-> {[by |-> c, node |-> site.node, at |-> site.key,
                                   ip |-> FreeIP(site)]}]
      /\ \A d \in Calls \ {c} : plan'[d] = plan[d]
  BY <1>1, <1>3, Updated DEF MapsOK
<1>7. /\ Grown(c, joined, granted, put, site)
      /\ chain' = chain \cup {n.key : n \in joined}
      /\ todo'[c] = {w.key : w \in put}
      /\ New(c)' = {n.key : n \in joined} /\ Dropped(c)' = {}
      /\ plan'[c].put = put /\ plan'[c].users = granted
      /\ plan'[c].machine = {[by |-> c, node |-> site.node, at |-> site.key,
                              ip |-> FreeIP(site)]}
  BY <1>3, <1>5, <1>6 DEF New, Dropped
<1>8. newContracts' \subseteq newContracts /\ forgotten \subseteq forgotten'
  BY <1>2 DEF Prune
<1>9. Apart(c)
  BY <1>2, <1>4, <1>5, <1>6 DEF Apart
<1> QED
  BY <1>2, <1>4, <1>7, <1>8, <1>9

-----------------------------------------------------------------------------
(* The key pairs and subnets of the nodes.                                   *)

\* A call that takes its turn has loaded no subnet twice.
LEMMA ViewApart ==
  ASSUME IInv, TurnsOK, HandsOK, WgOK, Alone, NEW c \in Calls, pc[c] = "loading",
         NEW m \in view[c], NEW n \in view[c], m.subnet = n.subnet
  PROVE  m = n
<1>1. ASSUME NEW x \in view[c] PROVE x.key \in DOMAIN carried /\ carried[x.key].subnet = x.subnet
  <2>1. x.key \in DOMAIN carried
    BY DEF WgOK
  <2>2. ViewOK(c)
    BY DEF IInv, CallOK
  <2> QED
    BY <2>1, <2>2 DEF ViewOK
<1>2. ASSUME NEW k \in DOMAIN carried
      PROVE  carried[k].by \in Calls /\ pc[carried[k].by] \in Over
  <2>1. CarriedOK(k)
    BY DEF IInv
  <2>2. carried[k].by # c => New(carried[k].by) = {}
    <3>1. carried[k].by \in Calls /\ ~overlapped /\ pc[c] \notin Over \cup {"idle"}
      BY <2>1 DEF CarriedOK, Over, Alone
    <3> QED
      BY <3>1, OthersRest
  <2>3. pc[c] # "sending"
    OBVIOUS
  <2> QED
    BY <2>1, <2>2, <2>3 DEF CarriedOK
<1>3. m.key = n.key
  <2> SUFFICES ASSUME m.key # n.key PROVE FALSE
    OBVIOUS
  <2> DEFINE a == carried[m.key].by
             b == carried[n.key].by
  <2>1. AtOnce(a, b)
    BY <1>1 DEF IInv, SubnetsApart, Alone
  <2>2. a \in Calls /\ b \in Calls /\ pc[a] \in Over /\ pc[b] \in Over
    BY <1>1, <1>2
  <2> HIDE DEF a, b
  <2>3. a # b /\ pc[a] # "idle" /\ pc[b] # "idle"
    BY <2>1, <2>2 DEF AtOnce, Over
  <2> QED
    BY <2>1, <2>2, <2>3 DEF TurnsOK, Alone
<1> QED
  BY <1>3 DEF IInv, CallOK, ViewOK

\* So every workload planned is worked out for the node it goes to.
LEMMA GrownApart ==
  ASSUME IInv, TurnsOK, HandsOK, WgOK, Alone, NEW c \in Calls, pc[c] = "loading",
         NEW joined, NEW granted, NEW put, NEW site, Grown(c, joined, granted, put, site)
  PROVE  /\ \A m, n \in view[c] \cup joined : m.subnet = n.subnet => m = n
         /\ \A n \in view[c] \cup joined : n.wg = n.key
         /\ \A w \in put : \E n \in view[c] \cup joined :
              /\ w.key = n.key /\ w.node = n.node /\ w.subnet = n.subnet /\ w.wg = n.key
              /\ \A q \in AccessPoints(view[c]) \cup granted : q.node = n.node => Has(w.peers, q)
              /\ (\E p \in w.peers : ~p.direct) =>
                   \/ \E q \in AccessPoints(view[c]) : q.node = n.node
                   \/ n.node \in Gateways
<1>1. /\ \A j \in joined : j.subnet \notin Subnets(view[c]) /\ j.wg = j.key
      /\ \A i, j \in joined : i # j => i.subnet # j.subnet
  BY DEF Grown
<1>2. ASSUME NEW m \in view[c] \cup joined, NEW n \in view[c] \cup joined, m.subnet = n.subnet
      PROVE  m = n
  <2>1. CASE m \in view[c] /\ n \in view[c]
    BY <1>2, <2>1, ViewApart
  <2>2. CASE m \in joined /\ n \in joined
    BY <1>1, <1>2, <2>2
  <2>3. \A x \in view[c] : x.subnet \in Subnets(view[c])
    BY DEF Subnets
  <2> QED
    BY <1>1, <1>2, <2>1, <2>2, <2>3
<1>3. ASSUME NEW n \in view[c] \cup joined PROVE n.wg = n.key
  <2>1. \A x \in view[c] : x.wg = x.key
    BY DEF WgOK
  <2> QED
    BY <1>1, <2>1
<1>4. ASSUME NEW w \in put
      PROVE  \E n \in view[c] \cup joined :
        /\ w.key = n.key /\ w.node = n.node /\ w.subnet = n.subnet /\ w.wg = n.key
        /\ \A q \in AccessPoints(view[c]) \cup granted : q.node = n.node => Has(w.peers, q)
        /\ (\E p \in w.peers : ~p.direct) =>
             \/ \E q \in AccessPoints(view[c]) : q.node = n.node
             \/ n.node \in Gateways
  <2>1. PICK n, m \in view[c] \cup joined :
          /\ w.key = n.key /\ w.node = n.node /\ w.subnet = n.subnet
          /\ m.subnet = n.subnet /\ w.wg = m.wg
          /\ \A q \in AccessPoints(view[c]) \cup granted : q.node = m.node => Has(w.peers, q)
          /\ (\E p \in w.peers : ~p.direct) =>
               \/ \E q \in AccessPoints(view[c]) : q.node = m.node
               \/ m.node \in Gateways
    BY <1>4 DEF Grown
  <2>2. m = n /\ m.wg = n.key
    BY <1>2, <1>3, <2>1
  <2> QED
    BY <2>1, <2>2
<1> QED
  BY <1>2, <1>3, <1>4

LEMMA WgStep ==
  ASSUME WgOK, NEW c \in Calls, Apart(c), Alone' => Alone,
         Alone' => \A k \in DOMAIN carried' : carried'[k].wg = k,
         Alone' => \A n \in view'[c] : /\ n.wg = n.key
                                       /\ pc'[c] = "loading" => n.key \in DOMAIN carried',
         Alone' => \A w \in plan'[c].put : w.wg = w.key,
         Alone' => \/ DOMAIN carried \subseteq DOMAIN carried'
                   \/ \A d \in Calls \ {c} : view[d] = {}
  PROVE  WgOK'
<1> SUFFICES ASSUME Alone'
             PROVE  /\ \A k \in DOMAIN carried' : carried'[k].wg = k
                    /\ \A d \in Calls :
                         /\ \A n \in view'[d] : /\ n.wg = n.key
                                                /\ pc'[d] = "loading" => n.key \in DOMAIN carried'
                         /\ \A w \in plan'[d].put : w.wg = w.key
  BY DEF WgOK
<1>1. \A d \in Calls \ {c} : pc'[d] = pc[d] /\ view'[d] = view[d] /\ plan'[d] = plan[d]
  BY DEF Apart
<1>2. \A d \in Calls : /\ \A n \in view[d] : /\ n.wg = n.key
                                             /\ pc[d] = "loading" => n.key \in DOMAIN carried
                       /\ \A w \in plan[d].put : w.wg = w.key
  BY DEF WgOK
<1>3. ASSUME NEW d \in Calls \ {c}
      PROVE  /\ \A n \in view'[d] : /\ n.wg = n.key
                                    /\ pc'[d] = "loading" => n.key \in DOMAIN carried'
             /\ \A w \in plan'[d].put : w.wg = w.key
  BY <1>1, <1>2, <1>3
<1> QED
  BY <1>3

LEMMA WgNext == ASSUME IInv, TurnsOK, HandsOK, WgOK, Next PROVE WgOK'
<1>1. Alone => \A k \in DOMAIN carried : carried[k].wg = k
  BY DEF WgOK
<1>2. ASSUME NEW c \in Calls, Apart(c), Ended(c, "failed") \/ Ended(c, "done"), Alone' => Alone,
             carried' = carried
      PROVE  WgOK'
  <2>1. view'[c] = {} /\ plan'[c].put = {}
    BY <1>2 DEF Ended, NoPlan
  <2> QED
    BY <1>1, <1>2, <2>1, WgStep
<1>3. ASSUME NEW c \in Calls, \A n \in view'[c] : n \in view[c], plan'[c].put = plan[c].put,
             pc'[c] # "loading" \/ view[c] = {}, Apart(c), Alone' => Alone, carried' = carried
      PROVE  WgOK'
  <2>1. Alone => (\A n \in view[c] : n.wg = n.key) /\ \A w \in plan[c].put : w.wg = w.key
    BY DEF WgOK
  <2> QED
    BY <1>1, <1>3, <2>1, WgStep
<1>4. ASSUME NEW c \in Calls, Ask(c) PROVE WgOK'
  <2>1. /\ Apart(c) /\ view' = view /\ plan' = plan /\ carried' = carried
        /\ pc'[c] = "asking" /\ overlapped' = (overlapped \/ Busy # {}) /\ forgotten' = forgotten
    BY <1>4, AskFacts
  <2> QED
    BY <1>3, <2>1 DEF Alone
<1>5. ASSUME NEW c \in Calls, Merge(c) PROVE WgOK'
  <2>1. /\ Apart(c) /\ view' = view /\ plan' = plan /\ carried' = carried /\ pc[c] = "asking"
        /\ overlapped' = overlapped /\ forgotten \subseteq forgotten'
    BY <1>5, MergeFacts
  <2>2. view[c] = {}
    BY <2>1 DEF IInv, CallOK, ViewOK
  <2> QED
    BY <1>3, <2>1, <2>2 DEF Alone
<1>6. ASSUME NEW c \in Calls, Fail(c) PROVE WgOK'
  <2>1. Apart(c) /\ Ended(c, "failed") /\ carried' = carried /\ overlapped' = overlapped
        /\ forgotten' = forgotten
    BY <1>6, FailFacts
  <2> QED
    BY <1>2, <2>1 DEF Alone
<1>7. ASSUME NEW c \in Calls, NEW k \in 1 .. made, Fetch(c, k) PROVE WgOK'
  <2>1. CASE k \in DOMAIN carried
    <3>1. /\ Apart(c) /\ view'[c] = view[c] \cup {Loads(k)} /\ plan' = plan
          /\ carried' = carried /\ overlapped' = overlapped /\ forgotten' = forgotten
          /\ pc[c] = "loading"
      BY <1>7, <2>1, FetchFacts
    <3>2. Loads(k).key = k /\ Loads(k).wg = carried[k].wg
      BY DEF Loads
    <3>3. Alone => /\ \A n \in view[c] : n.wg = n.key /\ n.key \in DOMAIN carried
                   /\ \A w \in plan[c].put : w.wg = w.key
      BY <3>1 DEF WgOK
    <3>4. Alone => \A n \in view'[c] : n.wg = n.key /\ n.key \in DOMAIN carried
      BY <1>1, <2>1, <3>1, <3>2, <3>3
    <3>5. Alone' => Alone
      BY <3>1 DEF Alone
    <3> QED
      BY <1>1, <3>1, <3>3, <3>4, <3>5, WgStep
  <2>2. CASE k \notin DOMAIN carried
    BY <1>6, <1>7, <2>2 DEF Fetch
  <2> QED
    BY <2>1, <2>2
<1>8. ASSUME NEW c \in Calls, Deploy(c), ~Fail(c) PROVE WgOK'
  <2>1. /\ Apart(c) /\ pc[c] = "loading" /\ pc'[c] = "sending" /\ view' = view
        /\ carried' = carried /\ overlapped' = overlapped /\ forgotten \subseteq forgotten'
    BY <1>8, DeployTurn
  <2>2. PICK joined, granted, put, site :
          /\ Grown(c, joined, granted, put, site)
          /\ chain' = chain \cup {n.key : n \in joined}
          /\ todo'[c] = {w.key : w \in put}
          /\ New(c)' = {n.key : n \in joined} /\ Dropped(c)' = {}
          /\ plan'[c].put = put /\ plan'[c].users = granted
          /\ plan'[c].machine = {[by |-> c, node |-> site.node, at |-> site.key,
                                  ip |-> FreeIP(site)]}
    BY <1>8, DeployTurn
  <2>3. Alone' => Alone
    BY <2>1 DEF Alone
  <2>4. ASSUME Alone PROVE \A w \in put : w.wg = w.key
    <3> SUFFICES ASSUME NEW w \in put PROVE w.wg = w.key
      OBVIOUS
    <3>1. \E n \in view[c] \cup joined :
            /\ w.key = n.key /\ w.node = n.node /\ w.subnet = n.subnet /\ w.wg = n.key
            /\ \A q \in AccessPoints(view[c]) \cup granted : q.node = n.node => Has(w.peers, q)
            /\ (\E p \in w.peers : ~p.direct) =>
                 \/ \E q \in AccessPoints(view[c]) : q.node = n.node
                 \/ n.node \in Gateways
      BY <2>1, <2>2, <2>4, GrownApart
    <3> QED
      BY <3>1
  <2>5. Alone => \A n \in view[c] : n.wg = n.key
    BY DEF WgOK
  <2> QED
    BY <1>1, <2>1, <2>2, <2>3, <2>4, <2>5, WgStep
<1>9. ASSUME NEW c \in Calls, NEW k \in 1 .. made, Send(c, k) PROVE WgOK'
  <2>1. /\ Apart(c) /\ view' = view /\ plan' = plan /\ overlapped' = overlapped
        /\ forgotten' = forgotten /\ pc' = pc /\ pc[c] = "sending"
        /\ DOMAIN carried' = DOMAIN carried \cup {k}
        /\ \A x \in DOMAIN carried \ {k} : carried'[x] = carried[x]
    BY <1>9, SendFacts, SendTakes
  <2>2. PICK w \in plan[c].put :
          /\ w.key = k /\ carried'[k].node = w.node /\ carried'[k].subnet = w.subnet
          /\ carried'[k].peers = w.peers /\ carried'[k].wg = w.wg
    BY <1>9, SendTakes
  <2>3. Alone => (\A n \in view[c] : n.wg = n.key) /\ \A x \in plan[c].put : x.wg = x.key
    BY DEF WgOK
  <2>4. Alone => \A x \in DOMAIN carried' : carried'[x].wg = x
    BY <1>1, <2>1, <2>2, <2>3
  <2>5. Alone' => Alone
    BY <2>1 DEF Alone
  <2> QED
    BY <2>1, <2>3, <2>4, <2>5, WgStep
<1>10. ASSUME NEW c \in Calls, RollBack(c) PROVE WgOK'
  <2>1. /\ Apart(c) /\ Ended(c, "failed") /\ pc[c] = "sending" /\ overlapped' = overlapped
        /\ forgotten \subseteq forgotten' /\ DOMAIN carried' \subseteq DOMAIN carried
        /\ \A x \in DOMAIN carried' : carried'[x] = carried[x]
    BY <1>10, RollBackFacts
  <2>2. view'[c] = {} /\ plan'[c].put = {}
    BY <2>1 DEF Ended, NoPlan
  <2>3. Alone' => Alone
    BY <2>1 DEF Alone
  <2>4. Alone => \A d \in Calls \ {c} : view[d] = {}
    <3>1. pc[c] \notin Over \cup {"idle"}
      BY <2>1 DEF Over
    <3> QED
      BY <3>1, OthersRest DEF Alone
  <2> QED
    BY <1>1, <2>1, <2>2, <2>3, <2>4, WgStep
<1>11. ASSUME NEW c \in Calls, Remove(c), ~Fail(c) PROVE WgOK'
  <2> DEFINE drop == {n.key : n \in Emptied(view[c], job[c].machine)}
  <2>1. /\ Apart(c) /\ view' = view /\ overlapped' = overlapped /\ forgotten' = forgotten
        /\ pc[c] = "loading" /\ pc'[c] = "saving" /\ plan'[c] = [NoPlan EXCEPT !.drop = drop]
        /\ DOMAIN carried' = DOMAIN carried \ drop
        /\ \A x \in DOMAIN carried' : carried'[x] = carried[x]
    BY <1>11, RemoveFacts
  <2> HIDE DEF drop
  <2>2. plan'[c].put = {}
    BY <2>1 DEF NoPlan
  <2>3. Alone' => Alone
    BY <2>1 DEF Alone
  <2>4. Alone => \A d \in Calls \ {c} : view[d] = {}
    <3>1. pc[c] \notin Over \cup {"idle"}
      BY <2>1 DEF Over
    <3> QED
      BY <3>1, OthersRest DEF Alone
  <2>5. Alone => \A n \in view[c] : n.wg = n.key
    BY DEF WgOK
  <2> QED
    BY <1>1, <2>1, <2>2, <2>3, <2>4, <2>5, WgStep
<1>12. ASSUME NEW c \in Calls, Finish(c) PROVE WgOK'
  <2>1. Apart(c) /\ Ended(c, "done") /\ carried' = carried /\ overlapped' = overlapped
        /\ forgotten' = forgotten
    BY <1>12, FinishFacts
  <2> QED
    BY <1>2, <2>1 DEF Alone
<1>13. ASSUME NEW k \in 1 .. made, Index(k) PROVE WgOK'
  BY <1>13, IndexFacts DEF WgOK, Alone
<1>14. CASE Crash
  <2>1. /\ \A c \in Calls : view'[c] = {} /\ plan'[c] = NoPlan
        /\ carried' = carried /\ overlapped' = overlapped /\ forgotten \subseteq forgotten'
    BY <1>14, CrashFacts
  <2>2. \A c \in Calls : view'[c] = {} /\ plan'[c].put = {}
    BY <2>1 DEF NoPlan
  <2>3. Alone' => Alone
    BY <2>1 DEF Alone
  <2> QED
    BY <1>1, <2>1, <2>2, <2>3 DEF WgOK
<1> QED
  BY <1>4, <1>5, <1>6, <1>7, <1>8, <1>9, <1>10, <1>11, <1>12, <1>13, <1>14 DEF Next

\* Calls that have been at once stay so, and what is forgotten is not remembered.
LEMMA AloneBefore == ASSUME IInv, HandsOK, Next, Alone' PROVE Alone
<1> SUFFICES (overlapped => overlapped') /\ forgotten \subseteq forgotten'
  BY DEF Alone
<1>1. ASSUME NEW c \in Calls, Fail(c) PROVE overlapped' = overlapped /\ forgotten' = forgotten
  BY <1>1, FailFacts
<1>2. ASSUME NEW c \in Calls, Ask(c)
      PROVE  overlapped' = (overlapped \/ Busy # {}) /\ forgotten' = forgotten
  BY <1>2, AskFacts
<1>3. ASSUME NEW c \in Calls, Merge(c)
      PROVE  overlapped' = overlapped /\ forgotten \subseteq forgotten'
  BY <1>3, MergeFacts
<1>4. ASSUME NEW c \in Calls, Deploy(c)
      PROVE  overlapped' = overlapped /\ forgotten \subseteq forgotten'
  BY <1>1, <1>4, DeployTurn
<1>5. ASSUME NEW c \in Calls, RollBack(c)
      PROVE  overlapped' = overlapped /\ forgotten \subseteq forgotten'
  BY <1>5, RollBackFacts
<1>6. ASSUME NEW c \in Calls, Remove(c) PROVE overlapped' = overlapped /\ forgotten' = forgotten
  BY <1>1, <1>6, RemoveFacts
<1>7. ASSUME NEW c \in Calls, Finish(c) PROVE overlapped' = overlapped /\ forgotten' = forgotten
  BY <1>7, FinishFacts
<1>8. ASSUME NEW c \in Calls, NEW k \in 1 .. made, Fetch(c, k)
      PROVE  overlapped' = overlapped /\ forgotten' = forgotten
  <2>1. CASE k \in DOMAIN carried
    BY <1>8, <2>1, FetchFacts
  <2>2. CASE k \notin DOMAIN carried
    BY <1>1, <1>8, <2>2 DEF Fetch
  <2> QED
    BY <2>1, <2>2
<1>9. ASSUME NEW c \in Calls, NEW k \in 1 .. made, Send(c, k)
      PROVE  overlapped' = overlapped /\ forgotten' = forgotten
  BY <1>9, SendFacts
<1>10. ASSUME NEW k \in 1 .. made, Index(k)
       PROVE  overlapped' = overlapped /\ forgotten' = forgotten
  BY <1>10, IndexFacts
<1>11. CASE Crash
  BY <1>11, CrashFacts
<1> QED
  BY <1>2, <1>3, <1>4, <1>5, <1>6, <1>7, <1>8, <1>9, <1>10, <1>11 DEF Next

-----------------------------------------------------------------------------
(* The access points of the users.                                           *)

\* Every action but a deployment: no new access point, contract or workload planned,
\* and what is loaded or sent has the access points it had.
LEMMA UsersKeep ==
  ASSUME IInv, UsersOK, AllUsers' \subseteq AllUsers, made' = made, chain' \subseteq chain,
         Alone' => Alone,
         \A d \in Calls : \A n \in view'[d] :
           \/ n \in view[d]
           \/ n.key \in chain
              /\ (Alone => \A u \in AllUsers : n.key = u.at => Has(n.peers, u)),
         \A d \in Calls : plan'[d].put \subseteq plan[d].put,
         Alone => \A u \in AllUsers : u.at \in DOMAIN carried' => Has(carried'[u.at].peers, u)
  PROVE  \A u \in AllUsers' : UserOK(u)'
<1> SUFFICES ASSUME NEW u \in AllUsers' PROVE UserOK(u)'
  OBVIOUS
<1>1. u \in AllUsers /\ UserOK(u)
  BY DEF UsersOK
<1>2. u.key \in 1 .. made' /\ u.at \in 1 .. made' /\ u.key \notin chain'
  BY <1>1 DEF UserOK
<1>3. \A d \in Calls : u.key \notin Keys(d)'
  BY <1>1 DEF UserOK, Keys
<1>4. ASSUME Alone'
      PROVE  /\ u.at \in DOMAIN carried' => Has(carried'[u.at].peers, u)
             /\ \A d \in Calls :
                  /\ \A n \in view'[d] : n.key = u.at => Has(n.peers, u)
                  /\ \A w \in plan'[d].put : w.key = u.at => Has(w.peers, u)
  BY <1>1, <1>4 DEF UserOK
<1>5. Alone' =>
        (/\ u.at \in DOMAIN carried' => Has(carried'[u.at].peers, u)
         /\ \A d \in Calls :
              /\ \A n \in view'[d] : n.key = u.at => Has(n.peers, u)
              /\ \A w \in plan'[d].put : w.key = u.at => Has(w.peers, u))
  BY <1>4
<1> QED
  BY <1>2, <1>3, <1>5 DEF UserOK, Has, Alone

\* A step of c that makes no plan.
LEMMA UsersApart ==
  ASSUME IInv, UsersOK, NEW c \in Calls, Apart(c), made' = made, chain' \subseteq chain,
         Alone' => Alone,
         users' \subseteq users \cup plan[c].users,
         \A n \in view'[c] :
           \/ n \in view[c]
           \/ n.key \in chain
              /\ (Alone => \A u \in AllUsers : n.key = u.at => Has(n.peers, u)),
         plan'[c].put \subseteq plan[c].put,
         plan'[c].users \subseteq plan[c].users, New(c)' \subseteq New(c),
         plan'[c].users # {} => New(c)' = New(c),
         users' \subseteq users \/ New(c)' = {},
         Alone => \A u \in AllUsers : u.at \in DOMAIN carried' => Has(carried'[u.at].peers, u)
  PROVE  UsersOK'
<1>1. AllUsers' \subseteq AllUsers
  BY DEF AllUsers, Apart
<1>2. \A d \in Calls : plan'[d].put \subseteq plan[d].put
  BY DEF Apart
<1>3. \A d \in Calls : \A n \in view'[d] :
        \/ n \in view[d]
        \/ n.key \in chain
           /\ (Alone => \A u \in AllUsers : n.key = u.at => Has(n.peers, u))
  BY DEF Apart
<1>4. \A u \in AllUsers' : UserOK(u)'
  BY <1>1, <1>2, <1>3, UsersKeep
<1>5. ASSUME NEW d \in Calls PROVE \A u \in plan'[d].users : u.at \in New(d)'
  BY DEF UsersOK, Apart, New
<1>6. ASSUME NEW d \in Calls, NEW u \in users' PROVE u.at \notin New(d)'
  <2>1. New(d)' \subseteq New(d)
    BY DEF Apart, New
  <2>2. CASE u \in users
    BY <2>1, <2>2 DEF UsersOK
  <2>3. CASE u \notin users
    <3>1. u \in plan[c].users /\ u.at \in New(c) /\ New(c)' = {}
      BY <2>3 DEF UsersOK
    <3>2. CASE d = c
      BY <3>1, <3>2
    <3>3. CASE d # c
      BY <2>1, <3>1, <3>3 DEF IInv, PairOK
    <3> QED
      BY <3>2, <3>3
  <2> QED
    BY <2>2, <2>3
<1> QED
  BY <1>4, <1>5, <1>6 DEF UsersOK

LEMMA UsersDeploy ==
  ASSUME IInv, TurnsOK, HandsOK, WgOK, UsersOK, NEW c \in Calls, Deploy(c), ~Fail(c)
  PROVE  UsersOK'
<1>1. /\ pc[c] = "loading" /\ todo[c] = {} /\ pc'[c] = "sending" /\ Apart(c)
      /\ view' = view /\ carried' = carried /\ users' = users
      /\ overlapped' = overlapped /\ made' = made + 3 /\ forgotten \subseteq forgotten'
  BY DeployTurn
<1>2. PICK joined, granted, put, site :
        /\ Grown(c, joined, granted, put, site)
        /\ chain' = chain \cup {n.key : n \in joined}
        /\ todo'[c] = {w.key : w \in put}
        /\ New(c)' = {n.key : n \in joined} /\ Dropped(c)' = {}
        /\ plan'[c].put = put /\ plan'[c].users = granted
        /\ plan'[c].machine = {[by |-> c, node |-> site.node, at |-> site.key,
                                ip |-> FreeIP(site)]}
  BY DeployTurn
<1>3. /\ made \in Nat /\ chain \subseteq 1 .. made /\ DOMAIN carried \subseteq 1 .. made
      /\ \A d \in Calls : Keys(d) \subseteq 1 .. made /\ Keys(d)' = Keys(d)
      /\ \A d \in Calls : \A n \in view[d] : n.key \in 1 .. made
  <2>1. made \in Nat /\ chain \subseteq 1 .. made /\ DOMAIN carried \subseteq 1 .. made
    BY DEF IInv, WorldOK
  <2>2. \A d \in Calls : \A n \in view[d] : n.key \in 1 .. made
    BY DEF IInv, CallOK, ViewOK
  <2>3. \A d \in Calls : Keys(d) \subseteq 1 .. made /\ Keys(d)' = Keys(d)
    BY <1>1, <2>2 DEF Keys
  <2> QED
    BY <2>1, <2>2, <2>3
<1>4. \A j \in joined : j.key \in {made + 1, made + 3}
  BY <1>2 DEF Grown
<1>5. \A u \in granted : /\ u.key = made + 2 /\ u.at \in {made + 1, made + 3}
                         /\ \E j \in joined : j.key = u.at
                         /\ \A j \in joined : j.key = u.at => j.node = u.node
  BY <1>2 DEF Grown
<1>6. ASSUME Alone, NEW w \in put
      PROVE  \E n \in view[c] \cup joined :
        /\ w.key = n.key
        /\ \A q \in AccessPoints(view[c]) \cup granted : q.node = n.node => Has(w.peers, q)
  <2>1. \E n \in view[c] \cup joined :
          /\ w.key = n.key /\ w.node = n.node /\ w.subnet = n.subnet /\ w.wg = n.key
          /\ \A q \in AccessPoints(view[c]) \cup granted : q.node = n.node => Has(w.peers, q)
          /\ (\E p \in w.peers : ~p.direct) =>
               \/ \E q \in AccessPoints(view[c]) : q.node = n.node
               \/ n.node \in Gateways
    BY <1>1, <1>2, <1>6, GrownApart
  <2> QED
    BY <2>1
<1>7. Alone' => Alone
  BY <1>1 DEF Alone
<1>8. \A d \in Calls \ {c} : plan'[d] = plan[d]
  BY <1>1 DEF Apart
<1>9. ASSUME NEW u \in AllUsers PROVE UserOK(u)'
  <2>1. UserOK(u)
    BY DEF UsersOK
  <2>2. u.key \in 1 .. made /\ u.at \in 1 .. made /\ u.key \notin chain
        /\ \A d \in Calls : u.key \notin Keys(d)
    BY <2>1 DEF UserOK
  <2>3. /\ u.key \in 1 .. made' /\ u.at \in 1 .. made' /\ u.key \notin chain'
        /\ \A d \in Calls : u.key \notin Keys(d)'
    BY <1>1, <1>2, <1>3, <1>4, <2>2
  <2>4. ASSUME Alone, NEW w \in put, w.key = u.at PROVE Has(w.peers, u)
    <3>1. PICK n \in view[c] \cup joined :
            /\ w.key = n.key
            /\ \A q \in AccessPoints(view[c]) \cup granted : q.node = n.node => Has(w.peers, q)
      BY <1>6, <2>4
    <3>2. n \in view[c]
      BY <1>3, <1>4, <2>2, <2>4, <3>1
    <3>3. PICK p \in n.peers : p.key = u.key /\ p.subnet = u.subnet /\ ~p.direct
      BY <2>1, <2>4, <3>1, <3>2 DEF UserOK, Has
    <3> DEFINE q == [key |-> p.key, node |-> n.node, subnet |-> p.subnet]
    <3>4. q \in AccessPoints(view[c])
      <4>1. \A x \in view[c] : x.wg # p.key
        BY <2>2, <2>4, <3>3 DEF Keys, WgOK
      <4> QED
        BY <3>2, <3>3, <4>1, PointFacts
    <3>5. Has(w.peers, q) /\ q.key = u.key /\ q.subnet = u.subnet
      BY <3>1, <3>3, <3>4
    <3> QED
      BY <3>5 DEF Has
  <2>5. ASSUME Alone'
        PROVE  /\ u.at \in DOMAIN carried' => Has(carried'[u.at].peers, u)
               /\ \A d \in Calls :
                    /\ \A n \in view'[d] : n.key = u.at => Has(n.peers, u)
                    /\ \A w \in plan'[d].put : w.key = u.at => Has(w.peers, u)
    BY <1>1, <1>2, <1>8, <1>7, <2>1, <2>4, <2>5 DEF UserOK
  <2> QED
    BY <2>3, <2>5 DEF UserOK, Has, Alone
<1>10. ASSUME NEW u \in granted PROVE UserOK(u)'
  <2>1. /\ u.key \in 1 .. made' /\ u.at \in 1 .. made' /\ u.key \notin chain'
        /\ \A d \in Calls : u.key \notin Keys(d)'
    BY <1>1, <1>2, <1>3, <1>4, <1>5
  <2>2. ASSUME Alone, NEW w \in put, w.key = u.at PROVE Has(w.peers, u)
    <3>1. PICK n \in view[c] \cup joined :
            /\ w.key = n.key
            /\ \A q \in AccessPoints(view[c]) \cup granted : q.node = n.node => Has(w.peers, q)
      BY <1>6, <2>2
    <3>2. n \in joined
      <4>1. n.key = u.at /\ u.at \notin 1 .. made
        <5>1. u.at \in {made + 1, made + 3} /\ n.key = u.at
          BY <1>5, <2>2, <3>1
        <5>2. made \in Nat
          BY <1>3
        <5> QED
          BY <5>1, <5>2
      <4>2. n \notin view[c]
        BY <1>3, <4>1
      <4> QED
        BY <4>2
    <3> QED
      BY <1>5, <2>2, <3>1, <3>2
  <2>3. /\ u.at \notin DOMAIN carried'
        /\ \A d \in Calls : \A n \in view'[d] : n.key # u.at
    BY <1>1, <1>3, <1>5
  <2>4. \A d \in Calls \ {c} : \A w \in plan'[d].put : w.key # u.at
    <3> SUFFICES ASSUME NEW d \in Calls \ {c}, NEW w \in plan[d].put PROVE w.key \in 1 .. made
      BY <1>3, <1>5, <1>8
    <3>1. pc[d] = "sending"
      BY DEF HandsOK, HandOK
    <3>2. w.key \in New(d) \cup Keys(d) /\ New(d) \subseteq 1 .. made
      BY <3>1 DEF IInv, CallOK, PlanOK, PutOK, FormOK
    <3> QED
      BY <1>3, <3>2
  <2>5. Alone => \A d \in Calls : \A w \in plan'[d].put : w.key = u.at => Has(w.peers, u)
    BY <1>2, <2>2, <2>4
  <2> QED
    BY <1>7, <2>1, <2>3, <2>5 DEF UserOK, Has, Alone
<1>11. AllUsers' \subseteq AllUsers \cup granted
  BY <1>1, <1>2, <1>8 DEF AllUsers
<1>12. ASSUME NEW d \in Calls
       PROVE  /\ \A u \in plan'[d].users : u.at \in New(d)'
              /\ \A u \in users' : u.at \notin New(d)'
  <2>1. CASE d = c
    <3>1. \A u \in users : u.at \in 1 .. made
      BY DEF UsersOK, UserOK, AllUsers
    <3> QED
      BY <1>1, <1>2, <1>3, <1>4, <1>5, <2>1, <3>1
  <2>2. CASE d # c
    <3>1. New(d)' = New(d) /\ plan'[d].users = plan[d].users
      BY <1>8, <2>2 DEF New
    <3> QED
      BY <1>1, <3>1 DEF UsersOK
  <2> QED
    BY <2>1, <2>2
<1> QED
  BY <1>9, <1>10, <1>11, <1>12 DEF UsersOK

LEMMA UsersNext == ASSUME IInv, TurnsOK, HandsOK, WgOK, UsersOK, Next PROVE UsersOK'
<1>1. Alone => \A u \in AllUsers : u.at \in DOMAIN carried => Has(carried[u.at].peers, u)
  BY DEF UsersOK, UserOK
<1>2. Alone' => Alone
  BY AloneBefore
<1>3. ASSUME NEW c \in Calls, Apart(c), Ended(c, "failed"), made' = made, chain' = chain,
             carried' = carried, users' = users
      PROVE  UsersOK'
  <2>1. view'[c] = {} /\ plan'[c].put = {} /\ plan'[c].users = {} /\ New(c)' = {}
    BY <1>3 DEF Ended, NoPlan, New
  <2> QED
    BY <1>1, <1>2, <1>3, <2>1, UsersApart
<1>4. ASSUME NEW c \in Calls, Ask(c) PROVE UsersOK'
  <2>1. /\ Apart(c) /\ made' = made /\ chain' = chain /\ users' = users /\ carried' = carried
        /\ view' = view /\ plan' = plan /\ overlapped' = (overlapped \/ Busy # {})
    BY <1>4, AskFacts
  <2> QED
    BY <1>1, <1>2, <2>1, UsersApart DEF New
<1>5. ASSUME NEW c \in Calls, Merge(c) PROVE UsersOK'
  <2>1. /\ Apart(c) /\ made' = made /\ chain' = chain /\ users' = users /\ carried' = carried
        /\ view' = view /\ plan' = plan /\ overlapped' = overlapped
    BY <1>5, MergeFacts
  <2> QED
    BY <1>1, <1>2, <2>1, UsersApart DEF New
<1>6. ASSUME NEW c \in Calls, Fail(c) PROVE UsersOK'
  BY <1>3, <1>6, FailFacts
<1>7. ASSUME NEW c \in Calls, NEW k \in 1 .. made, Fetch(c, k) PROVE UsersOK'
  <2>1. CASE k \in DOMAIN carried
    <3>1. /\ Apart(c) /\ made' = made /\ chain' = chain /\ users' = users /\ carried' = carried
          /\ view'[c] = view[c] \cup {Loads(k)} /\ plan' = plan /\ overlapped' = overlapped
      BY <1>7, <2>1, FetchFacts
    <3>2. Loads(k).key = k /\ Loads(k).peers = carried[k].peers
      BY DEF Loads
    <3>3. k \in chain
      BY <2>1 DEF IInv, WorldOK
    <3>4. Alone => \A u \in AllUsers : k = u.at => Has(Loads(k).peers, u)
      BY <1>1, <2>1, <3>2
    <3>5. \A n \in view'[c] :
            \/ n \in view[c]
            \/ n.key \in chain
               /\ (Alone => \A u \in AllUsers : n.key = u.at => Has(n.peers, u))
      BY <3>1, <3>2, <3>3, <3>4
    <3> QED
      BY <1>1, <1>2, <3>1, <3>5, UsersApart DEF New
  <2>2. CASE k \notin DOMAIN carried
    BY <1>6, <1>7, <2>2 DEF Fetch
  <2> QED
    BY <2>1, <2>2
<1>8. ASSUME NEW c \in Calls, Deploy(c) PROVE UsersOK'
  BY <1>6, <1>8, UsersDeploy
<1>9. ASSUME NEW c \in Calls, NEW k \in 1 .. made, Send(c, k) PROVE UsersOK'
  <2>1. /\ Apart(c) /\ made' = made /\ chain' = chain /\ users' = users
        /\ view' = view /\ plan' = plan /\ overlapped' = overlapped
        /\ DOMAIN carried' = DOMAIN carried \cup {k}
        /\ \A x \in DOMAIN carried \ {k} : carried'[x] = carried[x]
    BY <1>9, SendFacts, SendTakes
  <2>2. PICK w \in plan[c].put :
          /\ w.key = k /\ carried'[k].node = w.node /\ carried'[k].subnet = w.subnet
          /\ carried'[k].peers = w.peers /\ carried'[k].wg = w.wg
    BY <1>9, SendTakes
  <2>3. ASSUME Alone, NEW u \in AllUsers, u.at \in DOMAIN carried'
        PROVE  Has(carried'[u.at].peers, u)
    <3>1. CASE u.at = k
      BY <2>2, <2>3, <3>1 DEF UsersOK, UserOK
    <3>2. CASE u.at # k
      BY <1>1, <2>1, <2>3, <3>2
    <3> QED
      BY <3>1, <3>2
  <2> QED
    BY <1>2, <2>1, <2>3, UsersApart DEF New
<1>10. ASSUME NEW c \in Calls, RollBack(c) PROVE UsersOK'
  <2>1. /\ Apart(c) /\ Ended(c, "failed") /\ made' = made /\ chain' \subseteq chain
        /\ users' = users /\ DOMAIN carried' \subseteq DOMAIN carried
        /\ \A x \in DOMAIN carried' : carried'[x] = carried[x]
    BY <1>10, RollBackFacts
  <2>2. view'[c] = {} /\ plan'[c].put = {} /\ plan'[c].users = {} /\ New(c)' = {}
    BY <2>1 DEF Ended, NoPlan, New
  <2>3. Alone => \A u \in AllUsers : u.at \in DOMAIN carried' => Has(carried'[u.at].peers, u)
    BY <1>1, <2>1
  <2> QED
    BY <1>2, <2>1, <2>2, <2>3, UsersApart
<1>11. ASSUME NEW c \in Calls, Remove(c), ~Fail(c) PROVE UsersOK'
  <2> DEFINE drop == {n.key : n \in Emptied(view[c], job[c].machine)}
  <2>1. /\ Apart(c) /\ made' = made /\ chain' = chain \ drop /\ users' = users /\ view' = view
        /\ overlapped' = overlapped /\ plan'[c] = [NoPlan EXCEPT !.drop = drop]
        /\ DOMAIN carried' = DOMAIN carried \ drop
        /\ \A x \in DOMAIN carried' : carried'[x] = carried[x]
    BY <1>11, RemoveFacts
  <2> HIDE DEF drop
  <2>2. plan'[c].put = {} /\ plan'[c].users = {} /\ New(c)' = {}
    BY <2>1 DEF NoPlan, New
  <2>3. Alone => \A u \in AllUsers : u.at \in DOMAIN carried' => Has(carried'[u.at].peers, u)
    BY <1>1, <2>1
  <2> QED
    BY <1>2, <2>1, <2>2, <2>3, UsersApart
<1>12. ASSUME NEW c \in Calls, Finish(c) PROVE UsersOK'
  <2>1. /\ Apart(c) /\ Ended(c, "done") /\ made' = made /\ chain' = chain /\ carried' = carried
        /\ users' = users \cup plan[c].users /\ overlapped' = overlapped
    BY <1>12, FinishFacts
  <2>2. view'[c] = {} /\ plan'[c].put = {} /\ plan'[c].users = {} /\ New(c)' = {}
    BY <2>1 DEF Ended, NoPlan, New
  <2> QED
    BY <1>1, <1>2, <2>1, <2>2, UsersApart
<1>13. ASSUME NEW k \in 1 .. made, Index(k) PROVE UsersOK'
  <2>1. /\ made' = made /\ chain' = chain /\ carried' = carried /\ users' = users
        /\ view' = view /\ plan' = plan /\ overlapped' = overlapped
    BY <1>13, IndexFacts
  <2> QED
    BY <1>2, <2>1 DEF UsersOK, UserOK, AllUsers, Keys, New, Has
<1>14. CASE Crash
  <2>1. /\ made' = made /\ chain' = chain /\ carried' = carried /\ users' = users
        /\ overlapped' = overlapped /\ \A d \in Calls : view'[d] = {} /\ plan'[d] = NoPlan
    BY <1>14, CrashFacts
  <2>2. \A d \in Calls : plan'[d].put = {} /\ plan'[d].users = {} /\ New(d)' = {}
    BY <2>1 DEF NoPlan, New
  <2>3. AllUsers' \subseteq AllUsers
    BY <2>1, <2>2 DEF AllUsers
  <2>4. \A u \in AllUsers' : UserOK(u)'
    BY <1>1, <1>2, <2>1, <2>2, <2>3, UsersKeep
  <2> QED
    BY <2>2, <2>4 DEF UsersOK
<1> QED
  BY <1>4, <1>5, <1>6, <1>7, <1>8, <1>9, <1>10, <1>11, <1>12, <1>13, <1>14 DEF Next

-----------------------------------------------------------------------------
(* The subnets of the access points.                                         *)

\* Every action but a deployment: nothing comes into use, and no subnet is given.
LEMMA ApartKeep ==
  ASSUME ApartOK, AllUsers' \subseteq AllUsers, InUse' \subseteq InUse,
         ~overlapped' => ~overlapped, forgotten \subseteq forgotten',
         ~overlapped /\ forgotten = {} =>
           \A u \in InUse : \A k \in DOMAIN carried' : carried'[k].subnet # u.subnet,
         \A d \in Calls : plan'[d].put \subseteq plan[d].put /\ New(d)' \subseteq New(d)
  PROVE  ApartOK'
<1>1. \A u, v \in AllUsers' : u # v => u.key # v.key
  BY DEF ApartOK
<1>2. ASSUME ~overlapped', forgotten' = {}, NEW u \in InUse'
      PROVE  /\ \A k \in DOMAIN carried' : carried'[k].subnet # u.subnet
             /\ \A v \in InUse' : v # u => v.subnet # u.subnet
             /\ \A d \in Calls : \A w \in plan'[d].put : w.key \in New(d)' => w.subnet # u.subnet
  <2>1. ~overlapped /\ forgotten = {} /\ u \in InUse
    BY <1>2
  <2> QED
    BY <2>1 DEF ApartOK
<1> QED
  BY <1>1, <1>2 DEF ApartOK

\* A step of c that makes no plan and brings no workload.
LEMMA ApartApart ==
  ASSUME ApartOK, NEW c \in Calls, Apart(c), ~overlapped' => ~overlapped,
         forgotten \subseteq forgotten',
         users' \subseteq users \cup plan[c].users,
         plan'[c].put \subseteq plan[c].put, plan'[c].users \subseteq plan[c].users,
         New(c)' \subseteq New(c),
         DOMAIN carried' \subseteq DOMAIN carried,
         \A k \in DOMAIN carried' : carried'[k].subnet = carried[k].subnet
  PROVE  ApartOK'
<1>1. AllUsers' \subseteq AllUsers /\ InUse' \subseteq InUse
  BY DEF AllUsers, InUse, Apart
<1>2. \A d \in Calls : plan'[d].put \subseteq plan[d].put /\ New(d)' \subseteq New(d)
  BY DEF Apart, New
<1>3. ~overlapped /\ forgotten = {} =>
        \A u \in InUse : \A k \in DOMAIN carried' : carried'[k].subnet # u.subnet
  BY DEF ApartOK
<1> QED
  BY <1>1, <1>2, <1>3, ApartKeep

\* What is in use is among the points that a call taking its turn has loaded.
LEMMA InUseLoaded ==
  ASSUME IInv, TurnsOK, HandsOK, WgOK, UsersOK, Alone, NEW c \in Calls,
         pc[c] = "loading", todo[c] = {}, NEW u \in InUse
  PROVE  u.subnet \in Reserved(view[c], AccessPoints(view[c]))
<1>1. u \in users /\ u.at \in DOMAIN carried
  <2>1. \A d \in Calls : plan[d].users = {}
    BY OthersRest DEF HandsOK, HandOK, Over, Alone
  <2> QED
    BY <2>1 DEF InUse
<1>2. PICK n \in view[c] : n.key = u.at
  BY <1>1, LoadsAll DEF Alone
<1>3. UserOK(u)
  BY <1>1 DEF UsersOK, AllUsers
<1>4. PICK p \in n.peers : p.key = u.key /\ p.subnet = u.subnet /\ ~p.direct
  BY <1>2, <1>3 DEF UserOK, Has
<1> DEFINE q == [key |-> p.key, node |-> n.node, subnet |-> p.subnet]
<1>5. \A x \in view[c] : x.wg # p.key
  BY <1>3, <1>4 DEF UserOK, Keys, WgOK
<1>6. q \in AccessPoints(view[c]) /\ q.subnet = u.subnet
  BY <1>4, <1>5, PointFacts
<1> HIDE DEF q
<1> QED
  BY <1>6 DEF Reserved

\* The workload of a node that joins has the node's subnet.
LEMMA JoinedWork ==
  ASSUME IInv, NEW c \in Calls, NEW joined, NEW granted, NEW put, NEW site,
         Grown(c, joined, granted, put, site),
         NEW w \in put, w.key \in {n.key : n \in joined}
  PROVE  \E j \in joined : w.key = j.key /\ w.node = j.node /\ w.subnet = j.subnet
<1>1. PICK n \in view[c] \cup joined :
        w.key = n.key /\ w.node = n.node /\ w.subnet = n.subnet
  BY DEF Grown
<1>2. PICK j \in joined : w.key = j.key /\ j.key \in {made + 1, made + 3}
  BY DEF Grown
<1>3. made \in Nat /\ \A x \in view[c] : x.key \in 1 .. made
  BY DEF IInv, WorldOK, CallOK, ViewOK
<1>4. j.key \notin 1 .. made
  <2> DEFINE x == j.key
  <2>1. x = made + 1 \/ x = made + 3
    BY <1>2
  <2> HIDE DEF x
  <2>2. x \notin 1 .. made
    BY <1>3, <2>1
  <2> QED
    BY <2>2 DEF x
<1>5. n \notin view[c]
  <2>1. n.key = j.key
    BY <1>1, <1>2
  <2> QED
    BY <1>3, <1>4, <2>1
<1> QED
  BY <1>1, <1>5

LEMMA ApartDeploy ==
  ASSUME IInv, TurnsOK, HandsOK, WgOK, UsersOK, ApartOK, NEW c \in Calls, Deploy(c), ~Fail(c)
  PROVE  ApartOK'
<1> DEFINE taken == Reserved(view[c], AccessPoints(view[c]))
<1>1. /\ pc[c] = "loading" /\ todo[c] = {} /\ Apart(c)
      /\ carried' = carried /\ users' = users /\ overlapped' = overlapped
      /\ forgotten \subseteq forgotten'
  BY DeployTurn
<1>2. PICK joined, granted, put, site :
        /\ Grown(c, joined, granted, put, site)
        /\ chain' = chain \cup {n.key : n \in joined}
        /\ todo'[c] = {w.key : w \in put}
        /\ New(c)' = {n.key : n \in joined} /\ Dropped(c)' = {}
        /\ plan'[c].put = put /\ plan'[c].users = granted
        /\ plan'[c].machine = {[by |-> c, node |-> site.node, at |-> site.key,
                                ip |-> FreeIP(site)]}
  BY DeployTurn
<1>3. \A d \in Calls \ {c} : plan'[d] = plan[d]
  BY <1>1 DEF Apart
<1>4. /\ \A u \in granted : /\ u.key = made + 2 /\ u.subnet \notin taken
                            /\ \A j \in joined : j.subnet # u.subnet
      /\ \A u, v \in granted : u = v
      /\ \A j \in joined : j.subnet \notin taken
  BY <1>2 DEF Grown
<1> HIDE DEF taken
<1>5. AllUsers' \subseteq AllUsers \cup granted /\ InUse' \subseteq InUse \cup granted
  BY <1>1, <1>2, <1>3 DEF AllUsers, InUse
<1>6. \A u \in AllUsers : u.key \in 1 .. made
  BY DEF UsersOK, UserOK
<1>7. made \in Nat
  BY DEF IInv, WorldOK
<1>8. \A u, v \in AllUsers' : u # v => u.key # v.key
  BY <1>4, <1>5, <1>6, <1>7 DEF ApartOK
<1>9. ASSUME ~overlapped', forgotten' = {}, NEW u \in InUse'
      PROVE  /\ \A k \in DOMAIN carried' : carried'[k].subnet # u.subnet
             /\ \A v \in InUse' : v # u => v.subnet # u.subnet
             /\ \A d \in Calls : \A w \in plan'[d].put : w.key \in New(d)' => w.subnet # u.subnet
  <2>1. ~overlapped /\ forgotten = {}
    BY <1>1, <1>9
  <2>2. \A x \in InUse : x.subnet \in taken
    BY <1>1, <2>1, InUseLoaded DEF taken, Alone
  <2>3. \A k \in DOMAIN carried : carried[k].subnet \in taken
    <3> SUFFICES ASSUME NEW k \in DOMAIN carried PROVE carried[k].subnet \in taken
      OBVIOUS
    <3>1. \E n \in view[c] : n.subnet = carried[k].subnet
      BY <1>1, <2>1, LoadsAll
    <3> QED
      BY <3>1 DEF taken, Reserved
  <2>4. \A d \in Calls \ {c} : plan'[d].put = {}
    BY <1>1, <1>3, <2>1, OthersRest DEF Over
  <2>5. \A w \in plan'[c].put : w.key \in New(c)' => \E j \in joined : w.subnet = j.subnet
    BY <1>2, JoinedWork
  <2>6. CASE u \in granted
    BY <1>1, <1>4, <1>5, <2>2, <2>3, <2>4, <2>5, <2>6
  <2>7. CASE u \in InUse
    <3>1. \A k \in DOMAIN carried' : carried'[k].subnet # u.subnet
      BY <1>1, <2>1, <2>7 DEF ApartOK
    <3>2. \A v \in InUse' : v # u => v.subnet # u.subnet
      BY <1>4, <1>5, <2>1, <2>2, <2>7 DEF ApartOK
    <3>3. \A d \in Calls : \A w \in plan'[d].put : w.key \in New(d)' => w.subnet # u.subnet
      BY <1>4, <2>2, <2>4, <2>5, <2>7
    <3> QED
      BY <3>1, <3>2, <3>3
  <2> QED
    BY <1>5, <2>6, <2>7
<1> QED
  BY <1>8, <1>9 DEF ApartOK

LEMMA ApartSend ==
  ASSUME IInv, UsersOK, ApartOK, NEW c \in Calls, NEW k \in 1 .. made, Send(c, k)
  PROVE  ApartOK'
<1>1. /\ pc[c] = "sending" /\ Apart(c) /\ users' = users /\ plan' = plan
      /\ overlapped' = overlapped /\ forgotten' = forgotten
      /\ k \notin DOMAIN carried => k \in New(c)
  BY SendFacts
<1>2. /\ DOMAIN carried' = DOMAIN carried \cup {k}
      /\ \A x \in DOMAIN carried \ {k} : carried'[x] = carried[x]
  BY SendTakes
<1>3. PICK w \in plan[c].put :
        /\ w.key = k /\ carried'[k].node = w.node /\ carried'[k].subnet = w.subnet
        /\ carried'[k].peers = w.peers /\ carried'[k].wg = w.wg
  BY SendTakes
<1>4. AllUsers' = AllUsers
  BY <1>1 DEF AllUsers
<1>5. InUse' \subseteq InUse
  <2>1. \A u \in users : u.at \in DOMAIN carried' => u.at \in DOMAIN carried
    BY <1>1, <1>2 DEF UsersOK
  <2> QED
    BY <1>1, <2>1 DEF InUse
<1>6. ASSUME ~overlapped, forgotten = {}, NEW u \in InUse, NEW x \in DOMAIN carried'
      PROVE  carried'[x].subnet # u.subnet
  <2>1. \A y \in DOMAIN carried : carried[y].subnet # u.subnet
    BY <1>6 DEF ApartOK
  <2>2. CASE x # k
    BY <1>2, <1>6, <2>1, <2>2
  <2>3. CASE x = k /\ k \in DOMAIN carried
    <3>1. w.subnet = carried[k].subnet
      BY <1>1, <1>3, <2>3 DEF IInv, CallOK, PlanOK, PutOK
    <3> QED
      BY <1>3, <2>1, <2>3, <3>1
  <2>4. CASE x = k /\ k \notin DOMAIN carried
    BY <1>1, <1>3, <1>6, <2>4 DEF ApartOK
  <2> QED
    BY <2>2, <2>3, <2>4
<1>7. \A d \in Calls : plan'[d].put \subseteq plan[d].put /\ New(d)' \subseteq New(d)
  BY <1>1 DEF New
<1> QED
  BY <1>1, <1>4, <1>5, <1>6, <1>7, ApartKeep

LEMMA ApartNext == ASSUME IInv, TurnsOK, HandsOK, WgOK, UsersOK, ApartOK, Next PROVE ApartOK'
<1>1. ASSUME NEW c \in Calls, Apart(c), plan'[c] = NoPlan, users' \subseteq users \cup plan[c].users,
             overlapped' = overlapped, forgotten \subseteq forgotten',
             DOMAIN carried' \subseteq DOMAIN carried,
             \A k \in DOMAIN carried' : carried'[k].subnet = carried[k].subnet
      PROVE  ApartOK'
  <2>1. plan'[c].put = {} /\ plan'[c].users = {} /\ New(c)' = {}
    BY <1>1 DEF NoPlan, New
  <2> QED
    BY <1>1, <2>1, ApartApart
<1>2. ASSUME NEW c \in Calls, Fail(c) PROVE ApartOK'
  BY <1>1, <1>2, FailFacts DEF Ended
<1>3. ASSUME NEW c \in Calls, Apart(c), plan' = plan, users' = users, carried' = carried,
             ~overlapped' => ~overlapped, forgotten \subseteq forgotten'
      PROVE  ApartOK'
  BY <1>3, ApartApart DEF New
<1>4. ASSUME NEW c \in Calls, Ask(c) PROVE ApartOK'
  <2>1. /\ Apart(c) /\ plan' = plan /\ users' = users /\ carried' = carried
        /\ overlapped' = (overlapped \/ Busy # {}) /\ forgotten' = forgotten
    BY <1>4, AskFacts
  <2> QED
    BY <1>3, <2>1
<1>5. ASSUME NEW c \in Calls, Merge(c) PROVE ApartOK'
  BY <1>3, <1>5, MergeFacts
<1>6. ASSUME NEW c \in Calls, NEW k \in 1 .. made, Fetch(c, k) PROVE ApartOK'
  <2>1. CASE k \in DOMAIN carried
    BY <1>3, <1>6, <2>1, FetchFacts
  <2>2. CASE k \notin DOMAIN carried
    BY <1>2, <1>6, <2>2 DEF Fetch
  <2> QED
    BY <2>1, <2>2
<1>7. ASSUME NEW c \in Calls, Deploy(c) PROVE ApartOK'
  BY <1>2, <1>7, ApartDeploy
<1>8. ASSUME NEW c \in Calls, NEW k \in 1 .. made, Send(c, k) PROVE ApartOK'
  BY <1>8, ApartSend
<1>9. ASSUME NEW c \in Calls, RollBack(c) PROVE ApartOK'
  <2>1. /\ Apart(c) /\ plan'[c] = NoPlan /\ users' = users
        /\ overlapped' = overlapped /\ forgotten \subseteq forgotten'
        /\ DOMAIN carried' \subseteq DOMAIN carried
        /\ \A x \in DOMAIN carried' : carried'[x].subnet = carried[x].subnet
    BY <1>9, RollBackFacts DEF Ended
  <2> QED
    BY <1>1, <2>1
<1>10. ASSUME NEW c \in Calls, Remove(c), ~Fail(c) PROVE ApartOK'
  <2> DEFINE drop == {n.key : n \in Emptied(view[c], job[c].machine)}
  <2>1. /\ Apart(c) /\ plan'[c] = [NoPlan EXCEPT !.drop = drop] /\ users' = users
        /\ overlapped' = overlapped /\ forgotten' = forgotten
        /\ DOMAIN carried' = DOMAIN carried \ drop
        /\ \A x \in DOMAIN carried' : carried'[x] = carried[x]
    BY <1>10, RemoveFacts
  <2> HIDE DEF drop
  <2>2. plan'[c].put = {} /\ plan'[c].users = {} /\ New(c)' = {}
    BY <2>1 DEF NoPlan, New
  <2> QED
    BY <2>1, <2>2, ApartApart
<1>11. ASSUME NEW c \in Calls, Finish(c) PROVE ApartOK'
  BY <1>1, <1>11, FinishFacts DEF Ended
<1>12. ASSUME NEW k \in 1 .. made, Index(k) PROVE ApartOK'
  <2>1. /\ carried' = carried /\ users' = users /\ plan' = plan
        /\ overlapped' = overlapped /\ forgotten' = forgotten
    BY <1>12, IndexFacts
  <2> QED
    BY <2>1 DEF ApartOK, AllUsers, InUse, New
<1>13. CASE Crash
  <2>1. /\ carried' = carried /\ users' = users /\ overlapped' = overlapped
        /\ forgotten \subseteq forgotten' /\ \A d \in Calls : plan'[d] = NoPlan
    BY <1>13, CrashFacts
  <2>2. \A d \in Calls : plan'[d].put = {} /\ plan'[d].users = {} /\ New(d)' = {}
    BY <2>1 DEF NoPlan, New
  <2>3. AllUsers' \subseteq AllUsers /\ InUse' \subseteq InUse
    BY <2>1, <2>2 DEF AllUsers, InUse
  <2>4. ~overlapped /\ forgotten = {} =>
          \A u \in InUse : \A k \in DOMAIN carried' : carried'[k].subnet # u.subnet
    BY <2>1 DEF ApartOK
  <2> QED
    BY <2>1, <2>2, <2>3, <2>4, ApartKeep
<1> QED
  BY <1>4, <1>5, <1>6, <1>7, <1>8, <1>9, <1>2, <1>10, <1>11, <1>12, <1>13 DEF Next

-----------------------------------------------------------------------------
(* What is listed is on its node.                                            *)

\* A step of c that is quiet keeps the others waiting.
LEMMA QuietStep ==
  ASSUME IInv, TurnsOK, HandsOK, NEW c \in Calls, Apart(c), pc[c] \notin Over \cup {"idle"},
         crashes' = crashes, overlapped' = overlapped, Quiet'
  PROVE  /\ Quiet
         /\ \A k : Sending(k) <=> k \in New(c) /\ k \in todo[c]
         /\ \A k : Sending(k)' <=> k \in New(c)' /\ k \in todo'[c]
         /\ \A k : Listed(k) <=> k \in indexed \cup newContracts \cup answer[c]
         /\ \A k : Listed(k)' <=> k \in indexed' \cup newContracts' \cup answer'[c]
         /\ \A k : Gone(k) <=> k \in deletedContracts \cup Dropped(c)
         /\ \A k : Gone(k)' <=> k \in deletedContracts' \cup Dropped(c)'
         /\ \A d \in Calls \ {c} : New(d)' = {} /\ pc'[d] # "loading"
<1>1. ~overlapped /\ Quiet
  BY DEF Quiet, Apart, Over
<1>2. \A d \in Calls \ {c} : /\ pc[d] \in Over \cup {"idle"} /\ answer[d] = {}
                             /\ New(d) = {} /\ Dropped(d) = {}
  BY <1>1, OthersRest
<1>3. \A d \in Calls \ {c} : /\ pc'[d] \in Over \cup {"idle"} /\ answer'[d] = {}
                             /\ New(d)' = {} /\ Dropped(d)' = {}
  BY <1>2 DEF Apart, New, Dropped
<1> QED
  BY <1>1, <1>2, <1>3 DEF Sending, Listed, Gone, Over

LEMMA FoundNext == ASSUME IInv, TurnsOK, HandsOK, FoundOK, Next PROVE FoundOK'
<1> SUFFICES ASSUME Quiet'
             PROVE  /\ \A k \in chain' : k \in DOMAIN carried' \/ Sending(k)'
                    /\ \A k : Listed(k)' => k \in chain' \/ Gone(k)'
                    /\ \A c \in Calls : /\ New(c)' \subseteq chain'
                                        /\ pc'[c] = "loading" => todo'[c] \subseteq DOMAIN carried'
  BY DEF FoundOK
<1> DEFINE Goal == /\ \A k \in chain' : k \in DOMAIN carried' \/ Sending(k)'
                   /\ \A k : Listed(k)' => k \in chain' \/ Gone(k)'
                   /\ \A c \in Calls : /\ New(c)' \subseteq chain'
                                       /\ pc'[c] = "loading" => todo'[c] \subseteq DOMAIN carried'
<1>1. Quiet =>
        /\ \A k \in chain : k \in DOMAIN carried \/ Sending(k)
        /\ \A k : Listed(k) => k \in chain \/ Gone(k)
        /\ \A c \in Calls : /\ New(c) \subseteq chain
                            /\ pc[c] = "loading" => todo[c] \subseteq DOMAIN carried
  BY DEF FoundOK
<1>2. ASSUME NEW c \in Calls, Ended(c, "failed") PROVE FALSE
  BY <1>2 DEF Ended, Quiet
<1>3. \A c \in Calls : FormOK(c) /\ HandOK(c)
  BY DEF IInv, CallOK, PlanOK, HandsOK
<1>4. ASSUME NEW c \in Calls, Ask(c) PROVE Goal
  <2>1. /\ pc[c] = "idle" /\ pc'[c] = "asking" /\ answer'[c] = indexed /\ Apart(c)
        /\ chain' = chain /\ carried' = carried /\ indexed' = indexed
        /\ newContracts' = newContracts /\ deletedContracts' = deletedContracts
        /\ todo' = todo /\ plan' = plan /\ crashes' = crashes
        /\ overlapped' = (overlapped \/ Busy # {})
    BY <1>4, AskFacts
  <2>2. Quiet
    BY <2>1 DEF Quiet, Apart
  <2>3. \A k : /\ (Sending(k)' <=> Sending(k)) /\ (Gone(k)' <=> Gone(k))
               /\ (Listed(k)' => Listed(k))
    BY <2>1 DEF Sending, Gone, Listed, New, Dropped, Apart
  <2>4. \A d \in Calls : New(d)' = New(d) /\ (pc'[d] = "loading" => pc[d] = "loading")
    BY <2>1 DEF New, Apart
  <2> HIDE DEF Sending, Listed, Gone
  <2> QED
    BY <1>1, <2>1, <2>2, <2>3, <2>4
<1>5. ASSUME NEW c \in Calls, Merge(c) PROVE Goal
  <2>1. /\ pc[c] = "asking" /\ pc'[c] = "loading" /\ answer'[c] = {}
        /\ todo'[c] = Listing(answer[c]) /\ Apart(c)
        /\ newContracts' \subseteq newContracts
        /\ chain' = chain /\ carried' = carried /\ indexed' = indexed
        /\ deletedContracts' = deletedContracts /\ plan' = plan
        /\ crashes' = crashes /\ overlapped' = overlapped
    BY <1>5, MergeFacts
  <2>2. /\ Quiet
        /\ \A k : Sending(k) <=> k \in New(c) /\ k \in todo[c]
        /\ \A k : Listed(k) <=> k \in indexed \cup newContracts \cup answer[c]
        /\ \A k : Listed(k)' <=> k \in indexed' \cup newContracts' \cup answer'[c]
        /\ \A k : Gone(k) <=> k \in deletedContracts \cup Dropped(c)
        /\ \A k : Gone(k)' <=> k \in deletedContracts' \cup Dropped(c)'
        /\ \A d \in Calls \ {c} : New(d)' = {} /\ pc'[d] # "loading"
    BY <2>1, QuietStep DEF Over
  <2>3. New(c) = {} /\ New(c)' = {} /\ Dropped(c) = {} /\ Dropped(c)' = {}
    BY <1>3, <2>1 DEF FormOK, HandOK, New, Dropped
  <2>4. chain \subseteq DOMAIN carried
    BY <1>1, <2>2, <2>3
  <2>5. todo'[c] \subseteq DOMAIN carried
    BY <1>1, <2>1, <2>2, <2>3, <2>4 DEF Listing
  <2> QED
    BY <1>1, <2>1, <2>2, <2>3, <2>4, <2>5
<1>6. ASSUME NEW c \in Calls, NEW k \in 1 .. made, Fetch(c, k) PROVE Goal
  <2>1. CASE k \in DOMAIN carried
    <3>1. /\ pc[c] = "loading" /\ pc' = pc /\ Apart(c)
          /\ todo'[c] = todo[c] \ {k} /\ answer' = answer /\ plan' = plan
          /\ chain' = chain /\ carried' = carried /\ indexed' = indexed
          /\ newContracts' = newContracts /\ deletedContracts' = deletedContracts
          /\ crashes' = crashes /\ overlapped' = overlapped
      BY <1>6, <2>1, FetchFacts
    <3>2. Quiet
      BY <3>1 DEF Quiet
    <3>3. New(c) = {}
      BY <1>3, <3>1 DEF FormOK
    <3>4. \A x : /\ (Sending(x)' <=> Sending(x)) /\ (Gone(x)' <=> Gone(x))
                 /\ (Listed(x)' <=> Listed(x))
      BY <3>1, <3>3 DEF Sending, Gone, Listed, New, Dropped, Apart
    <3>5. \A d \in Calls : New(d)' = New(d) /\ todo'[d] \subseteq todo[d]
      BY <3>1 DEF New, Apart
    <3> HIDE DEF Sending, Listed, Gone
    <3> QED
      BY <1>1, <3>1, <3>2, <3>4, <3>5
  <2>2. CASE k \notin DOMAIN carried
    BY <1>2, <1>6, <2>2, FailFacts DEF Fetch
  <2> QED
    BY <2>1, <2>2
<1>7. ASSUME NEW c \in Calls, Deploy(c) PROVE Goal
  <2>1. CASE Fail(c)
    BY <1>2, <2>1, FailFacts
  <2>2. CASE ~Fail(c)
    <3>1. /\ pc[c] = "loading" /\ todo[c] = {} /\ pc'[c] = "sending" /\ Apart(c)
          /\ answer' = answer /\ carried' = carried /\ indexed' = indexed
          /\ deletedContracts' = deletedContracts /\ crashes' = crashes
          /\ overlapped' = overlapped /\ newContracts' \subseteq newContracts
      BY <1>7, <2>2, DeployTurn
    <3>2. PICK joined, granted, put, site :
            /\ Grown(c, joined, granted, put, site)
            /\ chain' = chain \cup {n.key : n \in joined}
            /\ todo'[c] = {w.key : w \in put}
            /\ New(c)' = {n.key : n \in joined} /\ Dropped(c)' = {}
            /\ plan'[c].put = put /\ plan'[c].users = granted
            /\ plan'[c].machine = {[by |-> c, node |-> site.node, at |-> site.key,
                                    ip |-> FreeIP(site)]}
      BY <1>7, <2>2, DeployTurn
    <3>3. /\ Quiet
          /\ \A k : Sending(k) <=> k \in New(c) /\ k \in todo[c]
          /\ \A k : Sending(k)' <=> k \in New(c)' /\ k \in todo'[c]
          /\ \A k : Listed(k) <=> k \in indexed \cup newContracts \cup answer[c]
          /\ \A k : Listed(k)' <=> k \in indexed' \cup newContracts' \cup answer'[c]
          /\ \A k : Gone(k) <=> k \in deletedContracts \cup Dropped(c)
          /\ \A k : Gone(k)' <=> k \in deletedContracts' \cup Dropped(c)'
          /\ \A d \in Calls \ {c} : New(d)' = {} /\ pc'[d] # "loading"
      BY <3>1, QuietStep DEF Over
    <3>4. New(c)' \subseteq todo'[c] /\ New(c)' \subseteq chain'
      BY <3>2 DEF Grown
    <3>5. Dropped(c) = {}
      BY <1>3, <3>1 DEF HandOK
    <3> QED
      BY <1>1, <3>1, <3>2, <3>3, <3>4, <3>5
  <2> QED
    BY <2>1, <2>2
<1>8. ASSUME NEW c \in Calls, NEW k \in 1 .. made, Send(c, k) PROVE Goal
  <2>1. /\ pc[c] = "sending" /\ pc' = pc /\ Apart(c) /\ answer' = answer /\ plan' = plan
        /\ todo'[c] = todo[c] \ {k} /\ chain' = chain /\ indexed' = indexed
        /\ newContracts' = newContracts /\ deletedContracts' = deletedContracts
        /\ crashes' = crashes /\ overlapped' = overlapped
        /\ DOMAIN carried' = DOMAIN carried \cup {k}
    BY <1>8, SendFacts, SendTakes
  <2>2. Quiet
    BY <2>1 DEF Quiet
  <2>3. \A x : /\ (Sending(x) => Sending(x)' \/ x = k) /\ (Gone(x)' <=> Gone(x))
               /\ (Listed(x)' <=> Listed(x))
    BY <2>1 DEF Sending, Gone, Listed, New, Dropped, Apart
  <2>4. \A d \in Calls : New(d)' = New(d) /\ todo'[d] \subseteq todo[d]
    BY <2>1 DEF New, Apart
  <2> HIDE DEF Sending, Listed, Gone
  <2> QED
    BY <1>1, <2>1, <2>2, <2>3, <2>4
<1>9. ASSUME NEW c \in Calls, RollBack(c) PROVE Goal
  BY <1>2, <1>9, RollBackFacts
<1>10. ASSUME NEW c \in Calls, Remove(c) PROVE Goal
  <2>1. CASE Fail(c)
    BY <1>2, <2>1, FailFacts
  <2>2. CASE ~Fail(c)
    <3> DEFINE drop == {n.key : n \in Emptied(view[c], job[c].machine)}
    <3>1. /\ pc[c] = "loading" /\ pc'[c] = "saving" /\ Apart(c)
          /\ answer' = answer /\ todo' = todo /\ plan'[c] = [NoPlan EXCEPT !.drop = drop]
          /\ chain' = chain \ drop /\ DOMAIN carried' = DOMAIN carried \ drop
          /\ indexed' = indexed /\ newContracts' = newContracts
          /\ deletedContracts' = deletedContracts /\ crashes' = crashes
          /\ overlapped' = overlapped
      BY <1>10, <2>2, RemoveFacts
    <3> HIDE DEF drop
    <3>2. New(c)' = {} /\ Dropped(c)' = drop
      BY <3>1 DEF NoPlan, New, Dropped
    <3>3. /\ Quiet
          /\ \A k : Sending(k) <=> k \in New(c) /\ k \in todo[c]
          /\ \A k : Sending(k)' <=> k \in New(c)' /\ k \in todo'[c]
          /\ \A k : Listed(k) <=> k \in indexed \cup newContracts \cup answer[c]
          /\ \A k : Listed(k)' <=> k \in indexed' \cup newContracts' \cup answer'[c]
          /\ \A k : Gone(k) <=> k \in deletedContracts \cup Dropped(c)
          /\ \A k : Gone(k)' <=> k \in deletedContracts' \cup Dropped(c)'
          /\ \A d \in Calls \ {c} : New(d)' = {} /\ pc'[d] # "loading"
      BY <3>1, QuietStep DEF Over
    <3>4. New(c) = {} /\ Dropped(c) = {}
      BY <1>3, <3>1 DEF FormOK, HandOK
    <3> QED
      BY <1>1, <3>1, <3>2, <3>3, <3>4
  <2> QED
    BY <2>1, <2>2
<1>11. ASSUME NEW c \in Calls, Finish(c) PROVE Goal
  <2>1. /\ (pc[c] = "saving" \/ (pc[c] = "sending" /\ todo[c] = {}))
        /\ Apart(c) /\ Ended(c, "done")
        /\ chain' = chain /\ carried' = carried /\ indexed' = indexed
        /\ newContracts' = newContracts \cup New(c)
        /\ deletedContracts' = deletedContracts \cup Dropped(c)
        /\ crashes' = crashes /\ overlapped' = overlapped
    BY <1>11, FinishFacts
  <2>2. /\ Quiet
        /\ \A k : Sending(k) <=> k \in New(c) /\ k \in todo[c]
        /\ \A k : Listed(k) <=> k \in indexed \cup newContracts \cup answer[c]
        /\ \A k : Listed(k)' <=> k \in indexed' \cup newContracts' \cup answer'[c]
        /\ \A k : Gone(k) <=> k \in deletedContracts \cup Dropped(c)
        /\ \A k : Gone(k)' <=> k \in deletedContracts' \cup Dropped(c)'
        /\ \A d \in Calls \ {c} : New(d)' = {} /\ pc'[d] # "loading"
    BY <2>1, QuietStep DEF Over
  <2>3. New(c)' = {} /\ answer'[c] = {} /\ pc'[c] = "done"
    BY <2>1 DEF Ended, NoPlan, New
  <2>4. chain \subseteq DOMAIN carried
    BY <1>1, <1>3, <2>1, <2>2 DEF FormOK
  <2> QED
    BY <1>1, <2>1, <2>2, <2>3, <2>4
<1>12. ASSUME NEW k \in 1 .. made, Index(k) PROVE Goal
  <2>1. /\ indexed' \subseteq indexed \cup chain
        /\ chain' = chain /\ carried' = carried /\ newContracts' = newContracts
        /\ deletedContracts' = deletedContracts /\ pc' = pc /\ answer' = answer
        /\ todo' = todo /\ plan' = plan /\ crashes' = crashes /\ overlapped' = overlapped
    BY <1>12, IndexFacts
  <2>2. Quiet
    BY <2>1 DEF Quiet
  <2>3. \A x : /\ (Sending(x)' <=> Sending(x)) /\ (Gone(x)' <=> Gone(x))
               /\ (Listed(x)' => Listed(x) \/ x \in chain)
    BY <2>1 DEF Sending, Gone, Listed, New, Dropped
  <2>4. \A d \in Calls : New(d)' = New(d)
    BY <2>1 DEF New
  <2> HIDE DEF Sending, Listed, Gone
  <2> QED
    BY <1>1, <2>1, <2>2, <2>3, <2>4
<1>13. CASE Crash
  <2>1. crashes' = crashes + 1 /\ crashes' = 0 /\ crashes \in Nat
    BY <1>13, CrashFacts DEF Quiet, IInv, WorldOK
  <2> QED
    BY <2>1
<1>14. ASSUME NEW c \in Calls, Fail(c) PROVE Goal
  BY <1>2, <1>14, FailFacts
<1> QED
  BY <1>4, <1>5, <1>6, <1>7, <1>8, <1>9, <1>10, <1>11, <1>12, <1>13 DEF Next

-----------------------------------------------------------------------------
(* The nodes of the network.                                                 *)

\* What NodeOK says when no other call than c has anything in hand.
Served(c, k) ==
  /\ \/ carried[k].node \in Gateways
     \/ \E m \in machines : m.at = k
     \/ k \in New(c) /\ \E p \in plan[c].machine : p.at = k
  /\ OneGateway /\ machines = {} => k \in New(c)
  /\ \A x \in DOMAIN carried : x # k => carried[x].node # carried[k].node
  /\ \A p \in carried[k].peers : ~p.direct => carried[k].node \in Gateways

Kept(c) ==
  /\ \A k \in DOMAIN carried : Served(c, k)
  /\ \A m \in machines : m.at \in DOMAIN carried /\ m.at \notin New(c)
  /\ LoadOK(c) /\ JoinOK(c)

LEMMA KeptBefore ==
  ASSUME IInv, TurnsOK, HandsOK, NodesOK, Calm, NEW c \in Calls, pc[c] \notin Over \cup {"idle"}
  PROVE  Kept(c)
<1>1. \A d \in Calls \ {c} : New(d) = {}
  BY OthersRest DEF Calm
<1>2. \A k \in DOMAIN carried : NodeOK(k)
  BY DEF NodesOK
<1>3. \A k \in DOMAIN carried : Served(c, k)
  BY <1>1, <1>2 DEF NodeOK, Served
<1> QED
  BY <1>3 DEF NodesOK, Kept

LEMMA KeptAfter ==
  ASSUME IInv, TurnsOK, HandsOK, NodesOK, NEW c \in Calls, pc[c] \notin Over \cup {"idle"},
         Apart(c), overlapped' = overlapped, cutOff' = cutOff, forgotten \subseteq forgotten',
         Calm /\ Kept(c) => Kept(c)'
  PROVE  NodesOK'
<1> SUFFICES ASSUME Calm'
             PROVE  /\ \A k \in DOMAIN carried' : NodeOK(k)'
                    /\ \A m \in machines' : m.at \in DOMAIN carried' /\ \A d \in Calls : m.at \notin New(d)'
                    /\ \A d \in Calls : LoadOK(d)' /\ JoinOK(d)'
  BY DEF NodesOK
<1>1. Calm
  BY DEF Calm
<1>2. Kept(c)'
  BY <1>1, KeptBefore
<1>3. \A d \in Calls \ {c} : view'[d] = {} /\ New(d)' = {} /\ plan'[d].put = {} /\ pc'[d] # "sending"
  BY <1>1, OthersRest DEF Calm, Apart, New, Over
<1>4. \A d \in Calls \ {c} : LoadOK(d)' /\ JoinOK(d)'
  BY <1>3 DEF LoadOK, JoinOK
<1>5. \A k \in DOMAIN carried' : NodeOK(k)'
  BY <1>2 DEF Kept, Served, NodeOK
<1> QED
  BY <1>2, <1>3, <1>4, <1>5 DEF Kept

LEMMA NodesMerge == ASSUME IInv, TurnsOK, HandsOK, NodesOK, NEW c \in Calls, Merge(c) PROVE NodesOK'
<1>1. /\ pc[c] = "asking" /\ pc'[c] = "loading" /\ Apart(c) /\ forgotten \subseteq forgotten'
      /\ carried' = carried /\ machines' = machines /\ view' = view /\ plan' = plan
      /\ overlapped' = overlapped /\ cutOff' = cutOff
  BY MergeFacts
<1>2. view[c] = {} /\ plan[c].put = {}
  BY <1>1 DEF IInv, CallOK, ViewOK, HandsOK, HandOK
<1>3. Kept(c) => Kept(c)'
  <2> SUFFICES ASSUME Kept(c) PROVE Kept(c)'
    OBVIOUS
  <2>1. LoadOK(c)' /\ JoinOK(c)'
    BY <1>1, <1>2 DEF LoadOK, JoinOK
  <2>2. \A k \in DOMAIN carried' : Served(c, k)'
    BY <1>1 DEF Kept, Served, New
  <2> QED
    BY <1>1, <2>1, <2>2 DEF Kept, New
<1> QED
  BY <1>1, <1>3, KeptAfter DEF Over

\* A call that has made no contract ends.
LEMMA NodesFail ==
  ASSUME IInv, TurnsOK, HandsOK, NodesOK, NEW c \in Calls, pc[c] = "loading", Fail(c)
  PROVE  NodesOK'
<1>1. /\ Apart(c) /\ Ended(c, "failed")
      /\ carried' = carried /\ machines' = machines
      /\ overlapped' = overlapped /\ cutOff' = cutOff /\ forgotten' = forgotten
  BY FailFacts
<1>2. New(c) = {} /\ New(c)' = {} /\ view'[c] = {} /\ plan'[c].put = {} /\ pc'[c] = "failed"
  <2>1. New(c) = {}
    BY DEF IInv, CallOK, PlanOK, FormOK
  <2> QED
    BY <1>1, <2>1 DEF Ended, NoPlan, New
<1>3. Kept(c) => Kept(c)'
  BY <1>1, <1>2 DEF Kept, Served, LoadOK, JoinOK
<1> QED
  BY <1>1, <1>3, KeptAfter DEF Over

LEMMA NodesFetch ==
  ASSUME IInv, TurnsOK, HandsOK, NodesOK, NEW c \in Calls, NEW k \in 1 .. made, Fetch(c, k)
  PROVE  NodesOK'
<1>1. CASE k \in DOMAIN carried
  <2>1. /\ pc[c] = "loading" /\ pc' = pc /\ Apart(c)
        /\ view'[c] = view[c] \cup {Loads(k)} /\ plan' = plan /\ carried' = carried
        /\ machines' = machines /\ overlapped' = overlapped /\ cutOff' = cutOff
        /\ forgotten' = forgotten
    BY <1>1, FetchFacts
  <2>2. Kept(c) => Kept(c)'
    <3> SUFFICES ASSUME Kept(c) PROVE Kept(c)'
      OBVIOUS
    <3>1. \A x \in DOMAIN carried' : Served(c, x)'
      BY <2>1 DEF Kept, Served, New
    <3>2. JoinOK(c)'
      BY <2>1 DEF Kept, JoinOK, HandsOK, HandOK
    <3>3. LoadOK(c)'
      <4>1. /\ Loads(k).key = k /\ Loads(k).node = carried[k].node
            /\ Loads(k).peers = carried[k].peers /\ Loads(k).ips = Addresses(carried[k].node)
        BY DEF Loads
      <4>2. Served(c, k)
        BY <1>1 DEF Kept
      <4>3. \A n : Addresses(n)' = Addresses(n)
        BY <2>1 DEF Addresses
      <4> SUFFICES ASSUME NEW n \in view'[c]
                   PROVE  /\ n.key \in DOMAIN carried' /\ n.ips = Addresses(n.node)'
                          /\ \A p \in n.peers : ~p.direct => n.node \in Gateways
        BY DEF LoadOK
      <4>4. CASE n \in view[c]
        BY <2>1, <4>3, <4>4 DEF Kept, LoadOK
      <4>5. CASE n = Loads(k)
        <5>1. n.key = k /\ n.node = carried[k].node /\ n.peers = carried[k].peers
              /\ n.ips = Addresses(n.node)
          BY <4>1, <4>5
        <5> QED
          BY <1>1, <2>1, <4>2, <4>3, <5>1 DEF Served
      <4> QED
        BY <2>1, <4>4, <4>5
    <3> QED
      BY <2>1, <3>1, <3>2, <3>3 DEF Kept, New
  <2> QED
    BY <2>1, <2>2, KeptAfter DEF Over
<1>2. CASE k \notin DOMAIN carried
  BY <1>2, NodesFail DEF Fetch
<1> QED
  BY <1>1, <1>2

LEMMA NodesDeploy ==
  ASSUME IInv, TurnsOK, HandsOK, WgOK, NodesOK, NEW c \in Calls, Deploy(c), ~Fail(c)
  PROVE  NodesOK'
<1>1. /\ pc[c] = "loading" /\ todo[c] = {} /\ pc'[c] = "sending" /\ Apart(c)
      /\ view' = view /\ carried' = carried /\ machines' = machines
      /\ overlapped' = overlapped /\ cutOff' = cutOff /\ forgotten \subseteq forgotten'
  BY DeployTurn
<1>2. PICK joined, granted, put, site :
        /\ Grown(c, joined, granted, put, site)
        /\ chain' = chain \cup {n.key : n \in joined}
        /\ todo'[c] = {w.key : w \in put}
        /\ New(c)' = {n.key : n \in joined} /\ Dropped(c)' = {}
        /\ plan'[c].put = put /\ plan'[c].users = granted
        /\ plan'[c].machine = {[by |-> c, node |-> site.node, at |-> site.key,
                                ip |-> FreeIP(site)]}
  BY DeployTurn
<1>3. New(c) = {}
  BY <1>1 DEF IInv, CallOK, PlanOK, FormOK
<1>4. Calm /\ Kept(c) => Kept(c)'
  <2> SUFFICES ASSUME Calm, Kept(c) PROVE Kept(c)'
    OBVIOUS
  <2>1. \A k \in DOMAIN carried' : Served(c, k)'
    BY <1>1, <1>3 DEF Kept, Served
  <2>2. \A m \in machines' : m.at \in DOMAIN carried' /\ m.at \notin New(c)'
    <3> SUFFICES ASSUME NEW m \in machines PROVE m.at \notin New(c)'
      BY <1>1 DEF Kept
    <3>1. m.at \in 1 .. made /\ made \in Nat
      BY DEF IInv, MachineOK, WorldOK
    <3>2. \A j \in joined : j.key \in {made + 1, made + 3}
      BY <1>2 DEF Grown
    <3> QED
      BY <1>2, <3>1, <3>2
  <2>3. \A n : Addresses(n)' = Addresses(n)
    BY <1>1 DEF Addresses
  <2>4. LoadOK(c)'
    <3> SUFFICES ASSUME NEW n \in view[c]
                 PROVE  /\ n.key \in DOMAIN carried' /\ n.ips = Addresses(n.node)'
                        /\ \A p \in n.peers : ~p.direct => n.node \in Gateways
      BY <1>1 DEF LoadOK
    <3> QED
      BY <1>1, <2>3 DEF Kept, LoadOK
  <2>5. \A q \in AccessPoints(view[c]) : q.node \in Gateways
    BY PointFacts DEF Kept, LoadOK
  <2>6. ASSUME NEW w \in put, NEW p \in w.peers, ~p.direct PROVE w.node \in Gateways
    <3>1. PICK n \in view[c] \cup joined :
            /\ w.key = n.key /\ w.node = n.node /\ w.subnet = n.subnet /\ w.wg = n.key
            /\ \A q \in AccessPoints(view[c]) \cup granted : q.node = n.node => Has(w.peers, q)
            /\ (\E x \in w.peers : ~x.direct) =>
                 \/ \E q \in AccessPoints(view[c]) : q.node = n.node
                 \/ n.node \in Gateways
      BY <1>1, <1>2, <2>6, GrownApart DEF Calm, Alone
    <3> QED
      BY <2>5, <2>6, <3>1
  <2>7. ASSUME NEW w \in put, w.key \in New(c)'
        PROVE  /\ w.node \in Gateways \/ \E p \in plan'[c].machine : p.at = w.key
               /\ \A x \in DOMAIN carried : x # w.key => carried[x].node # w.node
               /\ \A v \in put : v.key \in New(c)' /\ v.key # w.key => v.node # w.node
    <3>1. PICK j \in joined : w.key = j.key /\ w.node = j.node /\ w.subnet = j.subnet
      BY <1>2, <2>7, JoinedWork
    <3>2. j.node \notin NodesOf(view[c]) /\ (j.node \in Gateways \/ j = site)
      BY <1>2 DEF Grown
    <3>3. w.node \in Gateways \/ \E p \in plan'[c].machine : p.at = w.key
      BY <1>2, <3>1, <3>2
    <3>4. \A x \in DOMAIN carried : carried[x].node \in NodesOf(view[c])
      <4> SUFFICES ASSUME NEW x \in DOMAIN carried PROVE carried[x].node \in NodesOf(view[c])
        OBVIOUS
      <4>1. \E n \in view[c] : n.node = carried[x].node
        BY <1>1, LoadsAll DEF Calm
      <4> QED
        BY <4>1 DEF NodesOf
    <3>5. ASSUME NEW v \in put, v.key \in New(c)', v.key # w.key PROVE v.node # w.node
      <4>1. PICK i \in joined : v.key = i.key /\ v.node = i.node /\ v.subnet = i.subnet
        BY <1>2, <3>5, JoinedWork
      <4>2. \A a, b \in joined : a # b => a.node # b.node
        BY <1>2 DEF Grown
      <4> QED
        BY <3>1, <3>5, <4>1, <4>2
    <3> QED
      BY <3>1, <3>2, <3>3, <3>4, <3>5
  <2>8. New(c)' \subseteq todo'[c]
    BY <1>2 DEF Grown
  <2>9. JoinOK(c)'
    BY <1>1, <1>2, <2>6, <2>7, <2>8 DEF JoinOK
  <2> QED
    BY <2>1, <2>2, <2>4, <2>9 DEF Kept
<1> QED
  BY <1>1, <1>4, KeptAfter DEF Over

LEMMA NodesSend ==
  ASSUME IInv, TurnsOK, HandsOK, NodesOK, NEW c \in Calls, NEW k \in 1 .. made, Send(c, k)
  PROVE  NodesOK'
<1>1. /\ pc[c] = "sending" /\ pc' = pc /\ Apart(c) /\ view' = view /\ plan' = plan
      /\ machines' = machines /\ todo'[c] = todo[c] \ {k}
      /\ overlapped' = overlapped /\ cutOff' = cutOff /\ forgotten' = forgotten
      /\ k \notin DOMAIN carried => k \in New(c)
  BY SendFacts
<1>2. /\ DOMAIN carried' = DOMAIN carried \cup {k}
      /\ \A x \in DOMAIN carried \ {k} : carried'[x] = carried[x]
  BY SendTakes
<1>3. PICK w \in plan[c].put :
        /\ w.key = k /\ carried'[k].node = w.node /\ carried'[k].subnet = w.subnet
        /\ carried'[k].peers = w.peers /\ carried'[k].wg = w.wg
  BY SendTakes
<1>4. Kept(c) => Kept(c)'
  <2> SUFFICES ASSUME Kept(c) PROVE Kept(c)'
    OBVIOUS
  <2>1. k \in DOMAIN carried => w.node = carried[k].node
    BY <1>1, <1>3 DEF IInv, CallOK, PlanOK, PutOK
  <2>2. \A x \in DOMAIN carried : carried'[x].node = carried[x].node
    BY <1>2, <1>3, <2>1
  <2>3. /\ \A p \in w.peers : ~p.direct => w.node \in Gateways
        /\ k \in New(c) =>
             /\ w.node \in Gateways \/ \E p \in plan[c].machine : p.at = k
             /\ \A x \in DOMAIN carried : x # k => carried[x].node # w.node
             /\ \A v \in plan[c].put : v.key \in New(c) /\ v.key # k => v.node # w.node
    BY <1>3 DEF Kept, JoinOK
  <2>4. ASSUME NEW x \in DOMAIN carried' PROVE Served(c, x)'
    <3>1. \/ carried'[x].node \in Gateways
          \/ \E m \in machines : m.at = x
          \/ x \in New(c) /\ \E p \in plan[c].machine : p.at = x
      BY <1>1, <1>2, <1>3, <2>2, <2>3 DEF Kept, Served
    <3>2. OneGateway /\ machines = {} => x \in New(c)
      BY <1>1, <1>2 DEF Kept, Served
    <3>3. \A y \in DOMAIN carried' : y # x => carried'[y].node # carried'[x].node
      BY <1>1, <1>2, <1>3, <2>2, <2>3 DEF Kept, Served
    <3>4. \A p \in carried'[x].peers : ~p.direct => carried'[x].node \in Gateways
      <4>1. CASE x = k
        BY <1>3, <2>3, <4>1
      <4>2. CASE x # k
        BY <1>2, <4>2 DEF Kept, Served
      <4> QED
        BY <4>1, <4>2
    <3> QED
      BY <1>1, <3>1, <3>2, <3>3, <3>4 DEF Served, New
  <2>5. \A n : Addresses(n)' = Addresses(n)
    BY <1>1 DEF Addresses
  <2>6. LoadOK(c)'
    <3> SUFFICES ASSUME NEW n \in view[c]
                 PROVE  /\ n.key \in DOMAIN carried' /\ n.ips = Addresses(n.node)'
                        /\ \A p \in n.peers : ~p.direct => n.node \in Gateways
      BY <1>1 DEF LoadOK
    <3> QED
      BY <1>1, <1>2, <2>5 DEF Kept, LoadOK
  <2>7. JoinOK(c)'
    <3>1. New(c) \subseteq DOMAIN carried' \cup todo'[c]
      BY <1>1, <1>2 DEF Kept, JoinOK
    <3>2. ASSUME NEW v \in plan[c].put
          PROVE  /\ \A p \in v.peers : ~p.direct => v.node \in Gateways
                 /\ v.key \in New(c) =>
                      /\ v.node \in Gateways \/ \E p \in plan[c].machine : p.at = v.key
                      /\ \A x \in DOMAIN carried' : x # v.key => carried'[x].node # v.node
                      /\ \A y \in plan[c].put : y.key \in New(c) /\ y.key # v.key => y.node # v.node
      <4>1. /\ \A p \in v.peers : ~p.direct => v.node \in Gateways
            /\ v.key \in New(c) =>
                 /\ v.node \in Gateways \/ \E p \in plan[c].machine : p.at = v.key
                 /\ \A x \in DOMAIN carried : x # v.key => carried[x].node # v.node
                 /\ \A y \in plan[c].put : y.key \in New(c) /\ y.key # v.key => y.node # v.node
        BY DEF Kept, JoinOK
      <4>2. ASSUME v.key \in New(c), k # v.key, k \notin DOMAIN carried PROVE w.node # v.node
        BY <1>1, <1>3, <4>1, <4>2
      <4> QED
        BY <1>2, <1>3, <2>2, <4>1, <4>2
    <3> QED
      BY <1>1, <3>1, <3>2 DEF JoinOK, New
  <2> QED
    BY <1>1, <1>2, <2>4, <2>6, <2>7 DEF Kept, New
<1> QED
  BY <1>1, <1>4, KeptAfter DEF Over

LEMMA NodesRollBack ==
  ASSUME IInv, TurnsOK, HandsOK, NodesOK, NEW c \in Calls, RollBack(c) PROVE NodesOK'
<1> SUFFICES ASSUME Calm' PROVE NodesOK'
  BY DEF NodesOK
<1>1. /\ pc[c] = "sending" /\ Apart(c) /\ Ended(c, "failed")
      /\ machines' = machines /\ overlapped' = overlapped /\ cutOff' = cutOff
      /\ forgotten' = forgotten /\ DOMAIN carried' = DOMAIN carried \ New(c)
      /\ \A x \in DOMAIN carried' : carried'[x] = carried[x]
  BY RollBackFacts DEF Calm
<1>2. New(c)' = {} /\ view'[c] = {} /\ plan'[c].put = {} /\ pc'[c] = "failed"
  BY <1>1 DEF Ended, NoPlan, New
<1>3. Kept(c) => Kept(c)'
  <2> SUFFICES ASSUME Kept(c) PROVE Kept(c)'
    OBVIOUS
  <2>1. ASSUME NEW x \in DOMAIN carried' PROVE Served(c, x)'
    <3>1. x \in DOMAIN carried /\ x \notin New(c) /\ Served(c, x)
      BY <1>1 DEF Kept
    <3>2. /\ carried'[x].node \in Gateways \/ \E m \in machines : m.at = x
          /\ ~(OneGateway /\ machines = {})
          /\ \A y \in DOMAIN carried' : y # x => carried'[y].node # carried'[x].node
          /\ \A p \in carried'[x].peers : ~p.direct => carried'[x].node \in Gateways
      BY <1>1, <3>1 DEF Served
    <3> QED
      BY <1>1, <3>2 DEF Served
  <2>2. LoadOK(c)' /\ JoinOK(c)'
    BY <1>2 DEF LoadOK, JoinOK
  <2> QED
    BY <1>1, <1>2, <2>1, <2>2 DEF Kept
<1> QED
  BY <1>1, <1>3, KeptAfter DEF Over

LEMMA NodesFinish ==
  ASSUME IInv, TurnsOK, HandsOK, NodesOK, NEW c \in Calls, Finish(c) PROVE NodesOK'
<1>1. /\ (pc[c] = "saving" \/ (pc[c] = "sending" /\ todo[c] = {}))
      /\ Apart(c) /\ Ended(c, "done") /\ carried' = carried
      /\ machines' = machines \cup plan[c].machine
      /\ overlapped' = overlapped /\ cutOff' = cutOff /\ forgotten' = forgotten
  BY FinishFacts
<1>2. New(c)' = {} /\ view'[c] = {} /\ plan'[c].put = {} /\ pc'[c] = "done"
  BY <1>1 DEF Ended, NoPlan, New
<1>3. Kept(c) => Kept(c)'
  <2> SUFFICES ASSUME Kept(c) PROVE Kept(c)'
    OBVIOUS
  <2>1. pc[c] = "saving" => New(c) = {} /\ plan[c].machine = {}
    BY DEF IInv, CallOK, PlanOK, FormOK
  <2>2. pc[c] = "sending" => plan[c].machine # {}
    BY DEF HandsOK, HandOK
  <2>3. ASSUME NEW x \in DOMAIN carried' PROVE Served(c, x)'
    <3>1. Served(c, x)
      BY <1>1, <2>3 DEF Kept
    <3>2. /\ carried'[x].node \in Gateways \/ \E m \in machines' : m.at = x
          /\ \A y \in DOMAIN carried' : y # x => carried'[y].node # carried'[x].node
          /\ \A p \in carried'[x].peers : ~p.direct => carried'[x].node \in Gateways
      BY <1>1, <3>1 DEF Served
    <3>3. ~(OneGateway /\ machines' = {})
      BY <1>1, <2>1, <2>2, <3>1 DEF Served
    <3> QED
      BY <3>2, <3>3 DEF Served
  <2>4. \A p \in plan[c].machine : p.at \in DOMAIN carried
    <3> SUFFICES ASSUME NEW p \in plan[c].machine PROVE p.at \in DOMAIN carried
      OBVIOUS
    <3>1. pc[c] = "sending" /\ todo[c] = {}
      BY <1>1, <2>1
    <3>2. p.at \in New(c) \cup Keys(c)
      BY DEF IInv, CallOK, PlanOK, SiteOK
    <3>3. New(c) \subseteq DOMAIN carried /\ Keys(c) \subseteq DOMAIN carried
      BY <3>1 DEF Kept, JoinOK, LoadOK, Keys
    <3> QED
      BY <3>2, <3>3
  <2>5. LoadOK(c)' /\ JoinOK(c)'
    BY <1>2 DEF LoadOK, JoinOK
  <2> QED
    BY <1>1, <1>2, <2>3, <2>4, <2>5 DEF Kept
<1> QED
  BY <1>1, <1>3, KeptAfter DEF Over

\* The node left alone goes with the machine's.
LEMMA EmptiedFacts ==
  ASSUME NEW nets, NEW m
  PROVE  /\ \A n \in Emptied(nets, m) :
              /\ n \in nets
              /\ \/ n.node = m.node /\ n.ips \ {m.ip} = {}
                 \/ n.node # m.node /\ n.ips = {}
         /\ \A n \in nets : n.node = m.node /\ n \notin Emptied(nets, m) =>
              \/ \E x \in nets : x.node = m.node /\ x.ips \ {m.ip} # {}
              \/ Cardinality(nets) # 1 /\ \E p \in AccessPoints(nets) : p.node = m.node
         /\ \A n \in nets :
              /\ \A x \in nets : x.node = m.node => x.ips \ {m.ip} = {}
              /\ \A p \in AccessPoints(nets) : p.node # m.node
              /\ n.node # m.node /\ n.ips = {}
              /\ \A x \in nets : x.node # m.node => x = n
              => n \in Emptied(nets, m)
<1> DEFINE left == {n \in nets : n.node # m.node}
           ips(n) == n.ips \ (IF n.node = m.node THEN {m.ip} ELSE {})
           kept == \/ \E n \in nets : n.node = m.node /\ ips(n) # {}
                   \/ Cardinality(nets) # 1 /\ \E p \in AccessPoints(nets) : p.node = m.node
           alone == IF Cardinality(left) = 1 THEN {n \in left : n.ips = {}} ELSE {}
<1>1. Emptied(nets, m) = IF kept THEN {} ELSE (nets \ left) \cup alone
  BY DEF Emptied
<1>2. \A n \in nets : n.node = m.node => ips(n) = n.ips \ {m.ip}
  OBVIOUS
<1>3. \A n \in alone : n \in nets /\ n.node # m.node /\ n.ips = {}
  OBVIOUS
<1>4. kept <=> \/ \E n \in nets : n.node = m.node /\ n.ips \ {m.ip} # {}
               \/ Cardinality(nets) # 1 /\ \E p \in AccessPoints(nets) : p.node = m.node
  BY <1>2
<1>5. ASSUME NEW n \in nets, n.node # m.node, n.ips = {}, \A x \in nets : x.node # m.node => x = n
      PROVE  n \in alone
  <2>1. left = {n}
    BY <1>5
  <2> HIDE DEF left
  <2>2. Cardinality(left) = 1
    BY <2>1, FS_Singleton
  <2> QED
    BY <1>5, <2>1, <2>2
<1>6. \A n \in nets \ left : n.node = m.node
  OBVIOUS
<1>7. \A n \in nets : n.node = m.node => n \in nets \ left
  OBVIOUS
<1> HIDE DEF left, kept, alone, ips
<1>8. \A n \in Emptied(nets, m) : /\ n \in nets
                                  /\ \/ n.node = m.node /\ n.ips \ {m.ip} = {}
                                     \/ n.node # m.node /\ n.ips = {}
  BY <1>1, <1>3, <1>4, <1>6
<1>9. \A n \in nets : n.node = m.node /\ n \notin Emptied(nets, m) =>
        \/ \E x \in nets : x.node = m.node /\ x.ips \ {m.ip} # {}
        \/ Cardinality(nets) # 1 /\ \E p \in AccessPoints(nets) : p.node = m.node
  BY <1>1, <1>4, <1>7
<1>10. ASSUME NEW n \in nets,
              \A x \in nets : x.node = m.node => x.ips \ {m.ip} = {},
              \A p \in AccessPoints(nets) : p.node # m.node,
              n.node # m.node, n.ips = {}, \A x \in nets : x.node # m.node => x = n
       PROVE  n \in Emptied(nets, m)
  <2>1. ~kept
    BY <1>4, <1>10
  <2>2. n \in alone
    BY <1>5, <1>10
  <2> QED
    BY <1>1, <2>1, <2>2
<1> QED
  BY <1>8, <1>9, <1>10

LEMMA NodesRemove ==
  ASSUME IInv, TurnsOK, HandsOK, NodesOK, NEW c \in Calls, Remove(c), ~Fail(c)
  PROVE  NodesOK'
<1> DEFINE m == job[c].machine
           empty == Emptied(view[c], m)
           drop == {n.key : n \in empty}
<1>1. /\ pc[c] = "loading" /\ todo[c] = {} /\ m \in machines
      /\ pc'[c] = "saving" /\ Apart(c) /\ view' = view
      /\ plan'[c] = [NoPlan EXCEPT !.drop = drop]
      /\ machines' = machines \ {m}
      /\ DOMAIN carried' = DOMAIN carried \ drop
      /\ \A x \in DOMAIN carried' : carried'[x] = carried[x]
      /\ overlapped' = overlapped /\ cutOff' = cutOff /\ forgotten' = forgotten
  BY RemoveFacts
<1>2. /\ \A n \in empty :
           /\ n \in view[c]
           /\ \/ n.node = m.node /\ n.ips \ {m.ip} = {}
              \/ n.node # m.node /\ n.ips = {}
      /\ \A n \in view[c] : n.node = m.node /\ n \notin empty =>
           \/ \E x \in view[c] : x.node = m.node /\ x.ips \ {m.ip} # {}
           \/ Cardinality(view[c]) # 1 /\ \E p \in AccessPoints(view[c]) : p.node = m.node
      /\ \A n \in view[c] :
           /\ \A x \in view[c] : x.node = m.node => x.ips \ {m.ip} = {}
           /\ \A p \in AccessPoints(view[c]) : p.node # m.node
           /\ n.node # m.node /\ n.ips = {}
           /\ \A x \in view[c] : x.node # m.node => x = n
           => n \in empty
  BY EmptiedFacts
<1>3. New(c) = {} /\ New(c)' = {} /\ plan'[c].put = {}
  <2>1. New(c) = {}
    BY <1>1 DEF IInv, CallOK, PlanOK, FormOK
  <2> QED
    BY <1>1, <2>1 DEF NoPlan, New
<1> HIDE DEF m, empty
<1>4. Calm /\ Kept(c) => Kept(c)'
  <2> SUFFICES ASSUME Calm, Kept(c) PROVE Kept(c)'
    OBVIOUS
  <2>1. \A k \in DOMAIN carried : \E n \in view[c] : n.key = k /\ n.node = carried[k].node
    <3> SUFFICES ASSUME NEW k \in DOMAIN carried
                 PROVE  \E n \in view[c] : n.key = k /\ n.node = carried[k].node
      OBVIOUS
    <3>1. \E n \in view[c] : n.key = k /\ n.node = carried[k].node /\ n.subnet = carried[k].subnet
      BY <1>1, LoadsAll DEF Calm
    <3> QED
      BY <3>1
  <2>2. \A n \in view[c] : /\ n.key \in DOMAIN carried /\ n.ips = Addresses(n.node)
                           /\ n.node = carried[n.key].node
                           /\ \A x \in view[c] : x.key = n.key => x = n
    BY <1>1 DEF Kept, LoadOK, IInv, CallOK, ViewOK
  <2>3. \A k, x \in DOMAIN carried : carried[k].node = carried[x].node => k = x
    BY DEF Kept, Served
  <2>4. \A n, x \in view[c] : n.node = x.node => n = x
    BY <2>2, <2>3
  <2>5. \A z \in machines : /\ z.at \in DOMAIN carried /\ z.node = carried[z.at].node
                            /\ z.ip \in Addresses(z.node)
    BY DEF Kept, IInv, MachineOK, Addresses
  <2>6. \A y, z \in machines : y # z /\ y.at = z.at => y.ip # z.ip
    <3> SUFFICES ASSUME NEW y \in machines, NEW z \in machines, y # z, y.at = z.at, y.ip = z.ip
                 PROVE  FALSE
      OBVIOUS
    <3>1. y.node = z.node
      BY <2>5
    <3>2. AtOnce(y.by, z.by)
      BY <3>1 DEF IInv, AddressesApart
    <3>3. y.by \in Calls /\ z.by \in Calls /\ pc[y.by] \in Over /\ pc[z.by] \in Over
      BY DEF IInv, MachineOK
    <3> QED
      BY <3>3, <3>2 DEF TurnsOK, Calm, AtOnce, Over
  <2>7. \A p \in AccessPoints(view[c]) : p.node \in Gateways
    BY PointFacts DEF Kept, LoadOK
  <2>8. ASSUME NEW z \in machines' PROVE z.at \in DOMAIN carried' /\ z.at \notin New(c)'
    <3>1. z \in machines /\ z # m
      BY <1>1
    <3>2. ASSUME NEW n \in empty, n.key = z.at PROVE FALSE
      <4>1. n.node = z.node /\ z.ip \in n.ips
        BY <1>2, <2>2, <2>5, <3>1, <3>2
      <4>2. n.node = m.node /\ z.ip = m.ip
        BY <1>2, <4>1
      <4>3. z.at = m.at
        <5>1. /\ z.at \in DOMAIN carried /\ z.node = carried[z.at].node
              /\ m.at \in DOMAIN carried /\ m.node = carried[m.at].node
          BY <1>1, <2>5, <3>1
        <5>2. z.node = m.node
          BY <4>1, <4>2
        <5> QED
          BY <2>3, <5>1, <5>2
      <4> QED
        BY <1>1, <2>6, <3>1, <4>2, <4>3
    <3> QED
      BY <1>1, <1>3, <2>5, <3>1, <3>2
  <2>9. ASSUME NEW x \in DOMAIN carried' PROVE Served(c, x)'
    <3>1. x \in DOMAIN carried /\ Served(c, x) /\ \A n \in empty : n.key # x
      BY <1>1 DEF Kept
    <3>2. PICK n \in view[c] : n.key = x /\ n.node = carried[x].node
      BY <2>1, <3>1
    <3>3. n \notin empty
      BY <3>1, <3>2
    <3>4. carried'[x].node \in Gateways \/ \E z \in machines' : z.at = x
      <4>1. CASE carried[x].node \in Gateways
        BY <1>1, <4>1
      <4>2. CASE \E z \in machines : z.at = x /\ z # m
        BY <1>1, <4>2
      <4>3. CASE m.at = x
        <5>1. n.node = m.node
          BY <1>1, <2>5, <3>2, <4>3
        <5>2. CASE \E y \in view[c] : y.node = m.node /\ y.ips \ {m.ip} # {}
          <6>1. n.ips \ {m.ip} # {} /\ n.ips = Addresses(m.node)
            BY <2>2, <2>4, <5>1, <5>2
          <6>2. PICK z \in machines : z.node = m.node /\ z.ip # m.ip
            BY <6>1 DEF Addresses
          <6>3. z.at = x
            BY <1>1, <2>3, <2>5, <4>3, <6>2
          <6> QED
            BY <4>2, <6>2, <6>3
        <5>3. CASE \E p \in AccessPoints(view[c]) : p.node = m.node
          BY <2>7, <3>2, <4>1, <5>1, <5>3
        <5> QED
          BY <1>2, <3>3, <5>1, <5>2, <5>3
      <4> QED
        BY <1>3, <3>1, <4>1, <4>2, <4>3 DEF Served
    <3>5. ~(OneGateway /\ machines' = {})
      <4> SUFFICES ASSUME OneGateway, machines = {m} PROVE FALSE
        BY <1>1
      <4>1. \A y \in view[c] : y.node \in Gateways \/ y.key = m.at
        BY <1>3, <2>2 DEF Kept, Served
      <4>2. \A y \in view[c] : y.key = m.at => y.node = m.node
        BY <1>1, <2>2, <2>5
      <4>3. \A d : Addresses(d) \subseteq {m.ip} /\ (d # m.node => Addresses(d) = {})
        BY DEF Addresses
      <4>4. \A y \in view[c] : /\ y.node = m.node => y.ips \ {m.ip} = {}
                               /\ y.node # m.node => y.ips = {}
        BY <2>2, <4>3
      <4>5. CASE n.node = m.node
        <5>1. Cardinality(view[c]) # 1 /\ m.node \in Gateways
          BY <1>2, <2>7, <3>3, <4>4, <4>5
        <5>2. \A y \in view[c] : y.node = m.node
          BY <4>1, <4>2, <5>1 DEF OneGateway
        <5>3. view[c] = {n}
          BY <2>4, <4>5, <5>2
        <5> QED
          BY <5>1, <5>3, FS_Singleton
      <4>6. CASE n.node # m.node
        <5>1. n.node \in Gateways
          BY <4>1, <4>2, <4>6
        <5>2. m.node \notin Gateways
          BY <4>6, <5>1 DEF OneGateway
        <5>3. \A y \in view[c] : y.node # m.node => y = n
          BY <2>4, <4>1, <4>2, <5>1 DEF OneGateway
        <5>4. n \in empty
          BY <1>2, <2>7, <4>4, <4>6, <5>2, <5>3
        <5> QED
          BY <3>3, <5>4
      <4> QED
        BY <4>5, <4>6
    <3>6. \A y \in DOMAIN carried' : y # x => carried'[y].node # carried'[x].node
      BY <1>1, <3>1 DEF Served
    <3>7. \A p \in carried'[x].peers : ~p.direct => carried'[x].node \in Gateways
      BY <1>1, <3>1 DEF Served
    <3> QED
      BY <3>4, <3>5, <3>6, <3>7 DEF Served
  <2>10. LoadOK(c)' /\ JoinOK(c)'
    BY <1>1, <1>3 DEF Kept, LoadOK, JoinOK
  <2> QED
    BY <2>8, <2>9, <2>10 DEF Kept
<1> QED
  BY <1>1, <1>4, KeptAfter DEF Over

LEMMA NodesNext == ASSUME IInv, TurnsOK, HandsOK, WgOK, NodesOK, Next PROVE NodesOK'
<1>1. ASSUME NEW c \in Calls, Ask(c) PROVE NodesOK'
  <2>1. /\ pc[c] = "idle" /\ pc'[c] = "asking" /\ Apart(c)
        /\ carried' = carried /\ machines' = machines /\ todo' = todo /\ view' = view
        /\ plan' = plan /\ overlapped' = (overlapped \/ Busy # {})
        /\ cutOff' = cutOff /\ forgotten' = forgotten
    BY <1>1, AskFacts
  <2> SUFFICES ASSUME Calm'
               PROVE  /\ \A k \in DOMAIN carried' : NodeOK(k)'
                      /\ \A m \in machines' : m.at \in DOMAIN carried' /\ \A d \in Calls : m.at \notin New(d)'
                      /\ \A d \in Calls : LoadOK(d)' /\ JoinOK(d)'
    BY DEF NodesOK
  <2>2. Calm
    BY <2>1 DEF Calm
  <2>3. view[c] = {} /\ plan[c].put = {}
    BY <2>1 DEF IInv, CallOK, ViewOK, HandsOK, HandOK
  <2>4. \A k \in DOMAIN carried' : NodeOK(k)'
    BY <2>1, <2>2 DEF NodesOK, NodeOK, New
  <2>5. \A m \in machines' : m.at \in DOMAIN carried' /\ \A d \in Calls : m.at \notin New(d)'
    BY <2>1, <2>2 DEF NodesOK, New
  <2>6. \A n : Addresses(n)' = Addresses(n)
    BY <2>1 DEF Addresses
  <2>7. ASSUME NEW d \in Calls PROVE LoadOK(d)' /\ JoinOK(d)'
    <3>1. CASE d = c
      BY <2>1, <2>3, <3>1 DEF LoadOK, JoinOK
    <3>2. CASE d # c
      <4>1. pc'[d] = pc[d] /\ LoadOK(d) /\ JoinOK(d)
        BY <2>1, <2>2, <3>2 DEF Apart, NodesOK
      <4>2. JoinOK(d)'
        BY <2>1, <4>1 DEF JoinOK, New
      <4>3. LoadOK(d)'
        <5> SUFFICES ASSUME NEW n \in view[d]
                     PROVE  /\ pc[d] \in {"loading", "sending"} => n.key \in DOMAIN carried'
                            /\ pc[d] # "saving" => n.ips = Addresses(n.node)'
                            /\ \A p \in n.peers : ~p.direct => n.node \in Gateways
          BY <2>1, <4>1 DEF LoadOK
        <5> QED
          BY <2>1, <2>6, <4>1 DEF LoadOK
      <4> QED
        BY <4>2, <4>3
    <3> QED
      BY <3>1, <3>2
  <2> QED
    BY <2>4, <2>5, <2>7
<1>2. ASSUME NEW k \in 1 .. made, Index(k) PROVE NodesOK'
  <2>1. /\ carried' = carried /\ machines' = machines /\ pc' = pc /\ todo' = todo
        /\ view' = view /\ plan' = plan /\ overlapped' = overlapped
        /\ cutOff' = cutOff /\ forgotten' = forgotten
    BY <1>2, IndexFacts
  <2> QED
    BY <2>1 DEF NodesOK, Calm, NodeOK, LoadOK, JoinOK, Addresses, New
<1>3. CASE Crash
  <2>1. /\ \A d \in Calls : view'[d] = {} /\ plan'[d] = NoPlan /\ todo'[d] = {}
        /\ forgotten \subseteq forgotten' /\ (cutOff' = (cutOff \/ Busy # {}))
        /\ carried' = carried /\ machines' = machines /\ overlapped' = overlapped
        /\ \A d \in Calls : pc'[d] = IF d \in Busy THEN "failed" ELSE pc[d]
    BY <1>3, CrashFacts
  <2> SUFFICES ASSUME Calm'
               PROVE  /\ \A k \in DOMAIN carried' : NodeOK(k)'
                      /\ \A m \in machines' : m.at \in DOMAIN carried' /\ \A d \in Calls : m.at \notin New(d)'
                      /\ \A d \in Calls : LoadOK(d)' /\ JoinOK(d)'
    BY DEF NodesOK
  <2>2. Calm /\ Busy = {}
    BY <2>1 DEF Calm
  <2>3. \A d \in Calls : New(d) = {}
    <3> SUFFICES ASSUME NEW d \in Calls PROVE New(d) = {}
      OBVIOUS
    <3>1. pc[d] # "sending"
      BY <2>2 DEF Busy, Over
    <3> QED
      BY <3>1 DEF IInv, CallOK, PlanOK, FormOK
  <2>4. \A d \in Calls : New(d)' = {} /\ plan'[d].put = {}
    BY <2>1 DEF NoPlan, New
  <2>5. \A k \in DOMAIN carried' : NodeOK(k)'
    BY <2>1, <2>2, <2>3 DEF NodesOK, NodeOK
  <2>6. \A d \in Calls : LoadOK(d)' /\ JoinOK(d)'
    BY <2>1, <2>4 DEF LoadOK, JoinOK
  <2> QED
    BY <2>1, <2>2, <2>4, <2>5, <2>6 DEF NodesOK
<1>4. ASSUME NEW c \in Calls, Deploy(c) PROVE NodesOK'
  BY <1>4, NodesFail, NodesDeploy DEF Deploy, Loaded
<1>5. ASSUME NEW c \in Calls, Remove(c) PROVE NodesOK'
  BY <1>5, NodesFail, NodesRemove DEF Remove, Loaded
<1> QED
  BY <1>1, <1>2, <1>3, <1>4, <1>5, NodesMerge, NodesFetch, NodesSend, NodesRollBack, NodesFinish
  DEF Next

-----------------------------------------------------------------------------
(* The theorems.                                                             *)

LEMMA InitTurns == Init => TInv
<1> SUFFICES ASSUME Init PROVE TInv
  OBVIOUS
<1>1. /\ \A c \in Calls : /\ pc[c] = "idle" /\ plan[c] = NoPlan /\ view[c] = {}
                          /\ answer[c] = {} /\ todo[c] = {}
      /\ chain = {} /\ DOMAIN carried = {} /\ indexed = {} /\ newContracts = {}
      /\ machines = {} /\ users = {}
  BY DEF Init
<1>2. \A c \in Calls : /\ plan[c].put = {} /\ plan[c].users = {} /\ plan[c].machine = {}
                       /\ New(c) = {} /\ Dropped(c) = {}
  BY <1>1 DEF NoPlan, New, Dropped
<1>3. TurnsOK
  BY <1>1 DEF TurnsOK
<1>4. HandsOK
  <2>1. carried = [k \in DOMAIN carried |-> carried[k]]
    BY DEF Init
  <2> QED
    BY <1>1, <1>2, <2>1 DEF HandsOK, HandOK
<1>5. AllUsers = {} /\ InUse = {}
  BY <1>1, <1>2 DEF AllUsers, InUse
<1>6. UsersOK /\ ApartOK
  BY <1>1, <1>2, <1>5 DEF UsersOK, ApartOK
<1>7. FoundOK
  BY <1>1, <1>2 DEF FoundOK, Listed
<1>8. NodesOK
  BY <1>1, <1>2 DEF NodesOK, LoadOK, JoinOK
<1>9. WgOK
  BY <1>1, <1>2 DEF WgOK
<1> QED
  BY <1>3, <1>4, <1>6, <1>7, <1>8, <1>9 DEF TInv

LEMMA StutterTurns == ASSUME TInv, UNCHANGED vars PROVE TInv'
<1> USE DEF TInv, vars, world, lists, local, history
<1>1. TurnsOK'
  BY DEF TurnsOK, AtOnce
<1>2. HandsOK'
  BY DEF HandsOK, HandOK, Dropped
<1>3. UsersOK'
  BY DEF UsersOK, UserOK, AllUsers, Keys, New, Has, Alone
<1>4. ApartOK'
  BY DEF ApartOK, AllUsers, InUse, New
<1>5. FoundOK'
  BY DEF FoundOK, Quiet, Sending, Listed, Gone, New, Dropped
<1>6. NodesOK'
  BY DEF NodesOK, Calm, NodeOK, LoadOK, JoinOK, Addresses, New
<1>7. WgOK'
  BY DEF WgOK, Alone
<1> QED
  BY <1>1, <1>2, <1>3, <1>4, <1>5, <1>6, <1>7

LEMMA NextTurns == ASSUME IInv, TInv, [Next]_vars PROVE TInv'
<1>1. CASE Next
  BY <1>1, TurnsNext, HandsNext, WgNext, UsersNext, ApartNext, FoundNext, NodesNext DEF TInv
<1>2. CASE UNCHANGED vars
  BY <1>2, StutterTurns
<1> QED
  BY <1>1, <1>2

LEMMA TurnsInvariance == Spec => [](IInv /\ TInv)
<1>1. Init => IInv /\ TInv
  BY InitInv, InitTurns
<1>2. IInv /\ TInv /\ [Next]_vars => (IInv /\ TInv)'
  BY NextInv, NextTurns
<1> QED
  BY <1>1, <1>2, PTL DEF Spec

\* An access point is known from the peers of its node alone: every call reads it off
\* them, tells it from a hidden node by a key that is no node's, and works the peers
\* out again (network.ts:600-622, 856-916), for the net that leads its subnet
\* (network.ts:295-320).  Whatever calls that take turns do, and whether they fail, are
\* rolled back or are cut off, the access point of a user stays among the peers of its
\* node, with its subnet, as long as the workload does and no contract is forgotten.
THEOREM AccessPointsKept == Spec => []AccessKept
<1>1. IInv /\ TInv => AccessKept
  <2> SUFFICES ASSUME IInv, TInv PROVE AccessKept
    OBVIOUS
  <2>1. \A u \in users : UserOK(u)
    BY DEF TInv, UsersOK, AllUsers
  <2> QED
    BY <2>1 DEF UserOK, Has, AccessKept, Alone
<1> QED
  BY <1>1, TurnsInvariance, PTL

\* The subnet of an access point is reserved by the peers of its node, not by a record
\* (network.ts:538-553, 555-588): no node and no other access point that is there has it,
\* for any number of calls that take turns.
THEOREM AccessPointsApart == Spec => []AccessApart
<1>1. IInv /\ TInv => AccessApart
  <2> SUFFICES ASSUME TInv, forgotten = {}, ~overlapped PROVE AccessApart
    BY DEF AccessApart
  <2> DEFINE nets == {[key |-> k, subnet |-> carried[k].subnet] : k \in DOMAIN carried}
             points == {[key |-> u.key, subnet |-> u.subnet] :
                          u \in {u \in users : u.at \in DOMAIN carried}}
  <2>1. \A u \in InUse : /\ \A k \in DOMAIN carried : carried[k].subnet # u.subnet
                         /\ \A v \in InUse : v # u => v.subnet # u.subnet
    BY DEF TInv, ApartOK
  <2>2. ASSUME NEW x \in points, NEW y \in nets \cup points, x # y PROVE x.subnet # y.subnet
    <3>1. PICK u \in InUse : x = [key |-> u.key, subnet |-> u.subnet]
      BY DEF InUse
    <3>2. CASE y \in nets
      BY <2>1, <3>1, <3>2
    <3>3. CASE y \in points
      <4>1. PICK v \in InUse : y = [key |-> v.key, subnet |-> v.subnet]
        BY <3>3 DEF InUse
      <4> QED
        BY <2>1, <2>2, <3>1, <4>1
    <3> QED
      BY <3>2, <3>3
  <2> QED
    BY <2>2 DEF AccessApart
<1> QED
  BY <1>1, TurnsInvariance, PTL

\* The indexer still lists what has been deleted, and load throws for a contract that
\* its node does not have (network.ts:655, 683-712): the static list of the deleted ones
\* keeps calls that take turns from it, until one fails or the process is restarted.
THEOREM LoadsFindAll == Spec => LoadsSucceed
<1>1. IInv /\ IInv' /\ TInv /\ [Next]_vars =>
        \A c \in Calls : pc[c] = "loading" /\ todo[c] # {} /\ pc'[c] = "failed" =>
          overlapped \/ crashes' > 0 \/ \E d \in Calls : pc[d] = "failed"
  <2> SUFFICES ASSUME IInv, IInv', TInv, [Next]_vars, NEW c \in Calls,
                      pc[c] = "loading", todo[c] # {}, pc'[c] = "failed",
                      ~overlapped, ~(crashes' > 0), \A d \in Calls : pc[d] # "failed"
               PROVE  FALSE
    OBVIOUS
  <2>1. crashes' \in Nat /\ crashes \in Nat
    BY DEF IInv, WorldOK
  <2>2. ~Crash /\ crashes' = 0
    <3>1. Crash => crashes' = crashes + 1
      BY CrashFacts
    <3> QED
      BY <2>1, <3>1
  <2>3. ASSUME NEW d \in Calls, Apart(d) PROVE d = c
    BY <2>3 DEF Apart
  <2>4. ASSUME NEW d \in Calls, Fail(d)
        PROVE  d = c
    BY <2>3, <2>4, FailFacts
  <2>5. ASSUME NEW k \in 1 .. made, NEW d \in Calls, Fetch(d, k) PROVE FALSE
    <3>1. CASE k \in DOMAIN carried
      BY <2>5, <3>1, FetchFacts
    <3>2. CASE k \notin DOMAIN carried
      <4>1. Fail(d) /\ d = c /\ k \in todo[c]
        BY <2>4, <2>5, <3>2 DEF Fetch
      <4>2. crashes = 0
        BY <2>2, <4>1, FailFacts
      <4>3. todo[c] \subseteq DOMAIN carried
        BY <4>2 DEF TInv, FoundOK, Quiet
      <4> QED
        BY <3>2, <4>1, <4>3
    <3> QED
      BY <3>1, <3>2
  <2>6. ASSUME NEW k \in 1 .. made, NEW d \in Calls, Send(d, k) PROVE FALSE
    BY <2>6, SendFacts
  <2>7. ASSUME NEW d \in Calls, Ask(d) \/ Merge(d) \/ RollBack(d) \/ Finish(d) PROVE FALSE
    <3>1. CASE Ask(d)
      BY <2>3, <3>1, AskFacts
    <3>2. CASE Merge(d)
      BY <2>3, <3>2, MergeFacts
    <3>3. CASE RollBack(d)
      BY <2>3, <3>3, RollBackFacts
    <3>4. CASE Finish(d)
      BY <2>3, <3>4, FinishFacts
    <3> QED
      BY <2>7, <3>1, <3>2, <3>3, <3>4
  <2>8. ASSUME NEW d \in Calls, Deploy(d) PROVE FALSE
    <3>1. d # c
      BY <2>8 DEF Deploy, Loaded
    <3>2. ~Fail(d)
      BY <2>4, <3>1
    <3> QED
      BY <2>3, <2>8, <3>1, <3>2, DeployTurn DEF TInv
  <2>9. ASSUME NEW d \in Calls, Remove(d) PROVE FALSE
    <3>1. d # c
      BY <2>9 DEF Remove, Loaded
    <3>2. ~Fail(d)
      BY <2>4, <3>1
    <3> QED
      BY <2>3, <2>9, <3>1, <3>2, RemoveFacts
  <2>10. ASSUME NEW k \in 1 .. made, Index(k) PROVE FALSE
    BY <2>10, IndexFacts
  <2>11. CASE UNCHANGED vars
    BY <2>11 DEF vars
  <2> QED
    BY <2>2, <2>5, <2>6, <2>7, <2>8, <2>9, <2>10, <2>11 DEF Next
<1>2. Spec => [][IInv /\ IInv' /\ TInv /\ [Next]_vars]_vars
  BY TurnsInvariance, PTL DEF Spec
<1> QED
  BY <1>1, <1>2, PTL DEF LoadsSucceed

\* _deleteMachineNetwork takes the machine's node away, then the one node left
\* (base.ts:137-192).  Given one access node, that is all of them: once calls that took
\* turns have removed the last machine, no node has a workload of the network, however
\* many machines there were and in whatever order they went.
THEOREM NothingIsLeft == Spec => [](OneGateway => NothingLeft)
<1>1. IInv /\ TInv => (OneGateway => NothingLeft)
  <2> SUFFICES ASSUME IInv, TInv, OneGateway, Busy = {}, Calm, machines = {}
               PROVE  carried = <<>>
    BY DEF NothingLeft, Calm
  <2>1. \A c \in Calls : New(c) = {}
    <3> SUFFICES ASSUME NEW c \in Calls PROVE New(c) = {}
      OBVIOUS
    <3>1. pc[c] # "sending"
      BY DEF Busy, Over
    <3> QED
      BY <3>1 DEF IInv, CallOK, PlanOK, FormOK
  <2>2. DOMAIN carried = {}
    BY <2>1 DEF TInv, NodesOK, NodeOK
  <2> QED
    BY <2>2 DEF TInv, HandsOK
<1> QED
  BY <1>1, TurnsInvariance, PTL

-----------------------------------------------------------------------------
(* The mesh.                                                                 *)

\* Just one of the peers routes the subnet s.
Once(peers, s) ==
  \E p \in peers : s \in p.routes /\ \A q \in peers : s \in q.routes => q = p

\* A hidden node that is nobody's peer: its access node has gone.
Lost(n, nets) == n.node \in Hidden /\ \A x \in nets : \A p \in x.peers : p.key # n.key

\* The peer p of n, to which the subnet of x is routed, is x, or else the node that the
\* hidden one of the two is a peer of.
Passed(p, n, x, nets) ==
  LET end == IF n.node \in Hidden THEN n ELSE x IN
  \/ p.key = x.key
  \/ /\ end.node \in Hidden
     /\ \A y \in nets : (\E q \in y.peers : q.key = end.key) => p.key = y.key

\* The nodes reach each other.
Meshed(nets) ==
  \A n, x \in nets : n.key # x.key =>
    /\ ~Lost(n, nets) /\ ~Lost(x, nets) => Once(n.peers, x.subnet)
    /\ \A p \in n.peers : x.subnet \in p.routes => Passed(p, n, x, nets)

\* A peer without an endpoint is a hidden node if it has its key, and then has its
\* subnet, or else has neither.
Keyed(nets, last) ==
  \A n \in nets : \A p \in n.peers : ~p.direct =>
    p.key \in 1 .. last /\ \A x \in nets : p.key = x.key <=> p.subnet = x.subnet

Sound(nets, last) == Meshed(nets) /\ Keyed(nets, last)

OnNodes == {[key |-> k, node |-> carried[k].node, subnet |-> carried[k].subnet,
             peers |-> carried[k].peers] : k \in DOMAIN carried}

\* What the nodes have is a mesh, unless a failed deployment has left half of its
\* updates.
Whole == Keyed(OnNodes, made) /\ (~halfSent => Meshed(OnNodes))

\* While a deployment is sent, what it is to leave is sound, what it found as well
\* unless a failed one has left half of its updates, and each node has its part of
\* the one or of the other.
HalfOK(c) ==
  LET put == plan[c].put IN
  /\ Keyed(view[c], made) /\ (~halfSent => Meshed(view[c]))
  /\ DOMAIN carried \subseteq Keys(c) \cup New(c)
  /\ Keys(c) \cap New(c) = {}
  /\ IF put = {} THEN New(c) = {}
     ELSE Sound(put, made) /\ Keys(c) \cup New(c) \subseteq {w.key : w \in put}
  /\ \A n \in view[c] : n.key \in todo[c] \/ put = {} => carried[n.key].peers = n.peers
  /\ \A w \in put :
       /\ w.key \notin todo[c] => w.key \in DOMAIN carried /\ carried[w.key].peers = w.peers
       /\ \A v \in put : v.key = w.key => v = w

RoutedOK ==
  Calm =>
    /\ (\A c \in Calls : pc[c] # "sending") => Whole
    /\ \A c \in Calls :
         /\ pc[c] = "loading" => \A n \in view[c] : carried[n.key].peers = n.peers
         /\ pc[c] = "sending" => HalfOK(c)

\* Each node of A is as in B, which may have more.
Part(A, B) ==
  \A a \in A : \E b \in B : /\ a.key = b.key /\ a.node = b.node /\ a.subnet = b.subnet
                            /\ a.peers = b.peers

\* Without some of its nodes the network is still a mesh: a hidden node that was lost
\* is lost still.
LEMMA MeshedPart ==
  ASSUME NEW A, NEW B, Part(A, B), Meshed(B)
  PROVE  Meshed(A)
<1>1. \A a \in A, b \in B : a.key = b.key /\ a.node = b.node /\ Lost(b, B) => Lost(a, A)
  BY DEF Part, Lost
<1> SUFFICES ASSUME NEW a \in A, NEW x \in A, a.key # x.key
             PROVE  /\ ~Lost(a, A) /\ ~Lost(x, A) => Once(a.peers, x.subnet)
                    /\ \A p \in a.peers : x.subnet \in p.routes => Passed(p, a, x, A)
  BY DEF Meshed
<1>2. PICK b \in B : a.key = b.key /\ a.node = b.node /\ a.peers = b.peers
  BY DEF Part
<1>3. PICK y \in B : x.key = y.key /\ x.node = y.node /\ x.subnet = y.subnet
  BY DEF Part
<1>4. /\ ~Lost(b, B) /\ ~Lost(y, B) => Once(b.peers, y.subnet)
      /\ \A p \in b.peers : y.subnet \in p.routes => Passed(p, b, y, B)
  BY <1>2, <1>3 DEF Meshed
<1>5. ~Lost(a, A) /\ ~Lost(x, A) => Once(a.peers, x.subnet)
  BY <1>1, <1>2, <1>3, <1>4
<1>6. ASSUME NEW p \in a.peers, x.subnet \in p.routes PROVE Passed(p, a, x, A)
  <2>1. Passed(p, b, y, B)
    BY <1>2, <1>3, <1>4, <1>6
  <2>2. \A i \in A : \E j \in B : i.key = j.key /\ i.peers = j.peers
    BY DEF Part
  <2> QED
    BY <1>2, <1>3, <2>1, <2>2 DEF Passed
<1> QED
  BY <1>5, <1>6

LEMMA KeyedPart ==
  ASSUME NEW A, NEW B, Part(A, B), NEW m \in Nat, NEW n \in Nat, m <= n, Keyed(B, m)
  PROVE  Keyed(A, n)
<1> SUFFICES ASSUME NEW a \in A, NEW p \in a.peers, ~p.direct
             PROVE  p.key \in 1 .. n /\ \A x \in A : p.key = x.key <=> p.subnet = x.subnet
  BY DEF Keyed
<1>1. PICK b \in B : a.peers = b.peers
  BY DEF Part
<1>2. p.key \in 1 .. m /\ \A y \in B : p.key = y.key <=> p.subnet = y.subnet
  BY <1>1 DEF Keyed
<1>3. \A x \in A : \E y \in B : x.key = y.key /\ x.subnet = y.subnet
  BY DEF Part
<1> QED
  BY <1>2, <1>3

\* An access point is a peer without an endpoint, of a node that was loaded, whose key
\* is no node's.
LEMMA PointOf ==
  ASSUME NEW nets, NEW q \in AccessPoints(nets)
  PROVE  \E n \in nets : \E p \in n.peers :
           /\ ~p.direct /\ q.key = p.key /\ q.node = n.node /\ q.subnet = p.subnet
           /\ \A x \in nets : x.wg # p.key
<1> DEFINE pairs == UNION {{n} \X n.peers : n \in nets}
           some == {q0 \in pairs : ~q0[2].direct /\ \A n \in nets : n.wg # q0[2].key}
<1>1. AccessPoints(nets) = {[key |-> p[2].key, node |-> p[1].node, subnet |-> p[2].subnet] :
                              p \in some}
  BY DEF AccessPoints
<1>2. \A p \in pairs : p[1] \in nets /\ p[2] \in p[1].peers
  OBVIOUS
<1> HIDE DEF pairs
<1>3. PICK p \in some : q = [key |-> p[2].key, node |-> p[1].node, subnet |-> p[2].subnet]
  BY <1>1
<1>4. q.key = p[2].key /\ q.node = p[1].node /\ q.subnet = p[2].subnet
  BY <1>3
<1> QED
  BY <1>2, <1>3, <1>4

\* The nodes differ in all they have, and so do the access points, which are at access
\* nodes; each hidden node has an access node of the network.
Laid(nets, points, relay) ==
  /\ IsFiniteSet(nets)
  /\ \A n \in nets : n.wg = n.key
  /\ \A n, x \in nets : n # x => n.node # x.node /\ n.subnet # x.subnet /\ n.key # x.key
  /\ \A p \in points : /\ p.node \in Gateways
                       /\ \A x \in nets : p.subnet # x.subnet /\ p.key # x.key
  /\ relay \in [HiddenNets(nets) -> Gateways \cap NodesOf(nets)]

\* The peers of a node, as generatePeers makes them: those with an endpoint, the
\* access points and the hidden nodes beside it.
LEMMA PeersAre ==
  ASSUME NEW nets, NEW points, NEW relay, Laid(nets, points, relay), NEW n \in nets
  PROVE  LET peers == Peers(n, nets, points, relay)
             isHidden == n \in HiddenNets(nets) IN
         /\ \A m \in nets : /\ m.node # n.node /\ m.node \notin Hidden
                            /\ isHidden => m.node = relay[n]
              => \E p \in peers :
                   /\ p.direct /\ p.key = m.key /\ p.subnet = m.subnet
                   /\ m.subnet \in p.routes
                   /\ \A x \in HiddenNets(nets) : relay[x] = m.node => x.subnet \in p.routes
                   /\ isHidden => \A x \in nets : x.subnet # n.subnet => x.subnet \in p.routes
                   /\ \A q \in peers : q.direct /\ q.key = p.key => q = p
         /\ \A x \in HiddenNets(nets) : relay[x] = n.node => \E p \in peers :
              ~p.direct /\ p.key = x.key /\ p.subnet = x.subnet /\ p.routes = {x.subnet}
         /\ \A p \in peers : p.direct => \E m \in nets :
              /\ m.node # n.node /\ m.node \notin Hidden /\ (isHidden => m.node = relay[n])
              /\ p.key = m.key /\ p.subnet = m.subnet
              /\ ~isHidden => \A s \in p.routes :
                   \/ s = m.subnet
                   \/ \E q \in points : s = q.subnet
                   \/ \E x \in HiddenNets(nets) : relay[x] = m.node /\ s = x.subnet
         /\ \A p \in peers : ~p.direct =>
              \/ \E q \in points :
                   q.node = n.node /\ p.key = q.key /\ p.subnet = q.subnet /\ p.routes = {q.subnet}
              \/ \E x \in HiddenNets(nets) :
                   /\ relay[x] = n.node /\ p.key = x.key /\ p.subnet = x.subnet
                   /\ p.routes = {x.subnet} /\ ~p.direct
         /\ \A p, q \in peers : ~p.direct /\ ~q.direct /\ p.key = q.key /\ p.subnet = q.subnet
              => p = q
<1> DEFINE isHidden == n \in HiddenNets(nets)
           behind == Behind(nets, relay)
           through(m) == {m.subnet} \cup {p.subnet : p \in {p \in points \cup behind : p.node = m.node}}
           all == Reserved(nets, points) \ {n.subnet}
           near(m) == [key |-> m.wg, subnet |-> m.subnet, direct |-> TRUE,
                       routes |-> through(m) \cup (IF isHidden THEN all ELSE {})]
           beside(p) == [key |-> p.key, subnet |-> p.subnet, direct |-> FALSE,
                         routes |-> {p.subnet}]
           ends == {m \in nets : /\ m.node # n.node /\ m.node \notin Hidden
                                 /\ isHidden => m.node = relay[n]}
           sides == {p \in points \cup behind : p.node = n.node}
           peers == Peers(n, nets, points, relay)
<1>1. peers = {near(m) : m \in ends} \cup {beside(p) : p \in sides}
  BY DEF Peers
<1>2. \A m \in nets : /\ near(m).key = m.key /\ near(m).subnet = m.subnet /\ near(m).direct
                     /\ near(m).routes = through(m) \cup (IF isHidden THEN all ELSE {})
  BY DEF Laid
<1>3. \A p : /\ beside(p).key = p.key /\ beside(p).subnet = p.subnet /\ ~beside(p).direct
             /\ beside(p).routes = {p.subnet}
  OBVIOUS
<1>4. \A p, q : p.key = q.key /\ p.subnet = q.subnet => beside(p) = beside(q)
  OBVIOUS
<1>5. \A b \in behind : \E x \in HiddenNets(nets) :
        b.key = x.key /\ b.node = relay[x] /\ b.subnet = x.subnet
  <2> SUFFICES ASSUME NEW b \in behind
               PROVE  \E x \in HiddenNets(nets) :
                        b.key = x.key /\ b.node = relay[x] /\ b.subnet = x.subnet
    OBVIOUS
  <2>1. PICK x \in HiddenNets(nets) :
          b = [key |-> x.wg, node |-> relay[x], subnet |-> x.subnet]
    BY DEF Behind
  <2>2. b.key = x.wg /\ b.node = relay[x] /\ b.subnet = x.subnet
    BY <2>1
  <2>3. x.wg = x.key
    BY DEF Laid, HiddenNets
  <2> QED
    BY <2>2, <2>3
<1>6. \A x \in HiddenNets(nets) : \E b \in behind :
        b.key = x.key /\ b.node = relay[x] /\ b.subnet = x.subnet
  <2> SUFFICES ASSUME NEW x \in HiddenNets(nets)
               PROVE  \E b \in behind :
                        b.key = x.key /\ b.node = relay[x] /\ b.subnet = x.subnet
    OBVIOUS
  <2> DEFINE b == [key |-> x.wg, node |-> relay[x], subnet |-> x.subnet]
  <2>1. b \in behind
    BY DEF Behind
  <2>2. b.key = x.key /\ b.node = relay[x] /\ b.subnet = x.subnet
    BY DEF Laid, HiddenNets
  <2> HIDE DEF b, behind
  <2> QED
    BY <2>1, <2>2
<1>7. \A x \in nets : x.subnet \in Reserved(nets, points)
  BY DEF Reserved
<1> HIDE DEF behind, peers, near, beside
<1>8. ASSUME NEW m \in ends
      PROVE  \E p \in peers :
               /\ p.direct /\ p.key = m.key /\ p.subnet = m.subnet
               /\ m.subnet \in p.routes
               /\ \A x \in HiddenNets(nets) : relay[x] = m.node => x.subnet \in p.routes
               /\ isHidden => \A x \in nets : x.subnet # n.subnet => x.subnet \in p.routes
               /\ \A q \in peers : q.direct /\ q.key = p.key => q = p
  <2>1. near(m) \in peers
    BY <1>1
  <2>2. \A x \in HiddenNets(nets) : relay[x] = m.node => x.subnet \in through(m)
    BY <1>6
  <2>3. isHidden => \A x \in nets : x.subnet # n.subnet => x.subnet \in near(m).routes
    BY <1>2, <1>7
  <2>4. ASSUME NEW q \in peers, q.direct, q.key = m.key PROVE q = near(m)
    <3>1. PICK x \in ends : q = near(x)
      BY <1>1, <1>3, <2>4
    <3>2. x.key = m.key /\ x \in nets /\ m \in nets
      BY <1>2, <2>4, <3>1
    <3>3. x = m
      BY <3>2 DEF Laid
    <3> QED
      BY <3>1, <3>3
  <2>5. m.subnet \in near(m).routes
    BY <1>2
  <2>6. \A x \in HiddenNets(nets) : relay[x] = m.node => x.subnet \in near(m).routes
    BY <1>2, <2>2
  <2>7. m \in nets
    OBVIOUS
  <2> HIDE DEF through, ends
  <2> QED
    BY <1>2, <2>1, <2>3, <2>4, <2>5, <2>6, <2>7
<1>9. ASSUME NEW x \in HiddenNets(nets), relay[x] = n.node
      PROVE  \E p \in peers :
               ~p.direct /\ p.key = x.key /\ p.subnet = x.subnet /\ p.routes = {x.subnet}
  <2>1. PICK b \in sides : b.key = x.key /\ b.subnet = x.subnet
    BY <1>6, <1>9
  <2>2. beside(b) \in peers
    BY <1>1
  <2> HIDE DEF sides
  <2> QED
    BY <1>3, <2>1, <2>2
<1>10. ASSUME NEW p \in peers, p.direct
       PROVE  \E m \in nets :
              /\ m.node # n.node /\ m.node \notin Hidden /\ (isHidden => m.node = relay[n])
              /\ p.key = m.key /\ p.subnet = m.subnet
              /\ ~isHidden => \A s \in p.routes :
                   \/ s = m.subnet
                   \/ \E q \in points : s = q.subnet
                   \/ \E x \in HiddenNets(nets) : relay[x] = m.node /\ s = x.subnet
  <2>1. PICK m \in ends : p = near(m)
    BY <1>1, <1>3, <1>10
  <2>2. \A s \in through(m) :
          \/ s = m.subnet
          \/ \E q \in points : s = q.subnet
          \/ \E x \in HiddenNets(nets) : relay[x] = m.node /\ s = x.subnet
    BY <1>5
  <2>3. ~isHidden => p.routes = through(m)
    BY <1>2, <2>1
  <2>4. p.key = m.key /\ p.subnet = m.subnet
    BY <1>2, <2>1
  <2>5. m \in nets /\ m.node # n.node /\ m.node \notin Hidden /\ (isHidden => m.node = relay[n])
    OBVIOUS
  <2> HIDE DEF through, ends, isHidden
  <2> QED
    BY <2>2, <2>3, <2>4, <2>5
<1>11. ASSUME NEW p \in peers, ~p.direct
       PROVE  \E b \in sides : p = beside(b)
  BY <1>1, <1>2, <1>11
<1>12. ASSUME NEW p \in peers, ~p.direct
       PROVE  \/ \E q \in points :
                   q.node = n.node /\ p.key = q.key /\ p.subnet = q.subnet /\ p.routes = {q.subnet}
              \/ \E x \in HiddenNets(nets) :
                   /\ relay[x] = n.node /\ p.key = x.key /\ p.subnet = x.subnet
                   /\ p.routes = {x.subnet} /\ ~p.direct
  <2>1. PICK b \in sides : p = beside(b)
    BY <1>11, <1>12
  <2>2. /\ p.key = b.key /\ p.subnet = b.subnet /\ p.routes = {b.subnet}
        /\ b.node = n.node /\ b \in points \cup behind
    BY <1>3, <2>1
  <2> HIDE DEF sides
  <2> QED
    BY <1>5, <1>12, <2>2
<1>13. ASSUME NEW p \in peers, NEW q \in peers, ~p.direct, ~q.direct,
              p.key = q.key, p.subnet = q.subnet
       PROVE  p = q
  <2>1. PICK a \in sides, b \in sides : p = beside(a) /\ q = beside(b)
    BY <1>11, <1>13
  <2>2. a.key = b.key /\ a.subnet = b.subnet
    BY <1>3, <1>13, <2>1
  <2> QED
    BY <1>4, <2>1, <2>2
<1>14. \A m \in nets : m \in ends <=> /\ m.node # n.node /\ m.node \notin Hidden
                                      /\ isHidden => m.node = relay[n]
  OBVIOUS
<1> HIDE DEF ends, sides, isHidden, through, all
<1> QED
  BY <1>8, <1>9, <1>10, <1>12, <1>13, <1>14 DEF peers, isHidden

LEMMA HiddenFacts ==
  ASSUME NEW nets, NEW points, NEW relay, Laid(nets, points, relay)
  PROVE  /\ \A x \in HiddenNets(nets) : /\ x \in nets /\ x.node \in Hidden
                                        /\ relay[x] \in Gateways /\ relay[x] \notin Hidden
                                        /\ \E m \in nets : m.node = relay[x]
         /\ \A n, x \in nets : n # x /\ n.node \in Hidden => n \in HiddenNets(nets)
<1>1. ASSUME NEW x \in HiddenNets(nets)
      PROVE  /\ x \in nets /\ x.node \in Hidden /\ relay[x] \in Gateways
             /\ relay[x] \notin Hidden /\ \E m \in nets : m.node = relay[x]
  <2>1. relay[x] \in Gateways /\ relay[x] \in NodesOf(nets)
    BY DEF Laid
  <2> QED
    BY <2>1, NetworkAssumption DEF HiddenNets, NodesOf
<1>2. ASSUME NEW n \in nets, NEW x \in nets, n # x PROVE Cardinality(nets) > 1
  <2>1. IsFiniteSet({n}) /\ Cardinality({n}) = 1 /\ x \notin {n}
    BY <1>2, FS_Singleton
  <2>2. IsFiniteSet({n} \cup {x}) /\ Cardinality({n} \cup {x}) = 2
    BY <2>1, FS_AddElement
  <2>3. IsFiniteSet(nets) /\ {n} \cup {x} \subseteq nets
    BY DEF Laid
  <2>4. /\ Cardinality(nets) \in Nat
        /\ Cardinality({n} \cup {x}) <= Cardinality(nets)
    BY <2>3, FS_Subset, FS_CardinalityType
  <2> QED
    BY <2>2, <2>4
<1> QED
  BY <1>1, <1>2 DEF HiddenNets

\* generatePeers routes the subnet of every other node to just one peer.
LEMMA RoutesOnce ==
  ASSUME NEW nets, NEW points, NEW relay, Laid(nets, points, relay),
         NEW n \in nets, NEW x \in nets, n # x
  PROVE  Once(Peers(n, nets, points, relay), x.subnet)
<1> DEFINE peers == Peers(n, nets, points, relay)
           isHidden == n \in HiddenNets(nets)
<1>1. /\ \A i, j \in nets : i # j => i.node # j.node /\ i.subnet # j.subnet /\ i.key # j.key
      /\ \A p \in points : /\ p.node \in Gateways
                           /\ \A i \in nets : p.subnet # i.subnet /\ p.key # i.key
  BY DEF Laid
<1>2. /\ \A i \in HiddenNets(nets) : /\ i \in nets /\ i.node \in Hidden
                                     /\ relay[i] \in Gateways /\ relay[i] \notin Hidden
                                     /\ \E m \in nets : m.node = relay[i]
      /\ \A i, j \in nets : i # j /\ i.node \in Hidden => i \in HiddenNets(nets)
  BY HiddenFacts
<1>3. \A m \in nets : /\ m.node # n.node /\ m.node \notin Hidden
                      /\ isHidden => m.node = relay[n]
        => \E p \in peers :
             /\ p.direct /\ p.key = m.key /\ p.subnet = m.subnet
             /\ m.subnet \in p.routes
             /\ \A i \in HiddenNets(nets) : relay[i] = m.node => i.subnet \in p.routes
             /\ isHidden => \A i \in nets : i.subnet # n.subnet => i.subnet \in p.routes
             /\ \A q \in peers : q.direct /\ q.key = p.key => q = p
  BY PeersAre
<1>4. \A i \in HiddenNets(nets) : relay[i] = n.node => \E p \in peers :
        ~p.direct /\ p.key = i.key /\ p.subnet = i.subnet /\ p.routes = {i.subnet}
  BY PeersAre
<1>5. \A p \in peers : p.direct => \E m \in nets :
        /\ m.node # n.node /\ m.node \notin Hidden /\ (isHidden => m.node = relay[n])
        /\ p.key = m.key /\ p.subnet = m.subnet
        /\ ~isHidden => \A s \in p.routes :
             \/ s = m.subnet
             \/ \E q \in points : s = q.subnet
             \/ \E i \in HiddenNets(nets) : relay[i] = m.node /\ s = i.subnet
  BY PeersAre
<1>6. \A p \in peers : ~p.direct =>
        \/ \E q \in points :
             q.node = n.node /\ p.key = q.key /\ p.subnet = q.subnet /\ p.routes = {q.subnet}
        \/ \E i \in HiddenNets(nets) :
             /\ relay[i] = n.node /\ p.key = i.key /\ p.subnet = i.subnet
             /\ p.routes = {i.subnet} /\ ~p.direct
  BY PeersAre
<1>7. \A p, q \in peers : ~p.direct /\ ~q.direct /\ p.key = q.key /\ p.subnet = q.subnet => p = q
  BY PeersAre
<1> HIDE DEF peers
<1>8. CASE isHidden
  <2>1. \A q \in peers : q.direct
    <3>1. \A p \in points : p.node # n.node
      BY <1>1, <1>2, <1>8, NetworkAssumption
    <3>2. \A i \in HiddenNets(nets) : relay[i] # n.node
      BY <1>2, <1>8
    <3> QED
      BY <1>6, <3>1, <3>2
  <2>2. PICK m \in nets : m.node = relay[n] /\ m.node \notin Hidden /\ m.node # n.node
    BY <1>2, <1>8
  <2>3. PICK p \in peers : /\ p.key = m.key /\ x.subnet \in p.routes
                           /\ \A q \in peers : q.direct /\ q.key = p.key => q = p
    BY <1>1, <1>3, <1>8, <2>2
  <2>4. \A q \in peers : q = p
    <3> SUFFICES ASSUME NEW q \in peers PROVE q = p
      OBVIOUS
    <3>1. PICK i \in nets : i.node = relay[n] /\ q.key = i.key
      BY <1>5, <1>8, <2>1
    <3>2. i = m
      BY <1>1, <2>2, <3>1
    <3> QED
      BY <2>1, <2>3, <3>1, <3>2
  <2> QED
    BY <2>3, <2>4 DEF Once, peers
<1>9. CASE ~isHidden /\ x.node \notin Hidden
  <2>1. PICK p \in peers : /\ p.key = x.key /\ x.subnet \in p.routes
                           /\ \A q \in peers : q.direct /\ q.key = p.key => q = p
    BY <1>1, <1>3, <1>9
  <2>2. ASSUME NEW q \in peers, x.subnet \in q.routes PROVE q = p
    <3>1. CASE q.direct
      <4>1. PICK m \in nets :
              /\ q.key = m.key
              /\ \/ x.subnet = m.subnet
                 \/ \E i \in points : x.subnet = i.subnet
                 \/ \E i \in HiddenNets(nets) : x.subnet = i.subnet
        BY <1>5, <1>9, <2>2, <3>1
      <4>2. m = x
        BY <1>1, <1>2, <1>9, <4>1
      <4> QED
        BY <2>1, <3>1, <4>1, <4>2
    <3>2. CASE ~q.direct
      <4>1. \/ \E i \in points : x.subnet = i.subnet
            \/ \E i \in HiddenNets(nets) : x.subnet = i.subnet
        BY <1>6, <2>2, <3>2
      <4> QED
        BY <1>1, <1>2, <1>9, <4>1
    <3> QED
      BY <3>1, <3>2
  <2> QED
    BY <2>1, <2>2 DEF Once, peers
<1>10. CASE ~isHidden /\ x.node \in Hidden
  <2>1. x \in HiddenNets(nets)
    BY <1>2, <1>10
  <2>2. \A i \in HiddenNets(nets) : i.subnet = x.subnet => i = x
    BY <1>1, <1>2
  <2>3. \A i \in points : x.subnet # i.subnet
    BY <1>1
  <2>4. ASSUME NEW q \in peers, x.subnet \in q.routes, q.direct
        PROVE  relay[x] # n.node /\ \E m \in nets : m.node = relay[x] /\ q.key = m.key
    <3>1. PICK m \in nets :
            /\ m.node # n.node /\ m.node \notin Hidden /\ q.key = m.key
            /\ \/ x.subnet = m.subnet
               \/ \E i \in points : x.subnet = i.subnet
               \/ \E i \in HiddenNets(nets) : relay[i] = m.node /\ x.subnet = i.subnet
      BY <1>5, <1>10, <2>4
    <3>2. x.subnet # m.subnet
      BY <1>1, <1>10, <3>1
    <3> QED
      BY <2>2, <2>3, <3>1, <3>2
  <2>5. ASSUME NEW q \in peers, x.subnet \in q.routes, ~q.direct
        PROVE  relay[x] = n.node /\ q.key = x.key /\ q.subnet = x.subnet
    BY <1>6, <2>2, <2>3, <2>5
  <2>6. CASE relay[x] = n.node
    <3>1. PICK p \in peers : ~p.direct /\ p.key = x.key /\ p.subnet = x.subnet /\ x.subnet \in p.routes
      BY <1>4, <2>1, <2>6
    <3>2. \A q \in peers : x.subnet \in q.routes => q = p
      BY <1>7, <2>4, <2>5, <2>6, <3>1
    <3> QED
      BY <3>1, <3>2 DEF Once, peers
  <2>7. CASE relay[x] # n.node
    <3>1. PICK m \in nets : m.node = relay[x]
      BY <1>2, <2>1
    <3>2. PICK p \in peers : /\ p.key = m.key /\ x.subnet \in p.routes
                             /\ \A q \in peers : q.direct /\ q.key = p.key => q = p
      BY <1>2, <1>3, <1>10, <2>1, <2>7, <3>1
    <3>3. ASSUME NEW q \in peers, x.subnet \in q.routes PROVE q = p
      <4>1. q.direct
        BY <2>5, <2>7, <3>3
      <4>2. PICK i \in nets : i.node = relay[x] /\ q.key = i.key
        BY <2>4, <3>3, <4>1
      <4>3. i = m
        BY <1>1, <3>1, <4>2
      <4> QED
        BY <3>2, <4>1, <4>2, <4>3
    <3> QED
      BY <3>2, <3>3 DEF Once, peers
  <2> QED
    BY <2>6, <2>7
<1> QED
  BY <1>8, <1>9, <1>10

\* Only the access node of a hidden node has it as a peer.
LEMMA PeerOf ==
  ASSUME NEW nets, NEW points, NEW relay, Laid(nets, points, relay),
         NEW x \in HiddenNets(nets), NEW y \in nets,
         NEW q \in Peers(y, nets, points, relay), q.key = x.key
  PROVE  y.node = relay[x]
<1>1. x \in nets /\ x.node \in Hidden /\ \A i \in HiddenNets(nets) : i \in nets
  BY DEF HiddenNets
<1>2. /\ \A i, j \in nets : i # j => i.key # j.key
      /\ \A p \in points : \A i \in nets : p.key # i.key
  BY DEF Laid
<1>3. q.direct => \E m \in nets :
        /\ m.node # y.node /\ m.node \notin Hidden
        /\ (y \in HiddenNets(nets) => m.node = relay[y])
        /\ q.key = m.key /\ q.subnet = m.subnet
        /\ ~(y \in HiddenNets(nets)) => \A s \in q.routes :
             \/ s = m.subnet
             \/ \E p \in points : s = p.subnet
             \/ \E i \in HiddenNets(nets) : relay[i] = m.node /\ s = i.subnet
  BY PeersAre
<1>4. ~q.direct =>
        \/ \E p \in points :
             p.node = y.node /\ q.key = p.key /\ q.subnet = p.subnet /\ q.routes = {p.subnet}
        \/ \E i \in HiddenNets(nets) :
             /\ relay[i] = y.node /\ q.key = i.key /\ q.subnet = i.subnet
             /\ q.routes = {i.subnet} /\ ~q.direct
  BY PeersAre
<1>5. ~q.direct
  BY <1>1, <1>2, <1>3
<1> QED
  BY <1>1, <1>2, <1>4, <1>5

\* That peer is a node of the network.
LEMMA RoutesToNodes ==
  ASSUME NEW nets, NEW points, NEW relay, Laid(nets, points, relay),
         NEW n \in nets, NEW x \in nets, n # x,
         NEW p \in Peers(n, nets, points, relay), x.subnet \in p.routes
  PROVE  LET end == IF n.node \in Hidden THEN n ELSE x IN
         \/ p.key = x.key
         \/ /\ end.node \in Hidden
            /\ \A y \in nets : (\E q \in Peers(y, nets, points, relay) : q.key = end.key)
                 => p.key = y.key
<1> DEFINE isHidden == n \in HiddenNets(nets)
<1>1. /\ \A i, j \in nets : i # j => i.node # j.node /\ i.subnet # j.subnet /\ i.key # j.key
      /\ \A q \in points : /\ q.node \in Gateways
                           /\ \A i \in nets : q.subnet # i.subnet /\ q.key # i.key
  BY DEF Laid
<1>2. /\ \A i \in HiddenNets(nets) : /\ i \in nets /\ i.node \in Hidden
                                     /\ relay[i] \in Gateways /\ relay[i] \notin Hidden
                                     /\ \E m \in nets : m.node = relay[i]
      /\ \A i, j \in nets : i # j /\ i.node \in Hidden => i \in HiddenNets(nets)
  BY HiddenFacts
<1>3. p.direct => \E m \in nets :
        /\ m.node # n.node /\ m.node \notin Hidden /\ (isHidden => m.node = relay[n])
        /\ p.key = m.key /\ p.subnet = m.subnet
        /\ ~isHidden => \A s \in p.routes :
             \/ s = m.subnet
             \/ \E q \in points : s = q.subnet
             \/ \E i \in HiddenNets(nets) : relay[i] = m.node /\ s = i.subnet
  BY PeersAre
<1>4. ~p.direct =>
        \/ \E q \in points :
             q.node = n.node /\ p.key = q.key /\ p.subnet = q.subnet /\ p.routes = {q.subnet}
        \/ \E i \in HiddenNets(nets) :
             /\ relay[i] = n.node /\ p.key = i.key /\ p.subnet = i.subnet
             /\ p.routes = {i.subnet} /\ ~p.direct
  BY PeersAre
<1>5. \A i \in HiddenNets(nets), y \in nets :
        (\E q \in Peers(y, nets, points, relay) : q.key = i.key) => y.node = relay[i]
  BY PeerOf
<1>6. CASE ~p.direct
  <2>1. PICK i \in HiddenNets(nets) : p.key = i.key /\ x.subnet = i.subnet
    BY <1>1, <1>4, <1>6
  <2> QED
    BY <1>1, <1>2, <2>1
<1>7. CASE p.direct /\ isHidden
  <2>1. PICK m \in nets : m.node = relay[n] /\ p.key = m.key
    BY <1>3, <1>7
  <2>2. n.node \in Hidden
    BY <1>2, <1>7
  <2>3. ASSUME NEW y \in nets, \E q \in Peers(y, nets, points, relay) : q.key = n.key
        PROVE  p.key = y.key
    BY <1>1, <1>5, <1>7, <2>1, <2>3
  <2> QED
    BY <2>2, <2>3
<1>8. CASE p.direct /\ ~isHidden
  <2>1. PICK m \in nets :
          /\ p.key = m.key
          /\ \/ x.subnet = m.subnet
             \/ \E q \in points : x.subnet = q.subnet
             \/ \E i \in HiddenNets(nets) : relay[i] = m.node /\ x.subnet = i.subnet
    BY <1>3, <1>8
  <2>2. n.node \notin Hidden
    BY <1>2, <1>8
  <2>3. CASE x.subnet = m.subnet
    BY <1>1, <2>1, <2>3
  <2>4. CASE x.subnet # m.subnet
    <3>1. x \in HiddenNets(nets) /\ relay[x] = m.node /\ x.node \in Hidden
      BY <1>1, <1>2, <2>1, <2>4
    <3>2. ASSUME NEW y \in nets, \E q \in Peers(y, nets, points, relay) : q.key = x.key
          PROVE  p.key = y.key
      BY <1>1, <1>5, <2>1, <3>1, <3>2
    <3> QED
      BY <2>2, <3>1, <3>2
  <2> QED
    BY <2>3, <2>4
<1> QED
  BY <1>6, <1>7, <1>8

\* The workloads of a network that is laid out anew.
Layout(nets, points, relay) ==
  {[key |-> n.key, node |-> n.node, subnet |-> n.subnet, wg |-> n.wg,
    peers |-> Peers(n, nets, points, relay)] : n \in nets}

\* They are a mesh.
LEMMA LaidSound ==
  ASSUME NEW nets, NEW points, NEW relay, Laid(nets, points, relay), NEW last \in Nat,
         \A n \in nets : n.key \in 1 .. last, \A p \in points : p.key \in 1 .. last
  PROVE  LET put == Layout(nets, points, relay) IN
         /\ Sound(put, last)
         /\ \A n \in nets : \E w \in put : w.key = n.key
         /\ \A v, w \in put : v.key = w.key => v = w
<1> DEFINE workload(n) == [key |-> n.key, node |-> n.node, subnet |-> n.subnet,
                           wg |-> n.wg, peers |-> Peers(n, nets, points, relay)]
           put == Layout(nets, points, relay)
<1>1. \A n : /\ workload(n).key = n.key /\ workload(n).subnet = n.subnet
             /\ workload(n).node = n.node
             /\ workload(n).peers = Peers(n, nets, points, relay)
  OBVIOUS
<1>2. put = {workload(n) : n \in nets}
  BY DEF Layout
<1> HIDE DEF workload, put
<1>3. \A i, j \in nets : i # j => i.subnet # j.subnet /\ i.key # j.key
  BY DEF Laid
<1>4. Meshed(put)
  <2> SUFFICES ASSUME NEW n \in nets, NEW x \in nets, n.key # x.key
               PROVE  /\ Once(workload(n).peers, workload(x).subnet)
                      /\ \A p \in workload(n).peers : workload(x).subnet \in p.routes =>
                           Passed(p, workload(n), workload(x), put)
    BY <1>1, <1>2 DEF Meshed
  <2>1. Once(workload(n).peers, workload(x).subnet)
    BY <1>1, RoutesOnce
  <2>2. ASSUME NEW p \in Peers(n, nets, points, relay), x.subnet \in p.routes
        PROVE  Passed(p, workload(n), workload(x), put)
    <3> DEFINE end == IF n.node \in Hidden THEN n ELSE x
    <3>1. \/ p.key = x.key
          \/ /\ end.node \in Hidden
             /\ \A y \in nets : (\E q \in Peers(y, nets, points, relay) : q.key = end.key)
                  => p.key = y.key
      BY <2>2, RoutesToNodes
    <3>2. \A w \in put : \E y \in nets :
            w.key = y.key /\ w.peers = Peers(y, nets, points, relay)
      BY <1>1, <1>2
    <3> QED
      BY <1>1, <3>1, <3>2 DEF Passed
  <2> QED
    BY <1>1, <2>1, <2>2
<1>5. Keyed(put, last)
  <2> SUFFICES ASSUME NEW n \in nets, NEW p \in Peers(n, nets, points, relay), ~p.direct
               PROVE  p.key \in 1 .. last /\ \A x \in nets : p.key = x.key <=> p.subnet = x.subnet
    BY <1>1, <1>2 DEF Keyed
  <2>1. \/ \E q \in points : p.key = q.key /\ p.subnet = q.subnet
        \/ \E i \in HiddenNets(nets) : p.key = i.key /\ p.subnet = i.subnet
    <3>1. \/ \E q \in points :
               q.node = n.node /\ p.key = q.key /\ p.subnet = q.subnet /\ p.routes = {q.subnet}
          \/ \E i \in HiddenNets(nets) :
               /\ relay[i] = n.node /\ p.key = i.key /\ p.subnet = i.subnet
               /\ p.routes = {i.subnet} /\ ~p.direct
      BY PeersAre
    <3> QED
      BY <3>1
  <2>2. \A i \in HiddenNets(nets) : i \in nets
    BY DEF HiddenNets
  <2>3. \A q \in points, x \in nets : q.key # x.key /\ q.subnet # x.subnet
    BY DEF Laid
  <2> QED
    BY <1>3, <2>1, <2>2, <2>3
<1> QED
  BY <1>1, <1>2, <1>3, <1>4, <1>5 DEF Sound, put

\* What there is, for a call that takes its turn: the nodes differ in all they have.
LEMMA LoadedApart ==
  ASSUME IInv, TInv, Calm, NEW c \in Calls, pc[c] = "loading"
  PROVE  /\ \A n \in view[c] : /\ n.key \in DOMAIN carried /\ n.key \in 1 .. made
                               /\ n.node = carried[n.key].node
                               /\ n.subnet = carried[n.key].subnet
         /\ \A n, x \in view[c] : n # x =>
              n.node # x.node /\ n.subnet # x.subnet /\ n.key # x.key
<1>1. ViewOK(c) /\ LoadOK(c) /\ \A k \in DOMAIN carried : CarriedOK(k) /\ NodeOK(k)
  BY DEF IInv, CallOK, TInv, NodesOK
<1>2. \A n \in view[c] : /\ n.key \in DOMAIN carried /\ n.key \in 1 .. made
                         /\ n.node = carried[n.key].node /\ n.subnet = carried[n.key].subnet
  BY <1>1 DEF ViewOK, LoadOK
<1>3. \A n, x \in view[c] : n # x => n.key # x.key
  BY <1>1 DEF ViewOK
<1>4. \A k, x \in DOMAIN carried : k # x => carried[k].node # carried[x].node
  BY <1>1 DEF NodeOK
<1>5. ASSUME NEW k \in DOMAIN carried, NEW x \in DOMAIN carried, k # x
      PROVE  carried[k].subnet # carried[x].subnet
  <2> DEFINE a == carried[k].by
             b == carried[x].by
  <2>1. /\ a \in Calls /\ b \in Calls /\ pc[a] # "idle" /\ pc[b] # "idle"
    BY <1>1 DEF CarriedOK, Over
  <2>2. ~AtOnce(a, b)
    <3>1. a = b => ~AtOnce(a, b)
      BY DEF AtOnce
    <3>2. a # b => ~AtOnce(a, b)
      BY <2>1 DEF TInv, TurnsOK, Calm
    <3> QED
      BY <3>1, <3>2
  <2>3. forgotten = {} /\ SubnetsApart
    BY DEF Calm, IInv
  <2> QED
    BY <1>5, <2>2, <2>3 DEF SubnetsApart
<1> QED
  BY <1>2, <1>3, <1>4, <1>5

\* What a call that takes its turn has loaded is what there is.
LEMMA LoadedSound ==
  ASSUME IInv, TInv, RoutedOK, Calm, NEW c \in Calls, pc[c] = "loading"
  PROVE  /\ Keyed(view[c], made) /\ (~halfSent => Meshed(view[c]))
         /\ view[c] # {} => Listing(indexed) # {}
<1>1. \A n \in view[c] : /\ n.key \in DOMAIN carried /\ n.node = carried[n.key].node
                         /\ n.subnet = carried[n.key].subnet
                         /\ n.peers = carried[n.key].peers
  BY LoadedApart DEF RoutedOK
<1>2. \A d \in Calls \ {c} : pc[d] \in Over \cup {"idle"} /\ New(d) = {}
  BY OthersRest DEF TInv, Calm, Over
<1>3. Keyed(OnNodes, made) /\ (~halfSent => Meshed(OnNodes))
  <2>1. \A d \in Calls : pc[d] # "sending"
    BY <1>2 DEF Over
  <2> QED
    BY <2>1 DEF RoutedOK, Whole
<1>4. Part(view[c], OnNodes)
  <2> SUFFICES ASSUME NEW n \in view[c]
               PROVE  \E b \in OnNodes : /\ n.key = b.key /\ n.node = b.node
                                         /\ n.subnet = b.subnet /\ n.peers = b.peers
    BY DEF Part
  <2> DEFINE b == [key |-> n.key, node |-> carried[n.key].node,
                   subnet |-> carried[n.key].subnet, peers |-> carried[n.key].peers]
  <2>1. b \in OnNodes
    BY <1>1 DEF OnNodes
  <2>2. /\ n.key = b.key /\ n.node = b.node /\ n.subnet = b.subnet /\ n.peers = b.peers
    BY <1>1
  <2> HIDE DEF b
  <2> QED
    BY <2>1, <2>2
<1>5. made \in Nat
  BY DEF IInv, WorldOK
<1>6. Keyed(view[c], made) /\ (~halfSent => Meshed(view[c]))
  BY <1>3, <1>4, <1>5, KeyedPart, MeshedPart
<1>7. ASSUME NEW n \in view[c] PROVE Listing(indexed) # {}
  <2>1. n.key \in DOMAIN carried /\ CarriedOK(n.key) /\ n.key \notin deletedContracts
    BY <1>1 DEF IInv, WorldOK
  <2>2. n.key \in indexed \cup newContracts
    BY <1>2, <2>1 DEF CarriedOK, Calm
  <2> QED
    BY <2>1, <2>2 DEF Listing
<1> QED
  BY <1>6, <1>7

\* A deployment with a node that joins lays the network out anew: it plans a workload
\* for every node.
LEMMA DeploySound ==
  ASSUME IInv, TInv, RoutedOK, Calm, NEW c \in Calls, Deploy(c), ~Fail(c)
  PROVE  LET put == plan'[c].put IN
         /\ IF put = {} THEN New(c)' = {}
            ELSE Sound(put, made') /\ Keys(c) \cup New(c)' \subseteq {w.key : w \in put}
         /\ \A v, w \in put : v.key = w.key => v = w
<1>1. /\ pc[c] = "loading" /\ todo[c] = {} /\ made' = made + 3 /\ made \in Nat /\ HandsOK
      /\ MapsOK /\ job[c].wish \in Wishes
  <2>1. HandOK(c)
    BY DEF TInv, HandsOK
  <2> QED
    BY <2>1, DeployTurn DEF IInv, WorldOK, TInv, HandOK, Deploy
<1>2. PICK g \in Gateways : \E relay, lead, site : Chosen(c, g, relay, lead, site)
  BY <1>1, DeployChoice
<1>3. PICK relay, lead, site : Chosen(c, g, relay, lead, site)
  BY <1>2
<1> DEFINE known == Listing(indexed) # {}
           E == Extension(c, g, known)
           joined == E.joined
           granted == E.granted
           nets == view[c] \cup joined
           given == {[key |-> u.key, node |-> u.node, subnet |-> u.subnet] : u \in granted}
           points == AccessPoints(view[c]) \cup given
           put == Workloads(c, E, lead, relay, known)
           taken == Reserved(view[c], AccessPoints(view[c]))
<1>4. plan'[c].put = put /\ New(c)' = {n.key : n \in joined}
  BY <1>1, <1>3, Updated DEF Chosen, MapsOK, New
<1>5. /\ joined # {} => relay \in [HiddenNets(nets) -> Gateways \cap NodesOf(nets)]
      /\ lead \in Leads(nets)
  BY <1>3 DEF Chosen
<1>6. Nets(view[c])
  BY DEF IInv, CallOK, ViewOK, Nets
<1>7. /\ IsFiniteSet(joined) /\ IsFiniteSet(granted)
      /\ \A j \in joined : /\ j.key \in {made + 1, made + 3}
                           /\ j.subnet \notin Subnets(view[c])
                           /\ j.peers = {} /\ j.ips = {} /\ j.wg = j.key
      /\ \A i, j \in joined : i # j => i.key # j.key /\ i.subnet # j.subnet
      /\ job[c].wish.node \in NodesOf(view[c] \cup joined)
  <2> HIDE DEF known
  <2> QED
    BY <1>1, <1>6, ExtensionFacts
<1>8. /\ \A j \in joined : j.subnet \notin taken /\ j.node \notin NodesOf(view[c])
      /\ \A i, j \in joined : i # j => i.node # j.node
      /\ \A u \in granted :
           /\ u.key = made + 2 /\ u.node \in Gateways /\ u.subnet \notin taken
           /\ \A j \in joined : j.subnet # u.subnet
  <2> HIDE DEF known
  <2> QED
    BY <1>1, <1>6, JoinedFacts
<1>9. \A q \in given : \E u \in granted :
        q.key = u.key /\ q.node = u.node /\ q.subnet = u.subnet
  OBVIOUS
<1>10. put = {[key |-> n.key, node |-> n.node, subnet |-> n.subnet,
               wg |-> lead[n.subnet].wg, peers |-> Peers(lead[n.subnet], nets, points, relay)] :
                n \in IF joined = {} THEN {} ELSE joined \cup (IF known THEN view[c] ELSE {})}
  BY DEF Workloads
<1>11. Keyed(view[c], made) /\ (view[c] # {} => known)
  BY <1>1, LoadedSound
<1> HIDE DEF known, E, joined, granted, given, put, taken
<1>12. CASE joined = {}
  BY <1>4, <1>10, <1>12
<1>13. CASE joined # {}
  <2>1. \A n \in view[c] : n.wg = n.key
    BY DEF TInv, WgOK, Alone, Calm
  <2>2. /\ \A n \in view[c] : n.key \in 1 .. made
        /\ \A n, x \in view[c] : n # x =>
             n.node # x.node /\ n.subnet # x.subnet /\ n.key # x.key
    BY <1>1, LoadedApart
  <2>3. \A n \in view[c] : n.node \in NodesOf(view[c]) /\ n.subnet \in taken
    BY DEF NodesOf, Reserved, taken
  <2>4. \A q \in AccessPoints(view[c]) : q.subnet \in taken
    BY DEF Reserved, taken
  <2>5. \A q \in AccessPoints(view[c]) :
          /\ q.node \in Gateways /\ q.key \in 1 .. made
          /\ \A x \in view[c] : q.key # x.key /\ q.subnet # x.subnet
    <3> SUFFICES ASSUME NEW q \in AccessPoints(view[c])
                 PROVE  /\ q.node \in Gateways /\ q.key \in 1 .. made
                        /\ \A x \in view[c] : q.key # x.key /\ q.subnet # x.subnet
      OBVIOUS
    <3>1. PICK n \in view[c] : \E p \in n.peers :
            /\ ~p.direct /\ q.key = p.key /\ q.node = n.node /\ q.subnet = p.subnet
            /\ \A x \in view[c] : x.wg # p.key
      BY PointOf
    <3>2. LoadOK(c)
      BY DEF TInv, NodesOK
    <3> QED
      BY <1>11, <2>1, <3>1, <3>2 DEF Keyed, LoadOK
  <2>6. IsFiniteSet(nets)
    BY <1>6, <1>7, FS_Union DEF Nets
  <2>7. ASSUME NEW n \in nets, NEW x \in nets, n # x
        PROVE  n.node # x.node /\ n.subnet # x.subnet /\ n.key # x.key
    BY <1>1, <1>7, <1>8, <2>2, <2>3, <2>7
  <2>8. \A p \in points : /\ p.node \in Gateways /\ p.key \in 1 .. (made + 3)
                          /\ \A x \in nets : p.subnet # x.subnet /\ p.key # x.key
    <3>1. ASSUME NEW p \in AccessPoints(view[c]), NEW x \in nets
          PROVE  p.subnet # x.subnet /\ p.key # x.key
      BY <1>1, <1>7, <1>8, <2>4, <2>5
    <3>2. ASSUME NEW p \in given, NEW x \in nets
          PROVE  p.subnet # x.subnet /\ p.key # x.key
      BY <1>1, <1>7, <1>8, <1>9, <2>2, <2>3
    <3>3. \A p \in given : p.node \in Gateways /\ p.key \in 1 .. (made + 3)
      BY <1>1, <1>8, <1>9
    <3>4. \A p \in AccessPoints(view[c]) : p.node \in Gateways /\ p.key \in 1 .. (made + 3)
      BY <1>1, <2>5
    <3> QED
      BY <3>1, <3>2, <3>3, <3>4
  <2>9. \A n \in nets : n.key \in 1 .. (made + 3) /\ n.wg = n.key
    BY <1>1, <1>7, <2>1, <2>2
  <2>10. joined \cup (IF known THEN view[c] ELSE {}) = nets
    BY <1>11
  <2> HIDE DEF nets, points
  <2>11. Laid(nets, points, relay)
    BY <1>5, <1>13, <2>6, <2>7, <2>8, <2>9 DEF Laid
  <2>12. put = Layout(nets, points, relay)
    <3>1. \A n \in nets : lead[n.subnet] = n
      BY <1>5, <2>7, LeadFacts
    <3> DEFINE made1(n) == [key |-> n.key, node |-> n.node, subnet |-> n.subnet,
                 wg |-> lead[n.subnet].wg, peers |-> Peers(lead[n.subnet], nets, points, relay)]
               made2(n) == [key |-> n.key, node |-> n.node, subnet |-> n.subnet,
                 wg |-> n.wg, peers |-> Peers(n, nets, points, relay)]
    <3>2. \A n \in nets : made1(n) = made2(n)
      BY <3>1
    <3>3. put = {made1(n) : n \in nets}
      BY <1>10, <1>13, <2>10
    <3>4. Layout(nets, points, relay) = {made2(n) : n \in nets}
      BY DEF Layout
    <3> HIDE DEF made1, made2
    <3> QED
      BY <3>2, <3>3, <3>4
  <2>13. /\ Sound(put, made + 3)
         /\ \A n \in nets : \E w \in put : w.key = n.key
         /\ \A v, w \in put : v.key = w.key => v = w
    <3> DEFINE last == made + 3
    <3>1. last \in Nat
      BY <1>1
    <3>2. \A n \in nets : n.key \in 1 .. last
      BY <2>9
    <3>3. \A p \in points : p.key \in 1 .. last
      BY <2>8
    <3> HIDE DEF last
    <3>4. /\ Sound(put, last)
          /\ \A n \in nets : \E w \in put : w.key = n.key
          /\ \A v, w \in put : v.key = w.key => v = w
      BY <2>11, <2>12, <3>1, <3>2, <3>3, LaidSound
    <3> QED
      BY <3>4 DEF last
  <2>14. Keys(c) \cup New(c)' \subseteq {w.key : w \in put} /\ put # {}
    BY <1>4, <1>13, <2>13 DEF Keys, nets
  <2> QED
    BY <1>1, <1>4, <2>13, <2>14
<1> QED
  BY <1>12, <1>13

\* After a step of a call that takes its turn the others are still at rest.
LEMMA OthersStill ==
  ASSUME IInv, TInv, Calm, NEW c \in Calls, pc[c] \notin Over \cup {"idle"}, Apart(c)
  PROVE  \A d \in Calls \ {c} : pc'[d] \in Over \cup {"idle"}
BY OthersRest DEF TInv, Calm, Apart

LEMMA RoutedStep ==
  ASSUME NEW c \in Calls, \A d \in Calls \ {c} : pc'[d] \in Over \cup {"idle"},
         Calm' => /\ pc'[c] # "sending" => Whole'
                  /\ pc'[c] = "loading" =>
                       \A n \in view'[c] : carried'[n.key].peers = n.peers
                  /\ pc'[c] = "sending" => HalfOK(c)'
  PROVE  RoutedOK'
BY DEF RoutedOK, Over

\* The steps that change neither the nodes nor what is loaded or planned.
LEMMA RoutedRest ==
  ASSUME RoutedOK, Calm' => Calm, made' = made, carried' = carried, pc' = pc, todo' = todo,
         view' = view, plan' = plan, halfSent' = halfSent
  PROVE  RoutedOK'
<1>1. OnNodes' = OnNodes
  BY DEF OnNodes
<1>2. \A c \in Calls : HalfOK(c)' <=> HalfOK(c)
  BY DEF HalfOK, Keys, New
<1>3. Whole' <=> Whole
  BY <1>1 DEF Whole
<1> QED
  BY <1>2, <1>3 DEF RoutedOK

LEMMA RoutedAsk == ASSUME IInv, TInv, RoutedOK, NEW c \in Calls, Ask(c) PROVE RoutedOK'
<1>1. /\ pc[c] = "idle" /\ pc'[c] = "asking" /\ Apart(c) /\ made' = made /\ carried' = carried
      /\ overlapped' = (overlapped \/ Busy # {}) /\ cutOff' = cutOff /\ forgotten' = forgotten
      /\ halfSent' = halfSent
  BY AskFacts
<1> SUFFICES ASSUME Calm' PROVE RoutedOK'
  BY DEF RoutedOK
<1>2. Calm /\ Busy = {}
  BY <1>1 DEF Calm
<1>3. \A d \in Calls : pc[d] \in Over \cup {"idle"}
  BY <1>2 DEF Busy
<1>4. \A d \in Calls \ {c} : pc'[d] \in Over \cup {"idle"}
  BY <1>1, <1>3 DEF Apart
<1>5. OnNodes' = OnNodes
  BY <1>1 DEF OnNodes
<1>6. Whole
  BY <1>2, <1>3 DEF RoutedOK, Over
<1>7. Whole'
  BY <1>1, <1>5, <1>6 DEF Whole
<1> QED
  BY <1>1, <1>4, <1>7, RoutedStep

\* A call that is under way and sends nothing, before or after.
LEMMA RoutedLoad ==
  ASSUME IInv, TInv, RoutedOK, Calm' => Calm, NEW c \in Calls,
         pc[c] \notin Over \cup {"idle", "sending"}, Apart(c), pc'[c] # "sending",
         made' = made, ~halfSent' => ~halfSent, Part(OnNodes', OnNodes),
         Calm' /\ pc'[c] = "loading" => \A n \in view'[c] : carried'[n.key].peers = n.peers
  PROVE  RoutedOK'
<1> SUFFICES ASSUME Calm' PROVE RoutedOK'
  BY DEF RoutedOK
<1>1. \A d \in Calls \ {c} : pc'[d] \in Over \cup {"idle"} /\ pc[d] \in Over \cup {"idle"}
  <2>1. \A d \in Calls \ {c} : pc'[d] \in Over \cup {"idle"}
    BY OthersStill
  <2> QED
    BY <2>1 DEF Apart
<1>2. Keyed(OnNodes, made) /\ (~halfSent => Meshed(OnNodes)) /\ made \in Nat
  BY <1>1 DEF RoutedOK, Whole, Over, IInv, WorldOK
<1>3. Keyed(OnNodes', made) /\ (~halfSent => Meshed(OnNodes'))
  BY <1>2, KeyedPart, MeshedPart
<1>4. Whole'
  BY <1>3 DEF Whole
<1> QED
  BY <1>1, <1>4, RoutedStep

LEMMA PartSame == ASSUME NEW A PROVE Part(A, A)
BY DEF Part

LEMMA OnNodesSame == ASSUME carried' = carried PROVE Part(OnNodes', OnNodes)
<1>1. OnNodes' = OnNodes
  BY DEF OnNodes
<1> QED
  BY <1>1, PartSame

LEMMA RoutedMerge == ASSUME IInv, TInv, RoutedOK, NEW c \in Calls, Merge(c) PROVE RoutedOK'
<1>1. /\ pc[c] = "asking" /\ pc'[c] = "loading" /\ Apart(c) /\ made' = made
      /\ carried' = carried /\ view' = view /\ overlapped' = overlapped /\ cutOff' = cutOff
      /\ forgotten \subseteq forgotten' /\ halfSent' = halfSent
  BY MergeFacts
<1>2. view[c] = {}
  BY <1>1 DEF IInv, CallOK, ViewOK
<1>3. Calm' => Calm
  BY <1>1 DEF Calm
<1> QED
  BY <1>1, <1>2, <1>3, OnNodesSame, RoutedLoad DEF Over

LEMMA RoutedFail ==
  ASSUME IInv, TInv, RoutedOK, NEW c \in Calls, pc[c] = "loading", Fail(c) PROVE RoutedOK'
<1>1. /\ Apart(c) /\ pc'[c] = "failed" /\ made' = made /\ carried' = carried
      /\ overlapped' = overlapped /\ cutOff' = cutOff /\ forgotten' = forgotten
      /\ halfSent' = halfSent
  BY FailFacts DEF Ended
<1>2. Calm' => Calm
  BY <1>1 DEF Calm
<1> QED
  BY <1>1, <1>2, OnNodesSame, RoutedLoad DEF Over

LEMMA RoutedFetch ==
  ASSUME IInv, TInv, RoutedOK, NEW c \in Calls, NEW k \in 1 .. made, Fetch(c, k)
  PROVE  RoutedOK'
<1>1. CASE k \in DOMAIN carried
  <2>1. /\ pc[c] = "loading" /\ pc' = pc /\ Apart(c) /\ view'[c] = view[c] \cup {Loads(k)}
        /\ made' = made /\ carried' = carried /\ overlapped' = overlapped
        /\ cutOff' = cutOff /\ forgotten' = forgotten /\ halfSent' = halfSent
    BY <1>1, FetchFacts
  <2>2. Calm' => Calm
    BY <2>1 DEF Calm
  <2>3. Loads(k).key = k /\ Loads(k).peers = carried[k].peers
    BY DEF Loads
  <2>4. Calm' => \A n \in view'[c] : carried'[n.key].peers = n.peers
    BY <2>1, <2>2, <2>3 DEF RoutedOK
  <2> QED
    BY <2>1, <2>2, <2>4, OnNodesSame, RoutedLoad DEF Over
<1>2. CASE k \notin DOMAIN carried
  BY <1>2, RoutedFail DEF Fetch
<1> QED
  BY <1>1, <1>2

\* Without the workloads of a machine's node the other nodes are a mesh still.
LEMMA RoutedRemove == ASSUME IInv, TInv, RoutedOK, NEW c \in Calls, Remove(c) PROVE RoutedOK'
<1>1. CASE Fail(c)
  BY <1>1, RoutedFail DEF Remove, Loaded
<1>2. CASE ~Fail(c)
  <2> DEFINE drop == {n.key : n \in Emptied(view[c], job[c].machine)}
  <2>1. /\ pc[c] = "loading" /\ pc'[c] = "saving" /\ Apart(c) /\ made' = made
        /\ DOMAIN carried' = DOMAIN carried \ drop
        /\ \A x \in DOMAIN carried' : carried'[x] = carried[x]
        /\ overlapped' = overlapped /\ cutOff' = cutOff /\ forgotten' = forgotten
        /\ halfSent' = halfSent
    BY <1>2, RemoveFacts
  <2> HIDE DEF drop
  <2>2. Calm' => Calm
    BY <2>1 DEF Calm
  <2>3. Part(OnNodes', OnNodes)
    <3>1. OnNodes' \subseteq OnNodes
      <4> SUFFICES ASSUME NEW x \in DOMAIN carried'
                   PROVE  [key |-> x, node |-> carried'[x].node, subnet |-> carried'[x].subnet,
                           peers |-> carried'[x].peers] \in OnNodes
        BY DEF OnNodes
      <4>1. x \in DOMAIN carried /\ carried'[x] = carried[x]
        BY <2>1
      <4> QED
        BY <4>1 DEF OnNodes
    <3> QED
      BY <3>1 DEF Part
  <2> QED
    BY <2>1, <2>2, <2>3, RoutedLoad DEF Over
<1> QED
  BY <1>1, <1>2

LEMMA RoutedDeploy == ASSUME IInv, TInv, RoutedOK, NEW c \in Calls, Deploy(c) PROVE RoutedOK'
<1>1. CASE Fail(c)
  BY <1>1, RoutedFail DEF Deploy, Loaded
<1>2. CASE ~Fail(c)
  <2>1. /\ pc[c] = "loading" /\ todo[c] = {} /\ pc'[c] = "sending" /\ Apart(c)
        /\ view' = view /\ carried' = carried /\ made' = made + 3
        /\ overlapped' = overlapped /\ cutOff' = cutOff /\ forgotten \subseteq forgotten'
        /\ halfSent' = halfSent
    BY <1>2, DeployTurn DEF TInv
  <2>2. PICK joined, granted, put, site :
          /\ Grown(c, joined, granted, put, site)
          /\ todo'[c] = {w.key : w \in put}
          /\ New(c)' = {n.key : n \in joined}
          /\ plan'[c].put = put
    BY <1>2, DeployTurn DEF TInv
  <2> SUFFICES ASSUME Calm' PROVE RoutedOK'
    BY DEF RoutedOK
  <2>3. Calm
    BY <2>1 DEF Calm
  <2>4. \A d \in Calls \ {c} : pc'[d] \in Over \cup {"idle"}
    BY <2>1, <2>3, OthersStill DEF Over
  <2>5. made \in Nat /\ Keyed(view[c], made) /\ (~halfSent => Meshed(view[c]))
    BY <2>1, <2>3, LoadedSound DEF IInv, WorldOK
  <2>6. Keyed(view[c], made')
    <3>1. made + 3 \in Nat /\ made <= made + 3 /\ Part(view[c], view[c])
      BY <2>5, PartSame
    <3>2. Keyed(view[c], made + 3)
      BY <2>5, <3>1, KeyedPart
    <3> QED
      BY <2>1, <3>2
  <2>7. DOMAIN carried \subseteq Keys(c)
    BY <2>1, <2>3, LoadsAll DEF TInv, Calm, Keys
  <2>8. Keys(c) \cap New(c)' = {}
    <3>1. \A n \in view[c] : n.key \in 1 .. made
      BY DEF IInv, CallOK, ViewOK
    <3>2. \A j \in joined : j.key \in {made + 1, made + 3}
      BY <2>2 DEF Grown
    <3> QED
      BY <2>2, <2>5, <3>1, <3>2 DEF Keys
  <2>9. /\ IF put = {} THEN New(c)' = {}
           ELSE Sound(put, made') /\ Keys(c) \cup New(c)' \subseteq {w.key : w \in put}
        /\ \A v, w \in put : v.key = w.key => v = w
    BY <1>2, <2>2, <2>3, DeploySound
  <2>10. \A n \in view[c] : carried[n.key].peers = n.peers
    BY <2>1, <2>3 DEF RoutedOK
  <2>11. Keys(c)' = Keys(c) /\ view'[c] = view[c]
    BY <2>1 DEF Keys
  <2>12. HalfOK(c)'
    <3>1. \A w \in put : w.key \in todo'[c]
      BY <2>2
    <3>2. \A n \in view'[c] : carried'[n.key].peers = n.peers
      BY <2>1, <2>10
    <3>3. DOMAIN carried' \subseteq Keys(c)' \cup New(c)'
      BY <2>1, <2>7, <2>11
    <3>4. /\ Keyed(view'[c], made') /\ (~halfSent' => Meshed(view'[c]))
          /\ Keys(c)' \cap New(c)' = {} /\ plan'[c].put = put
      BY <2>1, <2>2, <2>5, <2>6, <2>8, <2>11
    <3>5. IF put = {} THEN New(c)' = {}
          ELSE Sound(put, made') /\ Keys(c)' \cup New(c)' \subseteq {w.key : w \in put}
      BY <2>9, <2>11
    <3> QED
      BY <2>9, <3>1, <3>2, <3>3, <3>4, <3>5 DEF HalfOK
  <2> QED
    BY <2>1, <2>4, <2>12, RoutedStep
<1> QED
  BY <1>1, <1>2

LEMMA RoutedSend ==
  ASSUME IInv, TInv, RoutedOK, NEW c \in Calls, NEW k \in 1 .. made, Send(c, k)
  PROVE  RoutedOK'
<1>1. /\ pc[c] = "sending" /\ k \in todo[c] /\ pc' = pc /\ Apart(c) /\ view' = view
      /\ plan' = plan /\ todo'[c] = todo[c] \ {k} /\ made' = made
      /\ overlapped' = overlapped /\ cutOff' = cutOff /\ forgotten' = forgotten
      /\ halfSent' = halfSent /\ (k \notin DOMAIN carried => k \in New(c))
  BY SendFacts
<1>2. /\ DOMAIN carried' = DOMAIN carried \cup {k}
      /\ \A x \in DOMAIN carried \ {k} : carried'[x] = carried[x]
  BY SendTakes
<1>3. PICK w \in plan[c].put : w.key = k /\ carried'[k].peers = w.peers
  BY SendTakes
<1> SUFFICES ASSUME Calm' PROVE RoutedOK'
  BY DEF RoutedOK
<1>4. Calm
  BY <1>1 DEF Calm
<1>5. \A d \in Calls \ {c} : pc'[d] \in Over \cup {"idle"}
  BY <1>1, <1>4, OthersStill DEF Over
<1>6. HalfOK(c) /\ LoadOK(c)
  BY <1>1, <1>4 DEF RoutedOK, TInv, NodesOK
<1>7. Keys(c)' = Keys(c) /\ New(c)' = New(c)
  BY <1>1 DEF Keys, New
<1>8. DOMAIN carried' \subseteq Keys(c) \cup New(c)
  BY <1>1, <1>2, <1>6 DEF HalfOK
<1>9. ASSUME NEW n \in view[c], n.key \in todo'[c] \/ plan[c].put = {}
      PROVE  carried'[n.key].peers = n.peers
  <2>1. n.key \in todo[c] /\ n.key # k
    BY <1>1, <1>3, <1>9
  <2>2. n.key \in DOMAIN carried /\ carried[n.key].peers = n.peers
    BY <1>1, <1>6, <2>1 DEF HalfOK, LoadOK
  <2> QED
    BY <1>2, <2>1, <2>2
<1>10. ASSUME NEW v \in plan[c].put, v.key \notin todo'[c]
       PROVE  v.key \in DOMAIN carried' /\ carried'[v.key].peers = v.peers
  <2>1. CASE v.key = k
    <3>1. v = w
      BY <1>3, <1>6, <2>1 DEF HalfOK
    <3> QED
      BY <1>2, <1>3, <3>1
  <2>2. CASE v.key # k
    <3>1. v.key \in DOMAIN carried /\ carried[v.key].peers = v.peers
      BY <1>1, <1>6, <1>10, <2>2 DEF HalfOK
    <3> QED
      BY <1>2, <2>2, <3>1
  <2> QED
    BY <2>1, <2>2
<1>11. HalfOK(c)'
  <2>1. /\ Keyed(view[c], made) /\ (~halfSent => Meshed(view[c]))
        /\ Keys(c) \cap New(c) = {}
        /\ IF plan[c].put = {} THEN New(c) = {}
           ELSE /\ Sound(plan[c].put, made)
                /\ Keys(c) \cup New(c) \subseteq {x.key : x \in plan[c].put}
        /\ \A x \in plan[c].put : \A v \in plan[c].put : v.key = x.key => v = x
    BY <1>6 DEF HalfOK
  <2> QED
    BY <1>1, <1>7, <1>8, <1>9, <1>10, <2>1 DEF HalfOK
<1> QED
  BY <1>1, <1>5, <1>11, RoutedStep

\* A call that sends, and is over after the step, leaves a sound network.
LEMMA RoutedOver ==
  ASSUME IInv, TInv, RoutedOK, Calm' => Calm, NEW c \in Calls, pc[c] = "sending",
         Apart(c), pc'[c] \in Over, made' = made,
         Calm' /\ Calm /\ HalfOK(c) =>
           Keyed(OnNodes', made) /\ (~halfSent' => Meshed(OnNodes'))
  PROVE  RoutedOK'
<1> SUFFICES ASSUME Calm' PROVE RoutedOK'
  BY DEF RoutedOK
<1>1. \A d \in Calls \ {c} : pc'[d] \in Over \cup {"idle"}
  BY OthersStill DEF Over
<1>2. Keyed(OnNodes', made) /\ (~halfSent' => Meshed(OnNodes'))
  BY DEF RoutedOK
<1>3. Whole'
  BY <1>2 DEF Whole
<1> QED
  BY <1>1, <1>3, RoutedStep DEF Over

\* A member for each workload there is.
LEMMA PartOf ==
  ASSUME NEW nets, NEW all,
         \A k \in DOMAIN all : \E n \in nets :
           /\ n.key = k /\ n.node = all[k].node /\ n.subnet = all[k].subnet
           /\ n.peers = all[k].peers
  PROVE  Part({[key |-> k, node |-> all[k].node, subnet |-> all[k].subnet,
                peers |-> all[k].peers] : k \in DOMAIN all}, nets)
<1> DEFINE A == {[key |-> k, node |-> all[k].node, subnet |-> all[k].subnet,
                  peers |-> all[k].peers] : k \in DOMAIN all}
<1> SUFFICES ASSUME NEW a \in A
             PROVE  \E n \in nets : /\ a.key = n.key /\ a.node = n.node
                                    /\ a.subnet = n.subnet /\ a.peers = n.peers
  BY DEF Part
<1>1. PICK k \in DOMAIN all :
        a = [key |-> k, node |-> all[k].node, subnet |-> all[k].subnet,
             peers |-> all[k].peers]
  OBVIOUS
<1>2. /\ a.key = k /\ a.node = all[k].node /\ a.subnet = all[k].subnet
      /\ a.peers = all[k].peers
  BY <1>1
<1> QED
  BY <1>2

\* Each node that was there before has the peers it was loaded with or those of the
\* plan: an access point among them is a node's, or no node's, in either.
LEMMA KeyedHalf ==
  ASSUME IInv, NEW c \in Calls, pc[c] = "sending", HalfOK(c)
  PROVE  LET old == {n \in OnNodes : n.key \notin New(c)} IN
         /\ Keyed(old, made)
         /\ PutKeys(c) \subseteq todo[c] \cup New(c) => Part(old, view[c])
<1> DEFINE put == plan[c].put
           old == {n \in OnNodes : n.key \notin New(c)}
<1>1. /\ \A n \in view[c] : n.key \in DOMAIN carried =>
           n.node = carried[n.key].node /\ n.subnet = carried[n.key].subnet
      /\ \A w \in put : w.key \in DOMAIN carried =>
           w.node = carried[w.key].node /\ w.subnet = carried[w.key].subnet
  BY DEF IInv, CallOK, PlanOK, ViewOK, PutOK
<1>2. /\ DOMAIN carried \subseteq Keys(c) \cup New(c)
      /\ Keyed(view[c], made)
      /\ put # {} => Keyed(put, made) /\ Keys(c) \subseteq {w.key : w \in put}
      /\ \A n \in view[c] : n.key \in todo[c] \/ put = {} => carried[n.key].peers = n.peers
      /\ \A w \in put : w.key \notin todo[c] =>
           w.key \in DOMAIN carried /\ carried[w.key].peers = w.peers
  BY DEF HalfOK, Sound
<1>3. ASSUME NEW x \in old
      PROVE  /\ x.key \in DOMAIN carried /\ x.key \in Keys(c) /\ x.key \notin New(c)
             /\ x.node = carried[x.key].node /\ x.subnet = carried[x.key].subnet
             /\ x.peers = carried[x.key].peers
  <2>1. PICK k \in DOMAIN carried :
          x = [key |-> k, node |-> carried[k].node, subnet |-> carried[k].subnet,
               peers |-> carried[k].peers]
    BY DEF OnNodes
  <2>2. /\ x.key = k /\ x.node = carried[k].node /\ x.subnet = carried[k].subnet
        /\ x.peers = carried[k].peers
    BY <2>1
  <2> QED
    BY <1>2, <2>2
<1>4. PutKeys(c) = {w.key : w \in put}
  BY DEF PutKeys
<1> HIDE DEF put, old
<1>5. ASSUME NEW x \in old
      PROVE  \E n \in view[c] :
               /\ n.key = x.key /\ n.node = x.node /\ n.subnet = x.subnet
               /\ x.key \in todo[c] \/ put = {} => n.peers = x.peers
  <2>1. PICK n \in view[c] : n.key = x.key
    BY <1>3 DEF Keys
  <2> QED
    BY <1>1, <1>2, <1>3, <2>1
<1>6. ASSUME NEW x \in old, put # {}
      PROVE  \E w \in put : /\ w.key = x.key /\ w.subnet = x.subnet
                            /\ x.key \notin todo[c] => w.peers = x.peers
  <2>1. PICK w \in put : w.key = x.key
    BY <1>2, <1>3, <1>6
  <2> QED
    BY <1>1, <1>2, <1>3, <2>1
<1>7. ASSUME NEW a \in old, NEW p \in a.peers, ~p.direct
      PROVE  p.key \in 1 .. made /\ \A x \in old : p.key = x.key <=> p.subnet = x.subnet
  <2>1. CASE a.key \in todo[c] \/ put = {}
    <3>1. PICK n \in view[c] : n.peers = a.peers
      BY <1>5, <2>1
    <3>2. p.key \in 1 .. made /\ \A x \in view[c] : p.key = x.key <=> p.subnet = x.subnet
      BY <1>2, <1>7, <3>1 DEF Keyed
    <3>3. \A x \in old : \E m \in view[c] : m.key = x.key /\ m.subnet = x.subnet
      BY <1>5
    <3> QED
      BY <3>2, <3>3
  <2>2. CASE a.key \notin todo[c] /\ put # {}
    <3>1. PICK w \in put : w.peers = a.peers
      BY <1>6, <2>2
    <3>2. p.key \in 1 .. made /\ \A x \in put : p.key = x.key <=> p.subnet = x.subnet
      BY <1>2, <1>7, <2>2, <3>1 DEF Keyed
    <3>3. \A x \in old : \E v \in put : v.key = x.key /\ v.subnet = x.subnet
      BY <1>6, <2>2
    <3> QED
      BY <3>2, <3>3
  <2> QED
    BY <2>1, <2>2
<1>8. Keyed(old, made)
  BY <1>7 DEF Keyed
<1>9. ASSUME PutKeys(c) \subseteq todo[c] \cup New(c) PROVE Part(old, view[c])
  <2>1. ASSUME NEW x \in old PROVE x.key \in todo[c] \/ put = {}
    <3>1. put # {} => x.key \in PutKeys(c)
      BY <1>2, <1>3, <1>4
    <3> QED
      BY <1>3, <1>9, <3>1
  <2> QED
    BY <1>5, <2>1 DEF Part
<1> QED
  BY <1>8, <1>9 DEF old

\* The nodes that had the new peers already keep them, which is what halfSent tells.
LEMMA RoutedRollBack ==
  ASSUME IInv, TInv, RoutedOK, NEW c \in Calls, RollBack(c) PROVE RoutedOK'
<1> DEFINE old == {n \in OnNodes : n.key \notin New(c)}
           kept == PutKeys(c) \subseteq todo[c] \cup New(c)
<1>1. /\ pc[c] = "sending" /\ Apart(c) /\ pc'[c] = "failed" /\ made' = made
      /\ overlapped' = overlapped /\ forgotten \subseteq forgotten'
      /\ \A x \in DOMAIN carried' : carried'[x] = carried[x]
      /\ \/ /\ DOMAIN carried' = DOMAIN carried \ New(c) /\ cutOff' = cutOff
            /\ halfSent' = (halfSent \/ ~kept)
         \/ cutOff'
  <2>1. /\ pc[c] = "sending" /\ Apart(c) /\ Ended(c, "failed")
        /\ made' = made /\ indexed' = indexed
        /\ machines' = machines /\ users' = users /\ newContracts' = newContracts
        /\ deletedContracts' = deletedContracts /\ crashes' = crashes
        /\ before' = before /\ overlapped' = overlapped
        /\ chain' \subseteq chain /\ forgotten \subseteq forgotten'
        /\ DOMAIN carried' \subseteq DOMAIN carried
        /\ \A x \in DOMAIN carried' : carried'[x] = carried[x]
        /\ \/ /\ chain' = chain \ New(c) /\ DOMAIN carried' = DOMAIN carried \ New(c)
              /\ cutOff' = cutOff /\ forgotten' = forgotten
              /\ halfSent' = (halfSent \/ ~(PutKeys(c) \subseteq todo[c] \cup New(c)))
           \/ cutOff' = TRUE /\ chain' = chain /\ carried' = carried /\ halfSent' = halfSent
    BY RollBackFacts
  <2> QED
    BY <2>1 DEF Ended
<1> HIDE DEF kept, old
<1> SUFFICES ASSUME Calm' PROVE RoutedOK'
  BY DEF RoutedOK
<1>2. /\ DOMAIN carried' = DOMAIN carried \ New(c) /\ cutOff' = cutOff
      /\ halfSent' = (halfSent \/ ~kept)
  BY <1>1 DEF Calm
<1>3. Calm' => Calm
  BY <1>1, <1>2 DEF Calm
<1>4. made \in Nat
  BY DEF IInv, WorldOK
<1>5. Part(OnNodes', old)
  <2>1. ASSUME NEW x \in DOMAIN carried'
        PROVE  [key |-> x, node |-> carried'[x].node, subnet |-> carried'[x].subnet,
                peers |-> carried'[x].peers] \in old
    <3>1. x \in DOMAIN carried /\ carried'[x] = carried[x] /\ x \notin New(c)
      BY <1>1, <1>2
    <3> QED
      BY <3>1 DEF OnNodes, old
  <2>2. OnNodes' \subseteq old
    BY <2>1 DEF OnNodes
  <2> QED
    BY <2>2 DEF Part
<1>6. ASSUME HalfOK(c)
      PROVE  Keyed(OnNodes', made) /\ (~halfSent' => Meshed(OnNodes'))
  <2>1. Keyed(old, made) /\ (kept => Part(old, view[c]))
    BY <1>1, <1>6, KeyedHalf DEF old, kept
  <2>2. Keyed(OnNodes', made)
    BY <1>4, <1>5, <2>1, KeyedPart
  <2>3. ASSUME ~halfSent' PROVE Meshed(OnNodes')
    <3>1. kept /\ ~halfSent
      BY <1>2, <2>3
    <3>2. Meshed(old)
      <4>1. Meshed(view[c])
        BY <1>6, <3>1 DEF HalfOK
      <4> QED
        BY <2>1, <3>1, <4>1, MeshedPart
    <3> QED
      BY <1>5, <3>2, MeshedPart
  <2> QED
    BY <2>2, <2>3
<1> QED
  BY <1>1, <1>3, <1>6, RoutedOver DEF Over

LEMMA RoutedFinish ==
  ASSUME IInv, TInv, RoutedOK, NEW c \in Calls, Finish(c) PROVE RoutedOK'
<1>1. /\ (pc[c] = "saving" \/ (pc[c] = "sending" /\ todo[c] = {}))
      /\ Apart(c) /\ pc'[c] = "done" /\ made' = made /\ carried' = carried
      /\ overlapped' = overlapped /\ cutOff' = cutOff /\ forgotten' = forgotten
      /\ halfSent' = (halfSent /\ plan[c].put = {})
  BY FinishFacts DEF Ended
<1>2. Calm' => Calm
  BY <1>1 DEF Calm
<1>3. CASE pc[c] = "saving"
  <2>1. plan[c].put = {}
    <3>1. HandOK(c)
      BY DEF TInv, HandsOK
    <3> QED
      BY <1>3, <3>1 DEF HandOK
  <2>2. ~halfSent' => ~halfSent
    BY <1>1, <2>1
  <2> QED
    BY <1>1, <1>2, <1>3, <2>2, OnNodesSame, RoutedLoad DEF Over
<1>4. CASE pc[c] = "sending"
  <2>1. todo[c] = {} /\ ViewOK(c) /\ PutOK(c) /\ made \in Nat
    BY <1>1, <1>4 DEF IInv, CallOK, PlanOK, WorldOK
  <2>2. OnNodes' = OnNodes
    BY <1>1 DEF OnNodes
  <2>3. ASSUME HalfOK(c), plan[c].put = {}
        PROVE  Keyed(OnNodes, made) /\ (~halfSent => Meshed(OnNodes))
    <3>1. ASSUME NEW k \in DOMAIN carried
          PROVE  \E n \in view[c] :
                   /\ n.key = k /\ n.node = carried[k].node /\ n.subnet = carried[k].subnet
                   /\ n.peers = carried[k].peers
      <4>1. PICK n \in view[c] : n.key = k
        BY <2>3 DEF HalfOK, Keys
      <4>2. n.node = carried[k].node /\ n.subnet = carried[k].subnet
        BY <2>1, <4>1 DEF ViewOK
      <4> QED
        BY <2>3, <4>1, <4>2 DEF HalfOK
    <3>2. Part(OnNodes, view[c])
      BY <3>1, PartOf DEF OnNodes
    <3>3. Keyed(view[c], made) /\ (~halfSent => Meshed(view[c]))
      BY <2>3 DEF HalfOK
    <3> QED
      BY <2>1, <3>2, <3>3, KeyedPart, MeshedPart
  <2>4. ASSUME HalfOK(c), plan[c].put # {}
        PROVE  Keyed(OnNodes, made) /\ Meshed(OnNodes)
    <3>1. ASSUME NEW k \in DOMAIN carried
          PROVE  \E w \in plan[c].put :
                   /\ w.key = k /\ w.node = carried[k].node /\ w.subnet = carried[k].subnet
                   /\ w.peers = carried[k].peers
      <4>1. PICK w \in plan[c].put : w.key = k
        BY <2>4 DEF HalfOK
      <4>2. w.node = carried[k].node /\ w.subnet = carried[k].subnet
        BY <1>4, <2>1, <4>1 DEF PutOK
      <4> QED
        BY <2>1, <2>4, <4>1, <4>2 DEF HalfOK
    <3>2. Part(OnNodes, plan[c].put)
      BY <3>1, PartOf DEF OnNodes
    <3>3. Keyed(plan[c].put, made) /\ Meshed(plan[c].put)
      BY <2>4 DEF HalfOK, Sound
    <3> QED
      BY <2>1, <3>2, <3>3, KeyedPart, MeshedPart
  <2>5. ASSUME HalfOK(c)
        PROVE  Keyed(OnNodes', made) /\ (~halfSent' => Meshed(OnNodes'))
    BY <1>1, <2>2, <2>3, <2>4, <2>5
  <2> QED
    BY <1>1, <1>2, <1>4, <2>5, RoutedOver DEF Over
<1> QED
  BY <1>1, <1>3, <1>4

LEMMA RoutedCrash == ASSUME IInv, TInv, RoutedOK, Crash PROVE RoutedOK'
<1>1. /\ \A c \in Calls : pc'[c] = IF c \in Busy THEN "failed" ELSE pc[c]
      /\ cutOff' = (cutOff \/ Busy # {}) /\ forgotten' = forgotten \cup (chain \ indexed)
      /\ made' = made /\ carried' = carried /\ overlapped' = overlapped
      /\ halfSent' = halfSent
  BY CrashFacts
<1> SUFFICES ASSUME Calm' PROVE RoutedOK'
  BY DEF RoutedOK
<1>2. Calm /\ Busy = {}
  BY <1>1 DEF Calm
<1>3. \A c \in Calls : pc'[c] = pc[c] /\ pc[c] \notin {"loading", "sending"}
  BY <1>1, <1>2 DEF Busy, Over
<1>4. OnNodes' = OnNodes
  BY <1>1 DEF OnNodes
<1>5. Whole
  BY <1>2, <1>3 DEF RoutedOK
<1>6. Whole'
  BY <1>1, <1>4, <1>5 DEF Whole
<1> QED
  BY <1>3, <1>6 DEF RoutedOK

LEMMA RoutedIndex == ASSUME RoutedOK, NEW k, Index(k) PROVE RoutedOK'
BY IndexFacts, RoutedRest DEF Calm

LEMMA RoutedNext == ASSUME IInv, TInv, RoutedOK, [Next]_vars PROVE RoutedOK'
<1>1. CASE Next
  BY <1>1, RoutedAsk, RoutedMerge, RoutedDeploy, RoutedRollBack, RoutedRemove, RoutedFinish,
     RoutedFetch, RoutedSend, RoutedIndex, RoutedCrash DEF Next
<1>2. CASE UNCHANGED vars
  <2>1. /\ made' = made /\ carried' = carried /\ pc' = pc /\ todo' = todo /\ view' = view
        /\ plan' = plan /\ halfSent' = halfSent /\ (Calm' => Calm)
    BY <1>2 DEF vars, world, local, history, Calm
  <2> QED
    BY <2>1, RoutedRest
<1> QED
  BY <1>1, <1>2

LEMMA InitRouted == Init => RoutedOK
<1> SUFFICES ASSUME Init PROVE RoutedOK
  OBVIOUS
<1>1. DOMAIN carried = {} /\ \A c \in Calls : pc[c] = "idle"
  BY DEF Init
<1>2. OnNodes = {}
  BY <1>1 DEF OnNodes
<1>3. Whole
  BY <1>2 DEF Whole, Meshed, Keyed
<1> QED
  BY <1>1, <1>3 DEF RoutedOK

\* "The target is to make a private Mesh connection between the nodes so they can
\* reach each other" (docs/network/wireguard_network.md:5).  Whatever deployments and
\* removals take turns, between calls every node routes the subnet of every other to
\* just one peer, which is that node or the access node that a hidden one is behind
\* (network.ts:828-918), but for a hidden node whose access node has been removed.
\* What a failed deployment has sent stays, since UpdateDeployment passes over networks
\* (deployment.ts:55): the mesh is back once a deployment has been sent in full.
THEOREM NodesReachEachOther == Spec => []Mesh
<1>1. Init => RoutedOK
  BY InitRouted
<1>2. IInv /\ TInv /\ RoutedOK /\ [Next]_vars => RoutedOK'
  BY RoutedNext
<1>3. TInv /\ RoutedOK => Mesh
  <2> DEFINE Cut(k) == /\ carried[k].node \in Hidden
                       /\ \A x \in DOMAIN carried : \A p \in carried[x].peers :
                            p.key # carried[k].wg
             Via(k, x) == {p \in carried[k].peers : carried[x].subnet \in p.routes}
  <2> SUFFICES ASSUME TInv, RoutedOK, Busy = {}, ~overlapped, ~cutOff, ~halfSent,
                      forgotten = {},
                      NEW k \in DOMAIN carried, NEW x \in DOMAIN carried,
                      k # x, ~Cut(k), ~Cut(x)
               PROVE  /\ Cardinality(Via(k, x)) = 1
                      /\ \A p \in Via(k, x) : \E y \in DOMAIN carried : carried[y].wg = p.key
    BY DEF Mesh
  <2>1. Meshed(OnNodes)
    <3>1. \A c \in Calls : pc[c] # "sending"
      BY DEF Busy, Over
    <3> QED
      BY <3>1 DEF RoutedOK, Whole, Calm
  <2>2. \A i \in DOMAIN carried : carried[i].wg = i
    BY DEF TInv, WgOK, Alone
  <2> DEFINE on(i) == [key |-> i, node |-> carried[i].node, subnet |-> carried[i].subnet,
                       peers |-> carried[i].peers]
  <2>3. \A i : /\ on(i).key = i /\ on(i).node = carried[i].node
               /\ on(i).subnet = carried[i].subnet /\ on(i).peers = carried[i].peers
    OBVIOUS
  <2>4. \A i \in DOMAIN carried : on(i) \in OnNodes
    BY DEF OnNodes
  <2> HIDE DEF on
  <2>5. ~Lost(on(k), OnNodes) /\ ~Lost(on(x), OnNodes)
    BY <2>2, <2>3, <2>4 DEF Lost
  <2>6. /\ Once(carried[k].peers, carried[x].subnet)
        /\ \A p \in carried[k].peers : carried[x].subnet \in p.routes =>
             Passed(p, on(k), on(x), OnNodes)
    BY <2>1, <2>3, <2>4, <2>5 DEF Meshed
  <2>7. Cardinality(Via(k, x)) = 1
    <3>1. PICK p \in carried[k].peers : Via(k, x) = {p}
      BY <2>6 DEF Once
    <3> QED
      BY <3>1, FS_Singleton
  <2>8. ASSUME NEW p \in Via(k, x) PROVE \E y \in DOMAIN carried : carried[y].wg = p.key
    <3> DEFINE end == IF carried[k].node \in Hidden THEN k ELSE x
    <3>1. end \in DOMAIN carried /\ ~Cut(end)
      OBVIOUS
    <3>2. \/ p.key = x
          \/ /\ carried[end].node \in Hidden
             /\ \A y \in DOMAIN carried : (\E q \in carried[y].peers : q.key = end) => p.key = y
      BY <2>3, <2>4, <2>6 DEF Passed
    <3>3. CASE p.key = x
      BY <2>2, <3>3
    <3>4. CASE p.key # x
      <4>1. PICK y \in DOMAIN carried : \E q \in carried[y].peers : q.key = end
        BY <2>2, <3>1, <3>2, <3>4
      <4> QED
        BY <2>2, <3>2, <3>4, <4>1
    <3> QED
      BY <3>3, <3>4
  <2> QED
    BY <2>7, <2>8
<1> QED
  BY <1>1, <1>2, <1>3, TurnsInvariance, PTL DEF Spec
=============================================================================
