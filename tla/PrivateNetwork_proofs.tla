---------------------- MODULE PrivateNetwork_proofs ----------------------
(***************************************************************************)
(* Theorems of PrivateNetwork, for any nodes, wishes and calls.            *)
(***************************************************************************)
EXTENDS PrivateNetwork, TLAPS, FiniteSetTheorems, WellFoundedInduction

-----------------------------------------------------------------------------
(* Finite sets, and the first number that is not in one.                     *)

LEMMA FiniteImage ==
  ASSUME NEW S, IsFiniteSet(S), NEW f
  PROVE  IsFiniteSet({f[x] : x \in S})
<1> DEFINE T == {f[x] : x \in S}
           g == [x \in S |-> f[x]]
<1>1. g \in Surjection(S, T)
  BY DEF Surjection
<1> QED
  BY <1>1, FS_Surjection

LEMMA FiniteUnion ==
  ASSUME NEW S, IsFiniteSet(S), NEW f, \A x \in S : IsFiniteSet(f[x])
  PROVE  IsFiniteSet(UNION {f[x] : x \in S})
<1> DEFINE All(U) == UNION {f[x] : x \in U}
           Bad == {U \in FiniteSubsetsOf(S) : ~IsFiniteSet(All(U))}
<1>1. ASSUME Bad # {} PROVE FALSE
  <2>1. PICK U \in Bad : \A V \in Bad : <<V, U>> \notin StrictSubsetOrdering(S)
    <3>1. Bad \subseteq FiniteSubsetsOf(S)
      OBVIOUS
    <3> HIDE DEF Bad
    <3> QED
      BY <1>1, <3>1, FS_StrictSubsetOrderingWellFounded, WFMin
  <2>2. U \in SUBSET S /\ IsFiniteSet(U) /\ ~IsFiniteSet(All(U))
    BY <2>1 DEF FiniteSubsetsOf
  <2>3. PICK x \in U : TRUE
    <3>1. U = {} => All(U) = {}
      OBVIOUS
    <3> QED
      BY <2>2, <3>1, FS_EmptySet
  <2>4. /\ IsFiniteSet(U \ {x}) /\ U \ {x} \in FiniteSubsetsOf(S)
        /\ <<U \ {x}, U>> \in StrictSubsetOrdering(S)
    <3>1. IsFiniteSet(U \ {x})
      BY <2>2, FS_RemoveElement
    <3> QED
      BY <2>2, <2>3, <3>1 DEF FiniteSubsetsOf, StrictSubsetOrdering
  <2>5. IsFiniteSet(All(U \ {x}))
    BY <2>1, <2>4
  <2>6. All(U) = All(U \ {x}) \cup f[x]
    BY <2>3
  <2>7. IsFiniteSet(f[x])
    BY <2>2, <2>3
  <2>8. IsFiniteSet(All(U \ {x}) \cup f[x])
    <3> HIDE DEF All
    <3> QED
      BY <2>5, <2>7, FS_Union
  <2> QED
    BY <2>2, <2>6, <2>8, Zenon
<1>2. S \in FiniteSubsetsOf(S)
  BY DEF FiniteSubsetsOf
<1> QED
  BY <1>1, <1>2

\* The address or subnet that is chosen is free.
LEMMA FreeIsFree ==
  ASSUME NEW reserved, IsFiniteSet(reserved)
  PROVE  FirstFree(reserved) \in Nat /\ FirstFree(reserved) \notin reserved
<1> DEFINE n == Cardinality(reserved)
           free == (2 .. (n + 2)) \ reserved
<1>1. n \in Nat
  BY FS_CardinalityType
<1>2. free # {}
  <2> SUFFICES ASSUME 2 .. (n + 2) \subseteq reserved PROVE FALSE
    OBVIOUS
  <2> HIDE DEF n
  <2>1. Cardinality(2 .. (n + 2)) = n + 1
    <3>1. Cardinality(2 .. (n + 2)) = IF 2 > n + 2 THEN 0 ELSE (n + 2) - 2 + 1
      BY <1>1, FS_Interval
    <3> QED
      BY <1>1, <3>1
  <2>2. Cardinality(2 .. (n + 2)) <= n
    BY FS_Subset DEF n
  <2> QED
    BY <1>1, <2>1, <2>2
<1> HIDE DEF n
<1> DEFINE upto == [s \in free |-> 2 .. s]
<1>3. PICK s \in free : \A t \in free :
        ~(<<upto[t], upto[s]>> \in StrictSubsetOrdering(2 .. (n + 2)))
  <2> DEFINE T == {upto[s] : s \in free}
  <2>1. T \subseteq FiniteSubsetsOf(2 .. (n + 2))
    <3> SUFFICES ASSUME NEW s \in free PROVE upto[s] \in FiniteSubsetsOf(2 .. (n + 2))
      OBVIOUS
    <3>1. s \in Int /\ 2 .. s \subseteq 2 .. (n + 2)
      BY <1>1
    <3>2. IsFiniteSet(2 .. s)
      BY <3>1, FS_Interval
    <3> QED
      BY <3>1, <3>2 DEF FiniteSubsetsOf
  <2>2. T # {}
    BY <1>2
  <2> HIDE DEF T
  <2>3. PICK x \in T : \A y \in T : ~(<<y, x>> \in StrictSubsetOrdering(2 .. (n + 2)))
    BY <2>1, <2>2, FS_StrictSubsetOrderingWellFounded, WFMin
  <2> QED
    BY <2>3 DEF T
<1>4. ASSUME NEW t \in free, t < s PROVE FALSE
  <2>1. 2 .. t \subseteq 2 .. s /\ s \in 2 .. s /\ s \notin 2 .. t
    BY <1>1, <1>4
  <2>2. 2 .. t \subseteq 2 .. (n + 2) /\ 2 .. s \subseteq 2 .. (n + 2)
    BY <1>1
  <2>3. <<2 .. t, 2 .. s>> \in StrictSubsetOrdering(2 .. (n + 2))
    BY <2>1, <2>2 DEF StrictSubsetOrdering
  <2> QED
    BY <1>3, <2>3
<1>5. s \in 2 .. (n + 2) /\ s \notin reserved /\ \A t \in 2 .. (s - 1) : t \in reserved
  BY <1>1, <1>4
<1>6. \E x \in 2 .. (n + 2) : x \notin reserved /\ \A t \in 2 .. (x - 1) : t \in reserved
  BY <1>5
<1>7. FirstFree(reserved) \in 2 .. (n + 2) /\ FirstFree(reserved) \notin reserved
  BY <1>6 DEF FirstFree, n
<1> QED
  BY <1>1, <1>7

-----------------------------------------------------------------------------
(* What is read from a load of the network, and what is made of it.          *)

\* The networks a call has loaded or is to add, each with finitely many peers.
Nets(nets) == IsFiniteSet(nets) /\ \A n \in nets : IsFiniteSet(n.peers)

LEMMA PointsFinite == ASSUME NEW nets, Nets(nets) PROVE IsFiniteSet(AccessPoints(nets))
<1> DEFINE pairs == [n \in nets |-> {n} \X n.peers]
           All == UNION {pairs[n] : n \in nets}
           Some == {q \in All : ~q[2].direct /\ \A n \in nets : n.wg # q[2].key}
           point == [p \in Some |-> [key |-> p[2].key, node |-> p[1].node, subnet |-> p[2].subnet]]
<1>1. ASSUME NEW n \in nets PROVE IsFiniteSet(pairs[n])
  <2> DEFINE pair == [x \in n.peers |-> <<n, x>>]
  <2>1. IsFiniteSet({pair[x] : x \in n.peers})
    <3>1. IsFiniteSet(n.peers)
      BY DEF Nets
    <3> HIDE DEF pair
    <3> QED
      BY <3>1, FiniteImage
  <2>2. {n} \X n.peers = {pair[x] : x \in n.peers}
    <3>1. ASSUME NEW z \in {n} \X n.peers PROVE z \in {pair[x] : x \in n.peers}
      OBVIOUS
    <3>2. ASSUME NEW x \in n.peers PROVE pair[x] \in {n} \X n.peers
      OBVIOUS
    <3> HIDE DEF pair
    <3> QED
      BY <3>1, <3>2
  <2> QED
    BY <2>1, <2>2
<1>2. IsFiniteSet(All)
  <2>1. IsFiniteSet(nets)
    BY DEF Nets
  <2> HIDE DEF pairs
  <2> QED
    BY <1>1, <2>1, FiniteUnion
<1>3. IsFiniteSet(Some)
  <2>1. Some \in SUBSET All
    OBVIOUS
  <2> HIDE DEF Some, All
  <2> QED
    BY <1>2, <2>1, FS_Subset
<1>4. IsFiniteSet({point[p] : p \in Some})
  <2> HIDE DEF Some, point
  <2> QED
    BY <1>3, FiniteImage
<1>5. AccessPoints(nets) = {point[p] : p \in Some}
  <2>1. \A p \in Some : point[p] = [key |-> p[2].key, node |-> p[1].node, subnet |-> p[2].subnet]
    OBVIOUS
  <2>2. Some = {q \in UNION {{n} \X n.peers : n \in nets} :
                  ~q[2].direct /\ \A n \in nets : n.wg # q[2].key}
    OBVIOUS
  <2> HIDE DEF point, Some
  <2> QED
    BY <2>1, <2>2 DEF AccessPoints
<1> QED
  BY <1>4, <1>5

LEMMA ReservedFinite ==
  ASSUME NEW nets, IsFiniteSet(nets), NEW points, IsFiniteSet(points)
  PROVE  IsFiniteSet(Reserved(nets, points)) /\ IsFiniteSet(Subnets(nets))
<1> DEFINE f == [x \in nets \cup points |-> x.subnet]
<1>1. IsFiniteSet(nets \cup points)
  BY FS_Union
<1>2. IsFiniteSet({f[x] : x \in nets \cup points})
  <2> HIDE DEF f
  <2> QED
    BY <1>1, FiniteImage
<1>3. {f[x] : x \in nets \cup points} = Reserved(nets, points)
  BY DEF Reserved
<1>4. Subnets(nets) \in SUBSET Reserved(nets, points)
  BY DEF Subnets, Reserved
<1> QED
  BY <1>2, <1>3, <1>4, FS_Subset

LEMMA PeersFinite ==
  ASSUME NEW nets, IsFiniteSet(nets), NEW points, IsFiniteSet(points), NEW relay, NEW n
  PROVE  IsFiniteSet(Peers(n, nets, points, relay))
<1> DEFINE behind == [x \in HiddenNets(nets) |->
                        [key |-> x.wg, node |-> relay[x], subnet |-> x.subnet]]
           far == points \cup Behind(nets, relay)
           isHidden == n \in HiddenNets(nets)
           through(m) == {m.subnet} \cup {p.subnet : p \in {p \in far : p.node = m.node}}
           all == Reserved(nets, points) \ {n.subnet}
           Direct == {m \in nets : /\ m.node # n.node /\ m.node \notin Hidden
                                   /\ isHidden => m.node = relay[n]}
           Beside == {p \in far : p.node = n.node}
           direct == [m \in Direct |->
             [key |-> m.wg, subnet |-> m.subnet, direct |-> TRUE,
              routes |-> through(m) \cup (IF isHidden THEN all ELSE {})]]
           beside == [p \in Beside |->
             [key |-> p.key, subnet |-> p.subnet, direct |-> FALSE, routes |-> {p.subnet}]]
<1>1. IsFiniteSet(far)
  <2>1. HiddenNets(nets) \in SUBSET nets
    BY DEF HiddenNets
  <2>2. IsFiniteSet(HiddenNets(nets))
    BY <2>1, FS_Subset
  <2>3. IsFiniteSet({behind[x] : x \in HiddenNets(nets)})
    <3> HIDE DEF behind
    <3> QED
      BY <2>2, FiniteImage
  <2>4. {behind[x] : x \in HiddenNets(nets)} = Behind(nets, relay)
    BY DEF Behind
  <2> QED
    BY <2>3, <2>4, FS_Union
<1>2. IsFiniteSet({direct[m] : m \in Direct})
  <2>1. Direct \in SUBSET nets
    OBVIOUS
  <2> HIDE DEF Direct, direct
  <2>2. IsFiniteSet(Direct)
    BY <2>1, FS_Subset
  <2> QED
    BY <2>2, FiniteImage
<1>3. IsFiniteSet({beside[p] : p \in Beside})
  <2>1. Beside \in SUBSET far
    OBVIOUS
  <2> HIDE DEF Beside, beside, far
  <2>2. IsFiniteSet(Beside)
    BY <1>1, <2>1, FS_Subset
  <2> QED
    BY <2>2, FiniteImage
<1>4. {direct[m] : m \in Direct} =
        {[key |-> m.wg, subnet |-> m.subnet, direct |-> TRUE,
          routes |-> through(m) \cup (IF isHidden THEN all ELSE {})] : m \in Direct}
  <2> HIDE DEF Direct, through, all, isHidden
  <2> QED
    OBVIOUS
<1>5. {beside[p] : p \in Beside} =
        {[key |-> p.key, subnet |-> p.subnet, direct |-> FALSE, routes |-> {p.subnet}] :
           p \in Beside}
  <2> HIDE DEF Beside
  <2> QED
    OBVIOUS
<1>6. Peers(n, nets, points, relay) =
        {[key |-> m.wg, subnet |-> m.subnet, direct |-> TRUE,
          routes |-> through(m) \cup (IF isHidden THEN all ELSE {})] : m \in Direct}
        \cup {[key |-> p.key, subnet |-> p.subnet, direct |-> FALSE, routes |-> {p.subnet}] :
                p \in Beside}
  BY DEF Peers
<1> DEFINE left == {direct[m] : m \in Direct}
           right == {beside[p] : p \in Beside}
<1>7. Peers(n, nets, points, relay) = left \cup right
  <2> HIDE DEF direct, beside, Direct, Beside, through, all, isHidden
  <2> QED
    BY <1>4, <1>5, <1>6
<1> QED
  <2> HIDE DEF left, right
  <2>1. IsFiniteSet(left \cup right)
    <3>1. IsFiniteSet(left)
      BY <1>2 DEF left
    <3>2. IsFiniteSet(right)
      BY <1>3 DEF right
    <3> QED
      BY <3>1, <3>2, FS_Union
  <2> QED
    BY <1>7, <2>1

\* What joins the network is new, with subnets that nobody in it has.
LEMMA ExtensionFacts ==
  ASSUME NEW c \in Calls, NEW g, NEW known, Nets(view[c]), made \in Nat
  PROVE  LET ext == Extension(c, g, known) IN
         /\ IsFiniteSet(ext.joined) /\ IsFiniteSet(ext.granted)
         /\ \A j \in ext.joined : /\ j.key \in {made + 1, made + 3}
                                  /\ j.subnet \notin Subnets(view[c])
                                  /\ j.peers = {} /\ j.ips = {} /\ j.wg = j.key
         /\ \A i, j \in ext.joined : i # j => i.key # j.key /\ i.subnet # j.subnet
         /\ job[c].wish.node \in NodesOf(view[c] \cup ext.joined)
<1> DEFINE nets == view[c]
           n == job[c].wish.node
           taken == Reserved(nets, AccessPoints(nets))
           wants == job[c].wish.access /\ Gateways \cap NodesOf(nets) = {}
           self == wants /\ job[c].wish.via = n
           first == IF wants /\ ~self THEN {Joining(made + 1, g, taken)} ELSE {}
           granted ==
             IF wants /\ (self => ~known)
             THEN {[key |-> made + 2, node |-> IF self THEN n ELSE g, by |-> c,
                    at |-> IF self THEN made + 3 ELSE made + 1,
                    subnet |-> FirstFree(taken \cup {FirstFree(taken)})]}
             ELSE {}
           all == taken \cup (IF first = {} THEN {} ELSE Subnets(first \cup granted))
           second == IF n \in NodesOf(nets \cup first) THEN {} ELSE {Joining(made + 3, n, all)}
<1>1. Extension(c, g, known).joined = first \cup second
      /\ Extension(c, g, known).granted = granted
  BY DEF Extension
<1>2. IsFiniteSet(taken) /\ Subnets(nets) \subseteq taken
  <2>1. IsFiniteSet(nets) /\ IsFiniteSet(AccessPoints(nets))
    BY PointsFinite DEF Nets
  <2>2. IsFiniteSet(taken)
    <3> DEFINE points == AccessPoints(nets)
    <3>1. taken = Reserved(nets, points) /\ IsFiniteSet(points)
      BY <2>1
    <3> HIDE DEF points
    <3> QED
      BY <2>1, <3>1, ReservedFinite
  <2>3. Subnets(nets) \subseteq taken
    BY DEF Subnets, Reserved
  <2> QED
    BY <2>2, <2>3
<1> HIDE DEF taken, wants, self
<1>3. IsFiniteSet(first) /\ IsFiniteSet(granted)
  BY FS_Singleton, FS_EmptySet
<1>4. IsFiniteSet(all) /\ taken \subseteq all
      /\ \A x \in first : x.subnet \in all
  <2>1. IsFiniteSet(Subnets(first \cup granted))
    <3> HIDE DEF first, granted
    <3> DEFINE both == first \cup granted
    <3>1. IsFiniteSet(both)
      BY <1>3, FS_Union
    <3> HIDE DEF both
    <3>2. IsFiniteSet(Subnets(both))
      BY <3>1, FS_EmptySet, ReservedFinite
    <3> QED
      BY <3>2 DEF both
  <2>2. IsFiniteSet(taken \cup Subnets(first \cup granted))
    <3> HIDE DEF first, granted
    <3> QED
      BY <1>2, <2>1, FS_Union
  <2>3. CASE first = {}
    BY <1>2, <2>3
  <2>4. CASE first # {}
    <3> HIDE DEF first, granted
    <3>1. all = taken \cup Subnets(first \cup granted)
      BY <2>4
    <3> QED
      BY <2>2, <3>1 DEF Subnets
  <2> QED
    BY <2>3, <2>4
<1>5. FirstFree(taken) \notin taken /\ FirstFree(all) \notin all
  <2> HIDE DEF all
  <2> QED
    BY <1>2, <1>4, FreeIsFree
<1>6. \A x \in first : /\ x.key = made + 1 /\ x.subnet \notin taken
                       /\ x.peers = {} /\ x.ips = {} /\ x.wg = made + 1
                       /\ x = Joining(made + 1, g, taken)
  BY <1>5 DEF Joining
<1>7. \A x \in second : /\ x.key = made + 3 /\ x.subnet \notin all
                        /\ x.peers = {} /\ x.ips = {} /\ x.wg = made + 3
                        /\ x = Joining(made + 3, n, all)
  <2> HIDE DEF all, first
  <2> QED
    BY <1>5 DEF Joining
<1>8. IsFiniteSet(second)
  <2> HIDE DEF all, first
  <2> QED
    BY FS_Singleton, FS_EmptySet
<1>9. n \in NodesOf(nets \cup (first \cup second))
  <2> HIDE DEF first
  <2>1. CASE n \in NodesOf(nets \cup first)
    BY <2>1 DEF NodesOf
  <2>2. CASE n \notin NodesOf(nets \cup first)
    <3>1. second = {Joining(made + 3, n, all)}
      BY <2>2
    <3>2. Joining(made + 3, n, all).node = n
      BY DEF Joining
    <3> QED
      BY <3>1, <3>2 DEF NodesOf
  <2> QED
    BY <2>1, <2>2
<1> DEFINE joined == first \cup second
<1>10. /\ IsFiniteSet(joined)
       /\ \A j \in joined : /\ j.key \in {made + 1, made + 3}
                            /\ j.subnet \notin Subnets(nets)
                            /\ j.peers = {} /\ j.ips = {} /\ j.wg = j.key
       /\ \A i, j \in joined : i # j => i.key # j.key /\ i.subnet # j.subnet
  <2> HIDE DEF first, second, all
  <2>1. IsFiniteSet(joined)
    BY <1>3, <1>8, FS_Union
  <2>2. \A i \in first, j \in second : i.key # j.key /\ i.subnet # j.subnet
    BY <1>4, <1>6, <1>7
  <2>3. \A i, j \in joined : i # j => i.key # j.key /\ i.subnet # j.subnet
    BY <1>6, <1>7, <2>2
  <2> QED
    BY <1>2, <1>4, <1>6, <1>7, <2>1, <2>3
<1>11. /\ Extension(c, g, known).joined = joined
       /\ job[c].wish.node \in NodesOf(view[c] \cup joined)
  BY <1>1, <1>9
<1> HIDE DEF joined, granted, nets
<1> QED
  <2>1. Extension(c, g, known).granted = granted
    BY <1>1
  <2>2. Subnets(nets) = Subnets(view[c])
    BY DEF nets
  <2> DEFINE ext == Extension(c, g, known)
  <2>3. ext.joined = joined /\ ext.granted = granted
    BY <1>11, <2>1
  <2> HIDE DEF ext
  <2>4. /\ IsFiniteSet(ext.joined) /\ IsFiniteSet(ext.granted)
        /\ \A j \in ext.joined : /\ j.key \in {made + 1, made + 3}
                                 /\ j.subnet \notin Subnets(view[c])
                                 /\ j.peers = {} /\ j.ips = {} /\ j.wg = j.key
        /\ \A i, j \in ext.joined : i # j => i.key # j.key /\ i.subnet # j.subnet
        /\ job[c].wish.node \in NodesOf(view[c] \cup ext.joined)
    BY <1>3, <1>10, <1>11, <2>2, <2>3
  <2> QED
    BY <2>4 DEF ext

\* A workload is one of a node that was loaded or that joins, all of which get one.
LEMMA WorkloadsFacts ==
  ASSUME NEW c \in Calls, Nets(view[c]), NEW ext, NEW relay, NEW known,
         NEW lead \in Leads(view[c] \cup ext.joined),
         IsFiniteSet(ext.joined), IsFiniteSet(ext.granted), \A j \in ext.joined : j.peers = {}
  PROVE  LET put == Workloads(c, ext, lead, relay, known) IN
         /\ \A w \in put : /\ IsFiniteSet(w.peers)
                           /\ \E n \in view[c] \cup ext.joined :
                                w.key = n.key /\ w.node = n.node /\ w.subnet = n.subnet
         /\ \A j \in ext.joined : \E w \in put : w.key = j.key
<1> DEFINE nets == view[c] \cup ext.joined
           user == [u \in ext.granted |-> [key |-> u.key, node |-> u.node, subnet |-> u.subnet]]
           points == AccessPoints(view[c]) \cup
             {[key |-> u.key, node |-> u.node, subnet |-> u.subnet] : u \in ext.granted}
           ones == IF ext.joined = {} THEN {}
                   ELSE ext.joined \cup (IF known THEN view[c] ELSE {})
<1>1. IsFiniteSet(nets)
  BY FS_Union DEF Nets
<1>2. IsFiniteSet(points)
  <2>1. {user[u] : u \in ext.granted} =
          {[key |-> u.key, node |-> u.node, subnet |-> u.subnet] : u \in ext.granted}
    OBVIOUS
  <2>2. IsFiniteSet({user[u] : u \in ext.granted})
    <3> HIDE DEF user
    <3> QED
      BY FiniteImage
  <2>3. IsFiniteSet(AccessPoints(view[c]))
    BY PointsFinite
  <2>4. IsFiniteSet({[key |-> u.key, node |-> u.node, subnet |-> u.subnet] : u \in ext.granted})
    BY <2>1, <2>2, Zenon
  <2> DEFINE a == AccessPoints(view[c])
             b == {[key |-> u.key, node |-> u.node, subnet |-> u.subnet] : u \in ext.granted}
  <2>5. IsFiniteSet(a) /\ IsFiniteSet(b)
    BY <2>3, <2>4, Zenon
  <2>6. points = a \cup b
    OBVIOUS
  <2> HIDE DEF a, b, points
  <2> QED
    BY <2>5, <2>6, FS_Union
<1>3. Workloads(c, ext, lead, relay, known) =
        {[key |-> n.key, node |-> n.node, subnet |-> n.subnet,
          wg |-> lead[n.subnet].wg, peers |-> Peers(lead[n.subnet], nets, points, relay)] : n \in ones}
  BY DEF Workloads
<1>4. ones \subseteq nets /\ ext.joined \subseteq ones
  OBVIOUS
<1>5. \A n \in ones : IsFiniteSet(Peers(lead[n.subnet], nets, points, relay))
  <2> HIDE DEF nets, points, ones
  <2> QED
    BY <1>1, <1>2, PeersFinite
<1> DEFINE put == Workloads(c, ext, lead, relay, known)
<1>6. \A w \in put : \E n \in ones :
        w = [key |-> n.key, node |-> n.node, subnet |-> n.subnet,
             wg |-> lead[n.subnet].wg, peers |-> Peers(lead[n.subnet], nets, points, relay)]
  BY <1>3
<1>7. \A n \in ones : \E w \in put : w.key = n.key
  <2> SUFFICES ASSUME NEW n \in ones PROVE \E w \in put : w.key = n.key
    OBVIOUS
  <2> DEFINE w == [key |-> n.key, node |-> n.node, subnet |-> n.subnet,
                   wg |-> lead[n.subnet].wg, peers |-> Peers(lead[n.subnet], nets, points, relay)]
  <2>1. w \in put
    BY <1>3
  <2>2. w.key = n.key
    OBVIOUS
  <2> QED
    BY <2>1, <2>2, Zenon
<1> HIDE DEF nets, points, ones, put
<1>8. ASSUME NEW w \in put
      PROVE  /\ IsFiniteSet(w.peers)
             /\ \E n \in nets : w.key = n.key /\ w.node = n.node /\ w.subnet = n.subnet
  <2>1. PICK n \in ones : w = [key |-> n.key, node |-> n.node, subnet |-> n.subnet,
                               wg |-> lead[n.subnet].wg, peers |-> Peers(lead[n.subnet], nets, points, relay)]
    BY <1>6
  <2>2. /\ w.key = n.key /\ w.node = n.node /\ w.subnet = n.subnet
        /\ w.peers = Peers(lead[n.subnet], nets, points, relay)
    BY <2>1
  <2> QED
    BY <1>4, <1>5, <2>2
<1> QED
  BY <1>4, <1>7, <1>8 DEF nets, put

-----------------------------------------------------------------------------
(* The inductive invariant.                                                  *)

States == {"idle", "asking", "loading", "sending", "saving"} \cup Over

\* The nodes a call has loaded, the contracts it has made, those of them whose
\* workload it is still to send, and those it has cancelled.
Keys(c) == {n.key : n \in view[c]}
New(c) == plan[c].new
Pending(c) == {k \in todo[c] : pc[c] = "sending" /\ k \in New(c)}
Dropped(c) == plan[c].drop

MapsOK ==
  /\ pc = [c \in Calls |-> pc[c]] /\ job = [c \in Calls |-> job[c]]
  /\ answer = [c \in Calls |-> answer[c]] /\ todo = [c \in Calls |-> todo[c]]
  /\ view = [c \in Calls |-> view[c]] /\ plan = [c \in Calls |-> plan[c]]
  /\ before = [c \in Calls |-> before[c]]
  /\ \A c \in Calls : job[c].op = "deploy" => job[c].wish \in Wishes

WorldOK ==
  /\ made \in Nat /\ crashes \in 0 .. MaxCrashes
  /\ chain \subseteq 1 .. made /\ indexed \subseteq 1 .. made
  /\ newContracts \subseteq 1 .. made /\ deletedContracts \subseteq 1 .. made
  /\ DOMAIN carried \subseteq chain \ deletedContracts
  /\ IsFiniteSet(machines)

\* A contract that is in the index or on the list, if there is one.
Known(k) == forgotten = {} /\ k \in chain => k \in indexed \cup newContracts

\* A workload on a node is of a call that made its contract; once that is over
\* the contract is in the index or on the list.
CarriedOK(k) ==
  LET w == carried[k] IN
  /\ w = [node |-> w.node, subnet |-> w.subnet, wg |-> w.wg, peers |-> w.peers, by |-> w.by]
  /\ IsFiniteSet(w.peers)
  /\ w.by \in Calls
  /\ \/ pc[w.by] = "sending" /\ k \in New(w.by)
     \/ pc[w.by] \in Over /\ (forgotten = {} => k \in indexed \cup newContracts)

MachineOK(m) ==
  /\ m.at \in 1 .. made
  /\ m.by \in Calls /\ pc[m.by] \in Over
  /\ m.at \in DOMAIN carried => m.node = carried[m.at].node
  /\ Known(m.at)
  /\ \A c \in Calls : m.at \notin Pending(c)

\* What a call has loaded is what the nodes have, as far as they still have it,
\* with the machines of the calls before.
ViewOK(c) ==
  /\ IsFiniteSet(view[c])
  /\ pc[c] \notin {"loading", "sending", "saving"} => view[c] = {}
  /\ \A n \in view[c] :
       /\ n.key \in 1 .. made /\ Known(n.key)
       /\ pc[c] = "loading" => n.key \notin todo[c]
       /\ IsFiniteSet(n.peers) /\ IsFiniteSet(n.ips)
       /\ n.key \in DOMAIN carried =>
            n.node = carried[n.key].node /\ n.subnet = carried[n.key].subnet
       /\ \A m \in machines : m.by \in before[c] /\ (m.at = n.key \/ m.node = n.node) =>
            m.ip \in n.ips
       /\ \A x \in view[c] : x.key = n.key => x = n

\* A call that was over when c began has made the contract or has a machine there.
Since(k, c) ==
  carried[k].by \in before[c] \/ \E m \in machines : m.at = k /\ m.by \in before[c]

\* A call finds every workload of the calls that were over when it began, or that
\* they have a machine at.
ListedOK(c) ==
  /\ pc[c] \in States
  /\ todo[c] \subseteq 1 .. made
  /\ before[c] \subseteq {d \in Calls : pc[d] \in Over}
  /\ answer[c] \subseteq 1 .. made /\ answer[c] \cap chain \subseteq indexed
  /\ pc[c] = "loading" => \A k \in todo[c] : Known(k)
  /\ forgotten = {} => \A k \in DOMAIN carried : Since(k, c) =>
       /\ pc[c] = "asking" => k \in answer[c] \cup newContracts
       /\ pc[c] = "loading" => k \in todo[c] \cup Keys(c)

\* A call has nobody's subnet for a node that joins, nor anybody's address for its
\* machine, but of calls under way at once.
FormOK(c) ==
  /\ pc[c] # "sending" => New(c) = {} /\ plan[c].machine = {}
  /\ plan[c] = [put |-> plan[c].put, new |-> New(c), machine |-> plan[c].machine,
                users |-> plan[c].users, drop |-> Dropped(c)]
  /\ New(c) \subseteq 1 .. made /\ Dropped(c) \subseteq 1 .. made
  /\ Pending(c) \subseteq chain \ (DOMAIN carried \cup deletedContracts)
  /\ Dropped(c) \cap DOMAIN carried = {}

PutOK(c) ==
  pc[c] = "sending" =>
    /\ todo[c] \cup New(c) \subseteq {w.key : w \in plan[c].put}
    /\ \A w \in plan[c].put :
         /\ IsFiniteSet(w.peers)
         /\ w.key \in New(c) \cup Keys(c)
         /\ w.key \in DOMAIN carried =>
              w.node = carried[w.key].node /\ w.subnet = carried[w.key].subnet
         /\ w.key \in New(c) =>
              /\ \A x \in plan[c].put :
                   IF x.key = w.key THEN x.node = w.node /\ x.subnet = w.subnet
                   ELSE x.key \in New(c) => x.subnet # w.subnet
              /\ forgotten = {} => \A k \in DOMAIN carried :
                   k # w.key /\ carried[k].subnet = w.subnet => AtOnce(carried[k].by, c)

\* The machine m is in the way of p.
Clash(m, p) ==
  /\ m.node = p.node /\ m.ip = p.ip
  /\ m.at = p.at \/ (forgotten = {} /\ m.at \in DOMAIN carried)

SiteOK(c) ==
  \A p \in plan[c].machine :
    /\ p.by = c
    /\ p.at \in 1 .. made /\ p.at \in New(c) \cup Keys(c)
    /\ p.at \in New(c) \/ Known(p.at)
    /\ p.at \in DOMAIN carried => p.node = carried[p.at].node
    /\ \A w \in plan[c].put : w.key = p.at => w.node = p.node
    /\ \A m \in machines : Clash(m, p) => AtOnce(m.by, c)
    /\ plan[c].machine = {p}

PlanOK(c) == FormOK(c) /\ PutOK(c) /\ SiteOK(c)

\* What one call has not sent yet, no other has seen.
PairOK(c, d) ==
  /\ Pending(c) \cap (Keys(d) \cup Dropped(d)) = {}
  /\ c # d => New(c) \cap New(d) = {}

CallOK(c) == ViewOK(c) /\ ListedOK(c) /\ PlanOK(c)

IInv ==
  /\ MapsOK /\ WorldOK
  /\ \A k \in DOMAIN carried : CarriedOK(k)
  /\ \A m \in machines : MachineOK(m)
  /\ \A c \in Calls : CallOK(c)
  /\ \A c, d \in Calls : PairOK(c, d)
  /\ SubnetsApart /\ AddressesApart

-----------------------------------------------------------------------------
(* The initial state, and what a step of one call leaves to the others.      *)

LEMMA InitInv == Init => IInv
<1> SUFFICES ASSUME Init PROVE IInv
  OBVIOUS
<1> USE DEF Init
<1>1. MapsOK /\ WorldOK
  BY NetworkAssumption, FS_EmptySet DEF MapsOK, WorldOK, NoJob
<1>2. DOMAIN carried = {} /\ machines = {}
  OBVIOUS
<1>3. ASSUME NEW c \in Calls PROVE CallOK(c)
  <2>1. ViewOK(c) /\ ListedOK(c)
    BY <1>2, FS_EmptySet DEF ViewOK, ListedOK, States
  <2>2. PlanOK(c)
    BY <1>2 DEF PlanOK, FormOK, PutOK, SiteOK, NoPlan, New, Pending, Dropped
  <2> QED
    BY <2>1, <2>2 DEF CallOK
<1>4. \A c, d \in Calls : PairOK(c, d)
  BY DEF PairOK, Pending, New, NoPlan
<1>5. SubnetsApart /\ AddressesApart
  BY <1>2 DEF SubnetsApart, AddressesApart
<1> QED
  BY <1>1, <1>2, <1>3, <1>4, <1>5 DEF IInv

LEMMA StutterInv == ASSUME IInv, UNCHANGED vars PROVE IInv'
<1> USE DEF vars, world, lists, local, history
<1>1. MapsOK' /\ WorldOK'
  BY DEF IInv, MapsOK, WorldOK
<1>2. \A k \in DOMAIN carried : CarriedOK(k)'
  BY DEF IInv, CarriedOK, New
<1>3. \A m \in machines : MachineOK(m)'
  BY DEF IInv, MachineOK, Pending, New, Known
<1>4. ASSUME NEW c \in Calls PROVE CallOK(c)'
  <2>1. ViewOK(c)'
    BY DEF IInv, CallOK, ViewOK, Known
  <2>2. ListedOK(c)'
    BY DEF IInv, CallOK, ListedOK, Keys, Known, Since
  <2>3. PlanOK(c)'
    <3>1. FormOK(c)' /\ PutOK(c)'
      BY DEF IInv, CallOK, PlanOK, FormOK, PutOK, Keys, New, Pending, Dropped, AtOnce
    <3>2. SiteOK(c)'
      BY DEF IInv, CallOK, PlanOK, SiteOK, Keys, New, AtOnce, Known, Clash
    <3> QED
      BY <3>1, <3>2 DEF PlanOK
  <2> QED
    BY <2>1, <2>2, <2>3 DEF CallOK
<1>5. \A c, d \in Calls : PairOK(c, d)'
  BY DEF IInv, PairOK, Keys, New, Pending, Dropped
<1>6. SubnetsApart' /\ AddressesApart'
  BY DEF IInv, SubnetsApart, AddressesApart, AtOnce
<1> QED
  BY <1>1, <1>2, <1>3, <1>4, <1>5, <1>6 DEF IInv

\* A workload that is still on its node, as it was but for its peers.
Stays(k) ==
  /\ k \in DOMAIN carried
  /\ carried'[k].node = carried[k].node /\ carried'[k].subnet = carried[k].subnet
  /\ carried'[k].by = carried[k].by

LEMMA Elsewhere ==
  ASSUME IInv, NEW d \in Calls,
         pc'[d] = pc[d], answer'[d] = answer[d], todo'[d] = todo[d], view'[d] = view[d],
         plan'[d] = plan[d], before'[d] = before[d],
         \A e \in Calls : pc[e] # "idle" => before'[e] = before[e],
         \A e \in Calls : pc[e] \in Over => pc'[e] \in Over,
         made' \in Nat, made <= made', chain' \cap (1 .. made) \subseteq chain,
         \A k \in DOMAIN carried' :
           \/ Stays(k)
           \/ /\ k \notin New(d) \cup Keys(d) \cup Dropped(d) /\ carried'[k].by \notin before[d]
              /\ pc[d] = "sending" => AtOnce(carried[k].by, d)'
              /\ \A m \in machines' : m.at # k,
         \A k \in 1 .. made : Known(k) => Known(k)',
         Pending(d) \subseteq chain' \ deletedContracts',
         \A m \in machines' :
           \/ m \in machines
           \/ /\ m.by \notin before[d]
              /\ pc[d] = "sending" => AtOnce(m.by, d)',
         answer[d] \cap chain' \subseteq indexed',
         forgotten' = {} => /\ forgotten = {}
                            /\ pc[d] = "asking" => newContracts \ newContracts' \subseteq answer[d]
  PROVE  CallOK(d)'
<1>1. ViewOK(d) /\ ListedOK(d) /\ PlanOK(d)
  BY DEF IInv, CallOK
<1>2. /\ Keys(d)' = Keys(d) /\ New(d)' = New(d) /\ Pending(d)' = Pending(d)
      /\ Dropped(d)' = Dropped(d)
  BY DEF Keys, New, Pending, Dropped
<1>3. 1 .. made \subseteq 1 .. made'
  BY DEF IInv, WorldOK
<1>4. ASSUME NEW b \in Calls, pc[b] # "idle", pc[d] # "idle", AtOnce(b, d)
      PROVE  AtOnce(b, d)'
  BY <1>4 DEF AtOnce
<1>5. /\ \A k \in DOMAIN carried : carried[k].by \in Calls /\ pc[carried[k].by] # "idle"
      /\ \A m \in machines : m.by \in Calls /\ pc[m.by] # "idle"
  BY DEF IInv, CarriedOK, MachineOK, Over
<1>6. ViewOK(d)'
  <2> SUFFICES ASSUME NEW n \in view[d]
               PROVE  /\ n.key \in DOMAIN carried' =>
                           n.node = carried'[n.key].node /\ n.subnet = carried'[n.key].subnet
                      /\ \A m \in machines' :
                           m.by \in before[d] /\ (m.at = n.key \/ m.node = n.node) => m.ip \in n.ips
    BY <1>1, <1>3 DEF ViewOK
  <2>1. n.key \in Keys(d)
    BY DEF Keys
  <2> QED
    BY <1>1, <2>1 DEF ViewOK, Stays
<1>7. ListedOK(d)'
  <2>1. /\ pc[d] \in States /\ todo[d] \subseteq 1 .. made'
        /\ before[d] \subseteq {e \in Calls : pc'[e] \in Over}
        /\ answer[d] \subseteq 1 .. made' /\ answer[d] \cap chain' \subseteq indexed'
        /\ pc[d] = "loading" => \A k \in todo[d] : Known(k)'
    BY <1>1, <1>3 DEF ListedOK
  <2>2. ASSUME forgotten' = {}, NEW k \in DOMAIN carried', Since(k, d)'
        PROVE  /\ pc[d] = "asking" => k \in answer[d] \cup newContracts'
               /\ pc[d] = "loading" => k \in todo[d] \cup Keys(d)
    <3>1. Stays(k) /\ Since(k, d)
      BY <2>2 DEF Stays, Since
    <3> QED
      BY <1>1, <2>2, <3>1 DEF ListedOK, Stays
  <2> QED
    BY <1>2, <2>1, <2>2 DEF ListedOK
<1>8. PlanOK(d)'
  <2>1. /\ pc[d] # "sending" => New(d) = {} /\ plan[d].machine = {}
        /\ plan[d] = [put |-> plan[d].put, new |-> New(d), machine |-> plan[d].machine,
                      users |-> plan[d].users, drop |-> Dropped(d)]
        /\ New(d) \subseteq 1 .. made' /\ Dropped(d) \subseteq 1 .. made'
    BY <1>1, <1>3 DEF PlanOK, FormOK, PutOK, SiteOK
  <2>2. Pending(d) \subseteq chain' \ (DOMAIN carried' \cup deletedContracts')
    BY <1>1 DEF PlanOK, FormOK, PutOK, SiteOK, Stays, Pending
  <2>3. Dropped(d) \cap DOMAIN carried' = {}
    BY <1>1 DEF PlanOK, FormOK, PutOK, SiteOK, Stays
  <2>4. ASSUME pc[d] = "sending", NEW w \in plan[d].put
        PROVE  /\ w.key \in DOMAIN carried' =>
                    w.node = carried'[w.key].node /\ w.subnet = carried'[w.key].subnet
               /\ w.key \in New(d) /\ forgotten' = {} => \A k \in DOMAIN carried' :
                    k # w.key /\ carried'[k].subnet = w.subnet => AtOnce(carried[k].by, d)'
    <3>1. w.key \in New(d) \cup Keys(d)
      BY <1>1, <2>4 DEF PlanOK, FormOK, PutOK, SiteOK
    <3>2. w.key \in DOMAIN carried' =>
            w.node = carried'[w.key].node /\ w.subnet = carried'[w.key].subnet
      BY <1>1, <2>4, <3>1 DEF PlanOK, FormOK, PutOK, SiteOK, Stays
    <3>3. ASSUME w.key \in New(d), forgotten' = {}, NEW k \in DOMAIN carried',
                 k # w.key, carried'[k].subnet = w.subnet
          PROVE  AtOnce(carried[k].by, d)'
      <4>1. CASE ~Stays(k)
        BY <2>4, <3>3, <4>1
      <4>2. CASE Stays(k)
        <5> DEFINE b == carried[k].by
        <5>1. k \in DOMAIN carried /\ carried[k].subnet = w.subnet /\ carried'[k].by = b
          BY <3>3, <4>2 DEF Stays
        <5>2. b \in Calls /\ pc[b] # "idle" /\ AtOnce(b, d)
          BY <1>1, <1>5, <2>4, <3>3, <5>1 DEF PlanOK, FormOK, PutOK, SiteOK
        <5>3. PICK x \in Calls : x = b /\ pc[x] # "idle" /\ AtOnce(x, d)
          BY <5>2
        <5>4. AtOnce(x, d)'
          BY <1>4, <2>4, <5>3
        <5> QED
          BY <5>1, <5>3, <5>4 DEF AtOnce
      <4> QED
        BY <4>1, <4>2
    <3> QED
      BY <3>2, <3>3
  <2>5. ASSUME NEW p \in plan[d].machine
        PROVE  /\ p.at \in 1 .. made' /\ (p.at \in New(d) \/ Known(p.at)')
               /\ p.at \in DOMAIN carried' => p.node = carried'[p.at].node
               /\ \A m \in machines' : Clash(m, p)' => AtOnce(m.by, d)'
    <3>1. /\ p.at \in 1 .. made /\ p.at \in New(d) \cup Keys(d) /\ pc[d] = "sending"
          /\ p.at \in New(d) \/ Known(p.at)
      BY <1>1 DEF PlanOK, FormOK, PutOK, SiteOK
    <3>2. p.at \in DOMAIN carried' => p.node = carried'[p.at].node
      BY <1>1, <3>1 DEF PlanOK, FormOK, PutOK, SiteOK, Stays
    <3>3. ASSUME NEW m \in machines', Clash(m, p)' PROVE AtOnce(m.by, d)'
      <4>1. CASE m \notin machines
        BY <3>1, <4>1
      <4>2. CASE m \in machines
        <5>1. Clash(m, p)
          <6>1. m.at \in DOMAIN carried' => m.at \in DOMAIN carried
            BY DEF Stays
          <6> QED
            BY <3>3, <6>1 DEF Clash
        <5>2. AtOnce(m.by, d)
          BY <1>1, <4>2, <5>1 DEF PlanOK, SiteOK
        <5> QED
          BY <1>4, <1>5, <3>1, <4>2, <5>2
      <4> QED
        BY <4>1, <4>2
    <3> QED
      BY <1>3, <3>1, <3>2, <3>3
  <2> QED
    BY <1>1, <1>2, <2>1, <2>2, <2>3, <2>4, <2>5 DEF PlanOK, FormOK, PutOK, SiteOK
<1> QED
  BY <1>6, <1>7, <1>8 DEF CallOK

\* A step of c that touches nothing but what c keeps for itself and the lists.
LEMMA Locally ==
  ASSUME IInv, NEW c \in Calls,
         UNCHANGED <<made, chain, carried, machines, indexed, deletedContracts, crashes>>,
         newContracts' \subseteq newContracts,
         (newContracts \ newContracts') \cap chain \subseteq indexed,
         \A d \in Calls \ {c} :
           /\ pc'[d] = pc[d] /\ answer'[d] = answer[d] /\ todo'[d] = todo[d]
           /\ view'[d] = view[d] /\ plan'[d] = plan[d] /\ before'[d] = before[d]
           /\ pc[d] = "asking" /\ forgotten' = {} =>
                newContracts \ newContracts' \subseteq answer[d],
         pc[c] # "idle" => before'[c] = before[c],
         forgotten' = {} => forgotten = {},
         MapsOK', CallOK(c)',
         pc[c] \in {"idle", "asking", "loading"}, pc'[c] # "sending",
         New(c)' = {}, Dropped(c)' \subseteq Dropped(c),
         Keys(c)' \subseteq DOMAIN carried \cup Keys(c)
  PROVE  IInv'
<1>1. /\ \A e \in Calls : pc[e] # "idle" => before'[e] = before[e]
      /\ \A e \in Calls : pc[e] \in Over => pc'[e] \in Over
  BY DEF Over
<1>2. WorldOK'
  BY DEF IInv, WorldOK
<1>3. \A d \in Calls \ {c} : /\ Keys(d)' = Keys(d) /\ New(d)' = New(d) /\ Pending(d)' = Pending(d)
                             /\ Dropped(d)' = Dropped(d)
  BY DEF Keys, New, Pending, Dropped
<1>4. Pending(c)' = {}
  BY DEF Pending
<1>5. \A k : Known(k) => Known(k)'
  BY DEF Known
<1>6. ASSUME NEW d \in Calls \ {c} PROVE CallOK(d)'
  <2>1. Pending(d) \subseteq chain' \ deletedContracts'
    BY DEF IInv, CallOK, PlanOK, FormOK, PutOK, SiteOK
  <2>2. answer[d] \cap chain' \subseteq indexed'
    BY DEF IInv, CallOK, ListedOK
  <2>3. \A k \in DOMAIN carried' : Stays(k)
    BY DEF Stays
  <2>4. made' \in Nat /\ made <= made' /\ chain' \cap (1 .. made) \subseteq chain
    BY DEF IInv, WorldOK
  <2>5. forgotten' = {} => /\ forgotten = {}
                           /\ pc[d] = "asking" => newContracts \ newContracts' \subseteq answer[d]
    OBVIOUS
  <2> QED
    BY <1>1, <1>5, <2>1, <2>2, <2>3, <2>4, <2>5, Elsewhere
<1>7. ASSUME NEW k \in DOMAIN carried PROVE CarriedOK(k)'
  <2> DEFINE w == carried[k]
  <2>1. CarriedOK(k)
    BY DEF IInv
  <2>2. w.by \in Calls /\ w.by # c
    BY <2>1 DEF CarriedOK, Over
  <2>3. k \in chain
    BY DEF IInv, WorldOK
  <2>4. pc'[w.by] = pc[w.by] /\ New(w.by)' = New(w.by)
    BY <1>3, <2>2 DEF New
  <2>5. forgotten' = {} /\ k \in indexed \cup newContracts => k \in indexed' \cup newContracts'
    BY <2>3
  <2> QED
    BY <2>1, <2>2, <2>4, <2>5 DEF CarriedOK, New
<1>8. ASSUME NEW m \in machines PROVE MachineOK(m)'
  <2>1. MachineOK(m)
    BY DEF IInv
  <2>2. m.by # c /\ m.by \in Calls
    BY <2>1 DEF MachineOK, Over
  <2>3. \A d \in Calls : m.at \notin Pending(d)'
    BY <1>3, <1>4, <2>1 DEF MachineOK
  <2> QED
    BY <1>5, <2>1, <2>2, <2>3 DEF MachineOK
<1>9. ASSUME NEW d \in Calls, NEW e \in Calls PROVE PairOK(d, e)'
  <2>1. PairOK(d, e) /\ PairOK(d, c)
    BY DEF IInv
  <2>2. Pending(d) \cap DOMAIN carried = {}
    BY DEF IInv, CallOK, PlanOK, FormOK, PutOK, SiteOK
  <2>3. /\ d # c => Pending(d)' = Pending(d) /\ New(d)' = New(d)
        /\ e # c => New(e)' = New(e) /\ Keys(e)' = Keys(e) /\ Dropped(e)' = Dropped(e)
    BY <1>3
  <2>4. Pending(d)' \cap (Keys(e)' \cup Dropped(e)') = {}
    BY <1>4, <2>1, <2>2, <2>3 DEF PairOK
  <2>5. d # e => New(d)' \cap New(e)' = {}
    BY <2>1, <2>3 DEF PairOK
  <2> QED
    BY <2>4, <2>5 DEF PairOK
<1>10. SubnetsApart' /\ AddressesApart'
  <2>1. ASSUME NEW x \in Calls, NEW y \in Calls, pc[x] # "idle", pc[y] # "idle", AtOnce(x, y)
        PROVE  AtOnce(x, y)'
    BY <1>1, <2>1 DEF AtOnce
  <2>2. /\ \A k \in DOMAIN carried : carried[k].by \in Calls /\ pc[carried[k].by] # "idle"
        /\ \A m \in machines : m.by \in Calls /\ pc[m.by] # "idle"
    BY DEF IInv, CarriedOK, MachineOK, Over
  <2>3. SubnetsApart /\ AddressesApart
    BY DEF IInv
  <2>4. \A x, y \in Calls : pc[x] # "idle" /\ pc[y] # "idle" /\ AtOnce(x, y) => AtOnce(x, y)'
    BY <2>1
  <2>5. SubnetsApart'
    BY <2>2, <2>3, <2>4 DEF SubnetsApart, AtOnce
  <2>6. AddressesApart'
    BY <2>2, <2>3, <2>4 DEF AddressesApart, AtOnce
  <2> QED
    BY <2>5, <2>6
<1> QED
  BY <1>2, <1>6, <1>7, <1>8, <1>9, <1>10 DEF IInv

\* An assignment at c.
LEMMA Assigned ==
  ASSUME NEW f, f = [d \in Calls |-> f[d]], NEW c \in Calls, NEW x,
         NEW g, g = [f EXCEPT ![c] = x]
  PROVE  /\ g = [d \in Calls |-> g[d]]
         /\ g[c] = x
         /\ \A d \in Calls \ {c} : g[d] = f[d]
OBVIOUS

-----------------------------------------------------------------------------
(* The steps of a call before it plans, and its failure.                     *)

LEMMA EndMaps ==
  ASSUME MapsOK, NEW c \in Calls, NEW how, End(c, how), before' = before
  PROVE  /\ MapsOK'
         /\ pc'[c] = how /\ answer'[c] = {} /\ todo'[c] = {} /\ view'[c] = {}
         /\ plan'[c] = NoPlan
         /\ \A d \in Calls \ {c} :
              /\ pc'[d] = pc[d] /\ answer'[d] = answer[d] /\ todo'[d] = todo[d]
              /\ view'[d] = view[d] /\ plan'[d] = plan[d]
<1> USE DEF End, MapsOK
<1>1. pc' = [d \in Calls |-> pc'[d]] /\ pc'[c] = how /\ \A d \in Calls \ {c} : pc'[d] = pc[d]
  BY Assigned
<1>2. /\ job' = [d \in Calls |-> job'[d]]
      /\ \A d \in Calls : job'[d].op = "deploy" => job'[d].wish \in Wishes
  <2>1. /\ job' = [d \in Calls |-> job'[d]] /\ job'[c] = NoJob
        /\ \A d \in Calls \ {c} : job'[d] = job[d]
    BY Assigned
  <2>2. NoJob.op # "deploy"
    BY DEF NoJob
  <2> QED
    BY <2>1, <2>2
<1>3. /\ answer' = [d \in Calls |-> answer'[d]] /\ answer'[c] = {}
      /\ \A d \in Calls \ {c} : answer'[d] = answer[d]
  BY Assigned
<1>4. /\ todo' = [d \in Calls |-> todo'[d]] /\ todo'[c] = {}
      /\ \A d \in Calls \ {c} : todo'[d] = todo[d]
  BY Assigned
<1>5. /\ view' = [d \in Calls |-> view'[d]] /\ view'[c] = {}
      /\ \A d \in Calls \ {c} : view'[d] = view[d]
  BY Assigned
<1>6. /\ plan' = [d \in Calls |-> plan'[d]] /\ plan'[c] = NoPlan
      /\ \A d \in Calls \ {c} : plan'[d] = plan[d]
  BY Assigned
<1> QED
  BY <1>1, <1>2, <1>3, <1>4, <1>5, <1>6

\* A call that is over keeps nothing.
LEMMA OverOK ==
  ASSUME NEW c \in Calls, pc'[c] \in Over, answer'[c] = {}, todo'[c] = {}, view'[c] = {},
         plan'[c] = NoPlan, before'[c] \subseteq {d \in Calls : pc'[d] \in Over}
  PROVE  CallOK(c)' /\ New(c)' = {} /\ Dropped(c)' = {} /\ Keys(c)' = {} /\ Pending(c)' = {}
<1>1. ViewOK(c)'
  BY FS_EmptySet DEF ViewOK, Over
<1>2. ListedOK(c)'
  BY DEF ListedOK, Over, States
<1>3. PlanOK(c)' /\ New(c)' = {} /\ Dropped(c)' = {} /\ Pending(c)' = {}
  BY DEF PlanOK, FormOK, PutOK, SiteOK, NoPlan, New, Pending, Dropped, Over
<1>4. Keys(c)' = {}
  BY DEF Keys
<1> QED
  BY <1>1, <1>2, <1>3, <1>4 DEF CallOK

LEMMA FailInv == ASSUME IInv, NEW c \in Calls, pc[c] = "loading", Fail(c) PROVE IInv'
<1> USE DEF Fail, world, lists, history
<1>1. /\ MapsOK' /\ pc'[c] = "failed" /\ answer'[c] = {} /\ todo'[c] = {} /\ view'[c] = {}
      /\ plan'[c] = NoPlan
      /\ \A d \in Calls \ {c} :
           /\ pc'[d] = pc[d] /\ answer'[d] = answer[d] /\ todo'[d] = todo[d]
           /\ view'[d] = view[d] /\ plan'[d] = plan[d]
  BY EndMaps DEF IInv
<1>2. before'[c] \subseteq {d \in Calls : pc'[d] \in Over}
  BY <1>1 DEF IInv, CallOK, ListedOK, Over
<1>3. CallOK(c)' /\ New(c)' = {} /\ Dropped(c)' = {} /\ Keys(c)' = {}
  BY <1>1, <1>2, OverOK DEF Over
<1> QED
  BY <1>1, <1>3, Locally

LEMMA AskInv == ASSUME IInv, NEW c \in Calls, Ask(c) PROVE IInv'
<1> USE DEF Ask, world, lists
<1>1. /\ MapsOK' /\ pc[c] = "idle" /\ pc'[c] = "asking"
      /\ before'[c] = {d \in Calls : pc[d] \in Over} /\ answer'[c] = indexed
      /\ \A d \in Calls \ {c} : pc'[d] = pc[d] /\ before'[d] = before[d] /\ answer'[d] = answer[d]
  <2>1. /\ pc' = [d \in Calls |-> pc'[d]] /\ pc'[c] = "asking"
        /\ \A d \in Calls \ {c} : pc'[d] = pc[d]
    BY Assigned DEF IInv, MapsOK
  <2>2. /\ job' = [d \in Calls |-> job'[d]]
        /\ \A d \in Calls : job'[d].op = "deploy" => job'[d].wish \in Wishes
    <3>1. PICK j : /\ job' = [job EXCEPT ![c] = j]
                   /\ j.op = "deploy" => j.wish \in Wishes
      <4>1. CASE \E w \in Wishes : job' = [job EXCEPT ![c] = [op |-> "deploy", wish |-> w]]
        <5>1. PICK w \in Wishes : job' = [job EXCEPT ![c] = [op |-> "deploy", wish |-> w]]
          BY <4>1
        <5> WITNESS [op |-> "deploy", wish |-> w]
        <5> QED
          BY <5>1
      <4>2. CASE \E m \in machines : job' = [job EXCEPT ![c] = [op |-> "remove", machine |-> m]]
        <5>1. PICK m \in machines : job' = [job EXCEPT ![c] = [op |-> "remove", machine |-> m]]
          BY <4>2
        <5> WITNESS [op |-> "remove", machine |-> m]
        <5> QED
          BY <5>1
      <4> QED
        BY <4>1, <4>2
    <3>2. /\ job' = [d \in Calls |-> job'[d]] /\ job'[c] = j
          /\ \A d \in Calls \ {c} : job'[d] = job[d]
      BY <3>1, Assigned DEF IInv, MapsOK
    <3> QED
      BY <3>1, <3>2 DEF IInv, MapsOK
  <2>3. /\ answer' = [d \in Calls |-> answer'[d]] /\ answer'[c] = indexed
        /\ \A d \in Calls \ {c} : answer'[d] = answer[d]
    BY Assigned DEF IInv, MapsOK
  <2>4. /\ before' = [d \in Calls |-> before'[d]] /\ before'[c] = {d \in Calls : pc[d] \in Over}
        /\ \A d \in Calls \ {c} : before'[d] = before[d]
    BY Assigned DEF IInv, MapsOK
  <2> QED
    BY <2>1, <2>2, <2>3, <2>4 DEF IInv, MapsOK
<1>2. ViewOK(c) /\ ListedOK(c) /\ PlanOK(c)
  BY DEF IInv, CallOK
<1>3. view[c] = {} /\ New(c) = {} /\ plan[c].machine = {}
  BY <1>1, <1>2 DEF ViewOK, PlanOK, FormOK, PutOK, SiteOK
<1>4. ViewOK(c)'
  BY <1>3, FS_EmptySet DEF ViewOK
<1>5. ListedOK(c)'
  <2>1. indexed \subseteq 1 .. made
    BY DEF IInv, WorldOK
  <2>2. ASSUME forgotten = {}, NEW k \in DOMAIN carried, Since(k, c)'
        PROVE  k \in indexed \cup newContracts
    <3>1. CASE carried[k].by \in before'[c]
      BY <1>1, <2>2, <3>1 DEF IInv, CarriedOK, Over
    <3>2. CASE \E m \in machines : m.at = k
      BY <2>2, <3>2 DEF IInv, WorldOK, MachineOK, Known
    <3> QED
      BY <2>2, <3>1, <3>2 DEF Since
  <2>3. {d \in Calls : pc[d] \in Over} \subseteq {d \in Calls : pc'[d] \in Over}
    BY <1>1 DEF Over
  <2> QED
    BY <1>1, <1>2, <2>1, <2>2, <2>3 DEF ListedOK, States
<1>6. PlanOK(c)' /\ New(c)' = {} /\ Dropped(c)' = Dropped(c)
  BY <1>1, <1>2, <1>3 DEF PlanOK, FormOK, PutOK, SiteOK, New, Pending, Dropped
<1> QED
  BY <1>1, <1>4, <1>5, <1>6, Locally DEF CallOK, Keys

LEMMA MergeInv == ASSUME IInv, NEW c \in Calls, Merge(c) PROVE IInv'
<1> USE DEF Merge, world
<1>1. /\ MapsOK' /\ pc[c] = "asking" /\ pc'[c] = "loading"
      /\ answer'[c] = {} /\ todo'[c] = Listing(answer[c])
      /\ \A d \in Calls \ {c} : pc'[d] = pc[d] /\ answer'[d] = answer[d] /\ todo'[d] = todo[d]
  <2>1. /\ pc' = [d \in Calls |-> pc'[d]] /\ pc'[c] = "loading"
        /\ \A d \in Calls \ {c} : pc'[d] = pc[d]
    BY Assigned DEF IInv, MapsOK
  <2>2. /\ todo' = [d \in Calls |-> todo'[d]] /\ todo'[c] = Listing(answer[c])
        /\ \A d \in Calls \ {c} : todo'[d] = todo[d]
    BY Assigned DEF IInv, MapsOK
  <2>3. /\ answer' = [d \in Calls |-> answer'[d]] /\ answer'[c] = {}
        /\ \A d \in Calls \ {c} : answer'[d] = answer[d]
    BY Assigned DEF IInv, MapsOK
  <2> QED
    BY <2>1, <2>2, <2>3 DEF IInv, MapsOK
<1>2. ViewOK(c) /\ ListedOK(c) /\ PlanOK(c)
  BY DEF IInv, CallOK
<1>3. view[c] = {} /\ New(c) = {} /\ plan[c].machine = {}
  BY <1>1, <1>2 DEF ViewOK, PlanOK, FormOK, PutOK, SiteOK
<1>4. /\ newContracts' = newContracts \ answer[c]
      /\ forgotten' = forgotten \cup
           {k \in newContracts \cap answer[c] :
              \E d \in Calls \ {c} : pc[d] = "asking" /\ k \notin answer[d]}
  BY DEF Prune
<1>5. ViewOK(c)'
  BY <1>3, FS_EmptySet DEF ViewOK
<1>6. ListedOK(c)'
  <2>1. Listing(answer[c]) \subseteq 1 .. made
    BY <1>2 DEF IInv, WorldOK, ListedOK, Listing
  <2>2. ASSUME forgotten' = {}, NEW k \in DOMAIN carried, Since(k, c)'
        PROVE  k \in Listing(answer[c])
    <3>1. k \in answer[c] \cup newContracts
      BY <1>1, <1>2, <1>4, <2>2 DEF ListedOK, Since
    <3>2. k \notin deletedContracts
      BY DEF IInv, WorldOK
    <3> QED
      BY <3>1, <3>2 DEF Listing
  <2>3. before[c] \subseteq {d \in Calls : pc'[d] \in Over}
    BY <1>1, <1>2 DEF ListedOK, Over
  <2>4. \A k \in Listing(answer[c]) : Known(k)'
    BY <1>2, <1>4 DEF ListedOK, Listing, Known
  <2> QED
    BY <1>1, <2>1, <2>2, <2>3, <2>4 DEF ListedOK, States
<1>7. PlanOK(c)' /\ New(c)' = {} /\ Dropped(c)' = Dropped(c)
  BY <1>1, <1>2, <1>3 DEF PlanOK, FormOK, PutOK, SiteOK, New, Pending, Dropped
<1>8. (newContracts \ newContracts') \cap chain \subseteq indexed
  BY <1>2, <1>4 DEF ListedOK
<1>9. \A d \in Calls \ {c} : pc[d] = "asking" /\ forgotten' = {} =>
        newContracts \ newContracts' \subseteq answer[d]
  BY <1>4
<1> QED
  BY <1>1, <1>4, <1>5, <1>6, <1>7, <1>8, <1>9, Locally DEF CallOK, Keys

LEMMA FetchInv == ASSUME IInv, NEW c \in Calls, NEW k \in 1 .. made, Fetch(c, k) PROVE IInv'
<1> USE DEF Fetch, world, lists, history
<1>1. CASE k \notin DOMAIN carried
  BY <1>1, FailInv
<1>2. CASE k \in DOMAIN carried
  <2> DEFINE w == carried[k]
             net == [key |-> k, node |-> w.node, subnet |-> w.subnet, wg |-> w.wg,
                     peers |-> w.peers, ips |-> Addresses(w.node)]
  <2>1. /\ MapsOK' /\ pc[c] = "loading" /\ k \in todo[c]
        /\ view'[c] = view[c] \cup {net} /\ todo'[c] = todo[c] \ {k}
        /\ \A d \in Calls \ {c} : view'[d] = view[d] /\ todo'[d] = todo[d]
    <3>1. /\ view' = [d \in Calls |-> view'[d]] /\ view'[c] = view[c] \cup {net}
          /\ \A d \in Calls \ {c} : view'[d] = view[d]
      BY <1>2 DEF IInv, MapsOK
    <3>2. /\ todo' = [d \in Calls |-> todo'[d]] /\ todo'[c] = todo[c] \ {k}
          /\ \A d \in Calls \ {c} : todo'[d] = todo[d]
      BY <1>2 DEF IInv, MapsOK
    <3> HIDE DEF net
    <3> QED
      BY <1>2, <3>1, <3>2 DEF IInv, MapsOK
  <2>2. ViewOK(c) /\ ListedOK(c) /\ PlanOK(c)
    BY DEF IInv, CallOK
  <2>3. IsFiniteSet(w.peers) /\ IsFiniteSet(Addresses(w.node))
    <3>1. IsFiniteSet(w.peers)
      BY <1>2 DEF IInv, CarriedOK
    <3> DEFINE S == {m \in machines : m.node = w.node}
               ip == [m \in S |-> m.ip]
    <3>2. IsFiniteSet(S)
      <4>1. IsFiniteSet(machines) /\ S \in SUBSET machines
        BY DEF IInv, WorldOK
      <4> HIDE DEF S
      <4> QED
        BY <4>1, FS_Subset
    <3>3. Addresses(w.node) = {ip[m] : m \in S}
      BY DEF Addresses
    <3>4. IsFiniteSet({ip[m] : m \in S})
      <4> HIDE DEF S, ip
      <4> QED
        BY <3>2, FiniteImage
    <3> QED
      BY <3>1, <3>3, <3>4
  <2>4. net.key = k /\ net.node = w.node /\ net.subnet = w.subnet /\ net.peers = w.peers
        /\ net.ips = Addresses(w.node)
    OBVIOUS
  <2>5. \A m \in machines : m.at = k \/ m.node = w.node => m.ip \in Addresses(w.node)
    BY <1>2 DEF IInv, MachineOK, Addresses
  <2>6. \A x : Known(x)' = Known(x)
    BY <1>2 DEF Known
  <2> HIDE DEF net
  <2>7. \A n \in view[c] : n.key # k
    BY <2>1, <2>2 DEF ViewOK
  <2>8. Keys(c)' = Keys(c) \cup {k}
    BY <2>1, <2>4 DEF Keys
  <2>9. ViewOK(c)'
    <3>1. IsFiniteSet(view'[c])
      BY <2>1, <2>2, FS_AddElement DEF ViewOK
    <3>2. ASSUME NEW n \in view'[c]
          PROVE  /\ n.key \in 1 .. made /\ n.key \notin todo'[c] /\ Known(n.key)
                 /\ IsFiniteSet(n.peers) /\ IsFiniteSet(n.ips)
                 /\ n.key \in DOMAIN carried =>
                      n.node = carried[n.key].node /\ n.subnet = carried[n.key].subnet
                 /\ \A m \in machines : m.by \in before[c] /\ (m.at = n.key \/ m.node = n.node) =>
                      m.ip \in n.ips
                 /\ \A x \in view'[c] : x.key = n.key => x = n
      <4>1. CASE n = net
        <5>1. Known(k)
          BY <2>1, <2>2 DEF ListedOK
        <5> QED
          BY <2>1, <2>3, <2>4, <2>5, <2>7, <4>1, <5>1
      <4>2. CASE n \in view[c]
        BY <2>1, <2>2, <2>4, <2>7, <4>2 DEF ViewOK
      <4> QED
        BY <2>1, <4>1, <4>2
    <3> QED
      BY <1>2, <2>1, <2>6, <3>1, <3>2 DEF ViewOK
  <2>10. ListedOK(c)'
    BY <1>2, <2>1, <2>2, <2>8, <2>6 DEF ListedOK, Since
  <2>11. PlanOK(c)' /\ New(c)' = {} /\ Dropped(c)' = Dropped(c)
    BY <1>2, <2>1, <2>2 DEF PlanOK, FormOK, PutOK, SiteOK, New, Pending, Dropped
  <2> QED
    BY <1>2, <2>1, <2>8, <2>9, <2>10, <2>11, Locally DEF CallOK
<1> QED
  BY <1>1, <1>2

-----------------------------------------------------------------------------
(* The indexer and the nodes.                                                *)

LEMMA IndexInv == ASSUME IInv, NEW k \in 1 .. made, Index(k) PROVE IInv'
<1> USE DEF Index, world, lists, local, history
<1>1. indexed \cap chain \subseteq indexed' /\ indexed' \subseteq 1 .. made
  BY DEF IInv, WorldOK
<1>2. MapsOK' /\ WorldOK'
  BY <1>1 DEF IInv, MapsOK, WorldOK
<1>3. ASSUME NEW x \in DOMAIN carried PROVE CarriedOK(x)'
  <2>1. x \in chain /\ CarriedOK(x)
    BY DEF IInv, WorldOK
  <2> QED
    BY <1>1, <2>1 DEF CarriedOK, New
<1>4. \A x : Known(x) => Known(x)'
  BY <1>1 DEF Known
<1>5. \A m \in machines : MachineOK(m)'
  BY <1>4 DEF IInv, MachineOK, Pending, New
<1>6. ASSUME NEW d \in Calls PROVE CallOK(d)'
  <2>1. Pending(d) \subseteq chain' \ deletedContracts'
    BY DEF IInv, CallOK, PlanOK, FormOK, PutOK, SiteOK
  <2>2. answer[d] \cap chain' \subseteq indexed'
    BY <1>1 DEF IInv, CallOK, ListedOK
  <2>3. \A x \in DOMAIN carried' : Stays(x)
    BY DEF Stays
  <2>4. made' \in Nat /\ made <= made' /\ chain' \cap (1 .. made) \subseteq chain
    BY DEF IInv, WorldOK
  <2> QED
    BY <1>4, <2>1, <2>2, <2>3, <2>4, Elsewhere
<1>7. \A c, d \in Calls : PairOK(c, d)'
  BY DEF IInv, PairOK, Keys, New, Pending, Dropped
<1>8. SubnetsApart' /\ AddressesApart'
  BY DEF IInv, SubnetsApart, AddressesApart, AtOnce
<1> QED
  BY <1>2, <1>3, <1>5, <1>6, <1>7, <1>8 DEF IInv

\* Calls that are under way at the same time began before the other was over.
LEMMA BusyApart ==
  ASSUME IInv, NEW c \in Calls, NEW d \in Calls, c # d, pc[c] \notin Over, pc[d] \notin Over
  PROVE  AtOnce(c, d) /\ AtOnce(d, c) /\ c \notin before[d]
BY DEF IInv, CallOK, ListedOK, AtOnce

LEMMA SendInv == ASSUME IInv, NEW c \in Calls, NEW k \in 1 .. made, Send(c, k) PROVE IInv'
<1> USE DEF Send, lists, history
<1>1. ViewOK(c) /\ ListedOK(c) /\ PlanOK(c) /\ pc[c] = "sending" /\ k \in todo[c]
  BY DEF IInv, CallOK
<1>2. /\ todo'[c] = todo[c] \ {k} /\ MapsOK'
      /\ \A d \in Calls \ {c} : todo'[d] = todo[d]
  <2>1. /\ todo' = [d \in Calls |-> todo'[d]] /\ todo'[c] = todo[c] \ {k}
        /\ \A d \in Calls \ {c} : todo'[d] = todo[d]
    BY DEF IInv, MapsOK
  <2> QED
    BY <2>1 DEF IInv, MapsOK
<1>3. PICK w \in plan[c].put :
        /\ w.key = k
        /\ DOMAIN carried' = DOMAIN carried \cup {k}
        /\ \A x \in DOMAIN carried : x # k => carried'[x] = carried[x]
        /\ carried'[k] = [node |-> w.node, subnet |-> w.subnet, wg |-> w.wg, peers |-> w.peers,
                          by |-> IF k \in DOMAIN carried THEN carried[k].by ELSE c]
  <2> DEFINE w == CHOOSE w \in plan[c].put : w.key = k
  <2>1. w \in plan[c].put /\ w.key = k
    BY <1>1 DEF PlanOK, FormOK, PutOK, SiteOK
  <2>2. carried' = [x \in DOMAIN carried \cup {k} |->
           IF x # k THEN carried[x]
           ELSE [node |-> w.node, subnet |-> w.subnet, wg |-> w.wg, peers |-> w.peers,
                 by |-> IF k \in DOMAIN carried THEN carried[k].by ELSE c]]
    OBVIOUS
  <2> HIDE DEF w
  <2> QED
    BY <2>1, <2>2
<1>4. /\ IsFiniteSet(w.peers)
      /\ k \in DOMAIN carried => w.node = carried[k].node /\ w.subnet = carried[k].subnet
      /\ k \notin DOMAIN carried => k \in Pending(c)
  BY <1>1, <1>3 DEF PlanOK, FormOK, PutOK, SiteOK, Pending, New
<1>5. \A x \in DOMAIN carried : Stays(x)
  BY <1>3, <1>4 DEF Stays
<1>6. /\ \A d \in Calls : /\ Keys(d)' = Keys(d) /\ New(d)' = New(d) /\ Dropped(d)' = Dropped(d)
      /\ \A d \in Calls \ {c} : Pending(d)' = Pending(d)
      /\ Pending(c)' = Pending(c) \ {k}
  BY <1>2 DEF Keys, New, Dropped, Pending
<1>7. WorldOK'
  <2>1. k \in chain \ deletedContracts
    BY <1>1, <1>4 DEF IInv, WorldOK, PlanOK, FormOK, PutOK, SiteOK
  <2> QED
    BY <1>3, <2>1 DEF IInv, WorldOK
<1>8. ASSUME NEW x \in DOMAIN carried' PROVE CarriedOK(x)'
  <2>1. CASE x # k
    BY <1>3, <2>1 DEF IInv, CarriedOK, New
  <2>2. CASE x = k /\ k \in DOMAIN carried
    <3>1. CarriedOK(k)
      BY <2>2 DEF IInv
    <3> QED
      BY <1>3, <1>4, <2>2, <3>1 DEF CarriedOK, New
  <2>3. CASE x = k /\ k \notin DOMAIN carried
    <3>1. k \in New(c)
      BY <1>4, <2>3 DEF Pending
    <3> QED
      BY <1>1, <1>3, <1>4, <2>3, <3>1 DEF CarriedOK, New
  <2> QED
    BY <1>3, <2>1, <2>2, <2>3
<1>9. \A x : Known(x)' = Known(x)
  BY DEF Known
<1>10. ASSUME NEW m \in machines PROVE MachineOK(m)'
  <2>1. MachineOK(m)
    BY DEF IInv
  <2>2. m.at \in DOMAIN carried' => m.at \in DOMAIN carried
    BY <1>3, <1>4, <2>1 DEF MachineOK
  <2> QED
    BY <1>5, <1>6, <1>9, <2>1, <2>2 DEF MachineOK, Stays
<1>11. ASSUME NEW d \in Calls \ {c} PROVE CallOK(d)'
  <2>1. \A x \in DOMAIN carried' :
          \/ Stays(x)
          \/ /\ x \notin New(d) \cup Keys(d) \cup Dropped(d) /\ carried'[x].by \notin before[d]
             /\ pc[d] = "sending" => AtOnce(carried[x].by, d)'
             /\ \A m \in machines' : m.at # x
    <3> SUFFICES ASSUME NEW x \in DOMAIN carried', ~Stays(x)
                 PROVE  /\ x \notin New(d) \cup Keys(d) \cup Dropped(d)
                        /\ carried'[x].by \notin before[d]
                        /\ pc[d] = "sending" => AtOnce(carried[x].by, d)'
                        /\ \A m \in machines' : m.at # x
      OBVIOUS
    <3>1. x = k /\ k \in Pending(c) /\ carried'[x].by = c
      BY <1>3, <1>4, <1>5
    <3>2. x \notin New(d) \cup Keys(d) \cup Dropped(d)
      BY <3>1 DEF IInv, PairOK, Pending
    <3>3. c \notin before[d]
      BY <1>1 DEF IInv, CallOK, ListedOK, Over
    <3>4. pc[d] = "sending" => AtOnce(c, d)
      BY <1>1, BusyApart DEF Over
    <3>5. \A m \in machines' : m.at # x
      BY <3>1 DEF IInv, MachineOK
    <3> QED
      BY <3>1, <3>2, <3>3, <3>4, <3>5 DEF AtOnce
  <2>2. Pending(d) \subseteq chain' \ deletedContracts'
    BY DEF IInv, CallOK, PlanOK, FormOK, PutOK, SiteOK
  <2>3. answer[d] \cap chain' \subseteq indexed'
    BY DEF IInv, CallOK, ListedOK
  <2>4. made' \in Nat /\ made <= made' /\ chain' \cap (1 .. made) \subseteq chain
    BY DEF IInv, WorldOK
  <2> QED
    BY <1>2, <1>9, <2>1, <2>2, <2>3, <2>4, Elsewhere
<1>12. ViewOK(c)'
  <2> SUFFICES ASSUME NEW n \in view[c]
               PROVE  n.key \in DOMAIN carried' =>
                        n.node = carried'[n.key].node /\ n.subnet = carried'[n.key].subnet
    BY <1>1, <1>2, <1>9 DEF ViewOK
  <2>1. n.key \notin Pending(c)
    BY DEF IInv, PairOK, Keys
  <2>2. n.key \in DOMAIN carried' => n.key \in DOMAIN carried
    BY <1>3, <1>4, <2>1
  <2> QED
    BY <1>1, <1>5, <2>2 DEF ViewOK, Stays
<1>13. ListedOK(c)'
  BY <1>1, <1>2, <1>3 DEF ListedOK
<1>14. PlanOK(c)'
  <2>1. Pending(c)' \subseteq chain \ (DOMAIN carried' \cup deletedContracts)
    BY <1>1, <1>3, <1>6 DEF PlanOK, FormOK, PutOK, SiteOK
  <2>2. Dropped(c) \cap DOMAIN carried' = {}
    <3>1. k \in Pending(c) => k \notin Dropped(c)
      BY DEF IInv, PairOK
    <3> QED
      BY <1>1, <1>3, <1>4, <3>1 DEF PlanOK, FormOK, PutOK, SiteOK
  <2>3. ASSUME NEW v \in plan[c].put
        PROVE  /\ v.key \in DOMAIN carried' =>
                    v.node = carried'[v.key].node /\ v.subnet = carried'[v.key].subnet
               /\ v.key \in New(c) /\ forgotten = {} => \A x \in DOMAIN carried' :
                    x # v.key /\ carried'[x].subnet = v.subnet => AtOnce(carried'[x].by, c)
    <3>1. v.key \in DOMAIN carried' =>
            v.node = carried'[v.key].node /\ v.subnet = carried'[v.key].subnet
      <4>1. CASE v.key \in DOMAIN carried
        BY <1>1, <1>5, <4>1 DEF PlanOK, FormOK, PutOK, SiteOK, Stays
      <4>2. CASE v.key = k /\ k \notin DOMAIN carried
        <5>1. k \in New(c)
          BY <1>4, <4>2 DEF Pending
        <5>2. v.node = w.node /\ v.subnet = w.subnet
          BY <1>1, <1>3, <4>2, <5>1 DEF PlanOK, FormOK, PutOK, SiteOK
        <5> QED
          BY <1>3, <4>2, <5>2
      <4> QED
        BY <1>3, <4>1, <4>2
    <3>2. ASSUME v.key \in New(c), forgotten = {}, NEW x \in DOMAIN carried',
                 x # v.key, carried'[x].subnet = v.subnet
          PROVE  AtOnce(carried'[x].by, c)
      <4>1. CASE x \in DOMAIN carried
        <5>1. carried'[x].subnet = carried[x].subnet /\ carried'[x].by = carried[x].by
          BY <1>5, <4>1 DEF Stays
        <5>2. \A y \in DOMAIN carried :
                y # v.key /\ carried[y].subnet = v.subnet => AtOnce(carried[y].by, c)
          BY <1>1, <3>2 DEF PlanOK, PutOK
        <5> QED
          BY <3>2, <4>1, <5>1, <5>2
      <4>2. CASE x = k /\ k \notin DOMAIN carried
        <5>1. k \in New(c) /\ carried'[k].subnet = w.subnet
          BY <1>3, <1>4, <4>2 DEF Pending
        <5>2. v.subnet # w.subnet
          BY <1>1, <1>3, <3>2, <4>2, <5>1 DEF PlanOK, FormOK, PutOK, SiteOK
        <5> QED
          BY <3>2, <4>2, <5>1, <5>2
      <4> QED
        BY <1>3, <4>1, <4>2
    <3> QED
      BY <3>1, <3>2
  <2>4. ASSUME NEW p \in plan[c].machine
        PROVE  p.at \in DOMAIN carried' => p.node = carried'[p.at].node
    <3>1. CASE p.at \in DOMAIN carried
      BY <1>1, <1>5, <3>1 DEF PlanOK, FormOK, PutOK, SiteOK, Stays
    <3>2. CASE p.at \notin DOMAIN carried
      BY <1>1, <1>3, <3>2 DEF PlanOK, FormOK, PutOK, SiteOK
    <3> QED
      BY <3>1, <3>2
  <2>5. \A x \in Calls : AtOnce(x, c)' = AtOnce(x, c)
    BY DEF AtOnce
  <2>6. \A x \in DOMAIN carried' : carried'[x].by \in Calls
    BY <1>8 DEF CarriedOK
  <2>7. ASSUME NEW v \in plan[c].put, v.key \in New(c), forgotten = {},
               NEW x \in DOMAIN carried', x # v.key, carried'[x].subnet = v.subnet
        PROVE  AtOnce(carried[x].by, c)'
    <3>1. AtOnce(carried'[x].by, c)
      BY <2>3, <2>7
    <3> QED
      BY <3>1 DEF AtOnce
  <2>8. ASSUME NEW p \in plan[c].machine, NEW m \in machines, Clash(m, p)'
        PROVE  AtOnce(m.by, c)'
    <3>1. m.at \in DOMAIN carried' => m.at \in DOMAIN carried
      BY <1>3, <1>4 DEF IInv, MachineOK
    <3>2. Clash(m, p)
      BY <2>8, <3>1 DEF Clash
    <3>3. AtOnce(m.by, c)
      BY <1>1, <2>8, <3>2 DEF PlanOK, SiteOK
    <3> QED
      BY <3>3 DEF AtOnce
  <2>9. /\ todo'[c] \cup New(c) \subseteq {v.key : v \in plan[c].put}
        /\ \A v \in plan[c].put : IsFiniteSet(v.peers) /\ v.key \in New(c) \cup Keys(c)
    BY <1>1, <1>2 DEF PlanOK, FormOK, PutOK, SiteOK
  <2>10. pc' = pc /\ plan' = plan /\ made' = made /\ chain' = chain /\ machines' = machines
         /\ forgotten' = forgotten /\ deletedContracts' = deletedContracts
    OBVIOUS
  <2>11. /\ New(c)' = New(c) /\ Keys(c)' = Keys(c) /\ Dropped(c)' = Dropped(c)
    BY <1>6
  <2>12. FormOK(c)'
    BY <1>1, <2>1, <2>2, <2>10, <2>11 DEF PlanOK, FormOK
  <2>13. PutOK(c)'
    <3>1. ASSUME NEW v \in plan[c].put, v.key \in New(c), NEW x \in plan[c].put
          PROVE  IF x.key = v.key THEN x.node = v.node /\ x.subnet = v.subnet
                 ELSE x.key \in New(c) => x.subnet # v.subnet
      BY <1>1, <3>1 DEF PlanOK, PutOK
    <3> HIDE DEF Send, lists, history
    <3> SUFFICES ASSUME NEW v \in plan[c].put
                 PROVE  /\ v.key \in DOMAIN carried' =>
                             v.node = carried'[v.key].node /\ v.subnet = carried'[v.key].subnet
                        /\ v.key \in New(c) /\ forgotten = {} => \A x \in DOMAIN carried' :
                             x # v.key /\ carried'[x].subnet = v.subnet =>
                               AtOnce(carried[x].by, c)'
      BY <1>1, <2>9, <2>10, <2>11, <3>1 DEF PutOK
    <3> QED
      BY <2>3, <2>7
  <2>14. SiteOK(c)'
    BY <1>1, <1>9, <2>4, <2>8, <2>10, <2>11 DEF PlanOK, SiteOK
  <2> QED
    BY <2>12, <2>13, <2>14 DEF PlanOK
<1>15. ASSUME NEW d \in Calls, NEW e \in Calls PROVE PairOK(d, e)'
  BY <1>6 DEF IInv, PairOK
<1>16. SubnetsApart' /\ AddressesApart'
  <2>1. AddressesApart'
    <3>1. \A m \in machines : m.at \in DOMAIN carried' => m.at \in DOMAIN carried
      BY <1>3, <1>4 DEF IInv, MachineOK
    <3> QED
      BY <3>1 DEF IInv, AddressesApart, AtOnce
  <2>2. ASSUME forgotten = {}, NEW x \in DOMAIN carried', NEW y \in DOMAIN carried', x # y,
               carried'[x].subnet = carried'[y].subnet, x # k \/ k \in DOMAIN carried
        PROVE  AtOnce(carried'[x].by, carried'[y].by)
    <3>1. /\ x \in DOMAIN carried /\ carried'[x].subnet = carried[x].subnet
          /\ carried'[x].by = carried[x].by
      BY <1>3, <1>5, <2>2 DEF Stays
    <3>2. CASE y \in DOMAIN carried
      <4>1. carried'[y].subnet = carried[y].subnet /\ carried'[y].by = carried[y].by
        BY <1>5, <3>2 DEF Stays
      <4> QED
        BY <2>2, <3>1, <3>2, <4>1 DEF IInv, SubnetsApart
    <3>3. CASE y = k /\ k \notin DOMAIN carried
      <4>1. k \in New(c) /\ carried'[k].subnet = w.subnet /\ carried'[k].by = c
        BY <1>3, <1>4, <3>3 DEF Pending
      <4>2. AtOnce(carried[x].by, c)
        BY <1>1, <1>3, <2>2, <3>1, <3>3, <4>1 DEF PlanOK, FormOK, PutOK, SiteOK
      <4> QED
        BY <3>1, <3>3, <4>1, <4>2
    <3> QED
      BY <1>3, <3>2, <3>3
  <2>3. ASSUME forgotten = {}, NEW x \in DOMAIN carried', NEW y \in DOMAIN carried', x # y,
               carried'[x].subnet = carried'[y].subnet
        PROVE  AtOnce(carried'[x].by, carried'[y].by)
    <3>1. CASE x # k \/ k \in DOMAIN carried
      BY <2>2, <2>3, <3>1
    <3>2. CASE x = k /\ k \notin DOMAIN carried
      <4>1. AtOnce(carried'[y].by, carried'[x].by)
        BY <2>2, <2>3, <3>2
      <4> QED
        BY <4>1 DEF AtOnce
    <3> QED
      BY <3>1, <3>2
  <2>4. SubnetsApart'
    <3>1. ASSUME forgotten = {}, NEW x \in DOMAIN carried', NEW y \in DOMAIN carried', x # y,
                 carried'[x].subnet = carried'[y].subnet
          PROVE  AtOnce(carried[x].by, carried[y].by)'
      BY <2>3, <3>1 DEF AtOnce
    <3>2. forgotten' = forgotten
      OBVIOUS
    <3> HIDE DEF Send, lists, history
    <3> QED
      BY <3>1, <3>2 DEF SubnetsApart
  <2> QED
    BY <2>1, <2>4
<1> QED
  BY <1>2, <1>7, <1>8, <1>10, <1>11, <1>12, <1>13, <1>14, <1>15, <1>16 DEF IInv, CallOK

-----------------------------------------------------------------------------
(* The end of a call.                                                        *)

LEMMA RollBackInv == ASSUME IInv, NEW c \in Calls, RollBack(c) PROVE IInv'
<1>1. /\ MapsOK' /\ pc[c] = "sending" /\ pc'[c] = "failed" /\ answer'[c] = {} /\ todo'[c] = {}
      /\ view'[c] = {} /\ plan'[c] = NoPlan
      /\ \A d \in Calls \ {c} :
           /\ pc'[d] = pc[d] /\ answer'[d] = answer[d] /\ todo'[d] = todo[d]
           /\ view'[d] = view[d] /\ plan'[d] = plan[d]
  BY EndMaps DEF IInv, RollBack
<1>2. /\ made' = made /\ machines' = machines /\ indexed' = indexed
      /\ newContracts' = newContracts /\ deletedContracts' = deletedContracts
      /\ crashes' = crashes /\ before' = before
  BY DEF RollBack, lists
<1>3. \/ /\ chain' = chain \ New(c) /\ forgotten' = forgotten
         /\ carried' = Restrict(carried, DOMAIN carried \ New(c))
      \/ /\ chain' = chain /\ carried' = carried
         /\ forgotten' = {} => forgotten = {} /\ New(c) \subseteq indexed
  BY DEF RollBack, New
<1>4. /\ chain' \subseteq chain /\ chain \ New(c) \subseteq chain'
      /\ DOMAIN carried' \subseteq chain' /\ DOMAIN carried' \subseteq DOMAIN carried
      /\ forgotten' = {} => forgotten = {}
      /\ forgotten' = {} => DOMAIN carried' \cap New(c) \subseteq indexed
      /\ \A x \in DOMAIN carried' : carried'[x] = carried[x] /\ Stays(x)
  <2>1. DOMAIN carried \subseteq chain
    BY DEF IInv, WorldOK
  <2>2. CASE /\ chain' = chain \ New(c) /\ forgotten' = forgotten
             /\ carried' = Restrict(carried, DOMAIN carried \ New(c))
    BY <2>1, <2>2 DEF Restrict, Stays
  <2>3. CASE /\ chain' = chain /\ carried' = carried
             /\ forgotten' = {} => forgotten = {} /\ New(c) \subseteq indexed
    BY <2>1, <2>3 DEF Stays
  <2> QED
    BY <1>3, <2>2, <2>3
<1>5. \A x : Known(x) => Known(x)'
  BY <1>2, <1>4 DEF Known
<1>6. before[c] \subseteq {d \in Calls : pc'[d] \in Over}
  BY <1>1 DEF IInv, CallOK, ListedOK, Over
<1>7. CallOK(c)' /\ New(c)' = {} /\ Dropped(c)' = {} /\ Keys(c)' = {} /\ Pending(c)' = {}
  BY <1>1, <1>2, <1>6, OverOK DEF Over
<1>8. \A d \in Calls \ {c} : /\ Keys(d)' = Keys(d) /\ New(d)' = New(d) /\ Pending(d)' = Pending(d)
                             /\ Dropped(d)' = Dropped(d)
  BY <1>1 DEF Keys, New, Pending, Dropped
<1>9. WorldOK'
  BY <1>2, <1>4 DEF IInv, WorldOK
<1>10. ASSUME NEW x \in DOMAIN carried' PROVE CarriedOK(x)'
  <2>1. CarriedOK(x) /\ x \in DOMAIN carried /\ carried'[x] = carried[x]
    BY <1>4 DEF IInv
  <2>2. CASE carried[x].by = c
    <3>1. x \in New(c)
      BY <1>1, <2>1, <2>2 DEF CarriedOK, Over
    <3> QED
      BY <1>1, <1>2, <1>4, <2>1, <2>2, <3>1 DEF CarriedOK, Over
  <2>3. CASE carried[x].by # c
    <3>1. PICK b \in Calls \ {c} : b = carried[x].by
      BY <2>1, <2>3 DEF CarriedOK
    <3>2. pc'[b] = pc[b] /\ New(b)' = New(b)
      BY <1>1, <1>8
    <3> QED
      BY <1>2, <1>4, <2>1, <3>1, <3>2 DEF CarriedOK
  <2> QED
    BY <2>2, <2>3
<1>11. ASSUME NEW m \in machines PROVE MachineOK(m)'
  <2>1. MachineOK(m)
    BY DEF IInv
  <2>2. m.by # c /\ m.by \in Calls /\ pc'[m.by] = pc[m.by]
    BY <1>1, <2>1 DEF MachineOK, Over
  <2>3. \A d \in Calls : m.at \notin Pending(d)'
    BY <1>7, <1>8, <2>1 DEF MachineOK
  <2>4. m.at \in DOMAIN carried' => m.node = carried'[m.at].node
    BY <1>4, <2>1 DEF MachineOK, Stays
  <2> QED
    BY <1>2, <1>5, <2>1, <2>2, <2>3, <2>4 DEF MachineOK
<1>12. ASSUME NEW d \in Calls \ {c} PROVE CallOK(d)'
  <2>1. Pending(d) \subseteq chain' \ deletedContracts'
    <3>1. Pending(d) \subseteq New(d) /\ New(d) \cap New(c) = {}
      BY DEF IInv, PairOK, Pending
    <3> QED
      BY <1>2, <1>4, <3>1 DEF IInv, CallOK, PlanOK, FormOK
  <2>2. answer[d] \cap chain' \subseteq indexed'
    BY <1>2, <1>4 DEF IInv, CallOK, ListedOK
  <2>3. made' \in Nat /\ made <= made' /\ chain' \cap (1 .. made) \subseteq chain
    BY <1>2, <1>4 DEF IInv, WorldOK
  <2>4. \A e \in Calls : pc[e] \in Over => pc'[e] \in Over
    BY <1>1 DEF Over
  <2> QED
    BY <1>1, <1>2, <1>4, <1>5, <2>1, <2>2, <2>3, <2>4, Elsewhere
<1>13. ASSUME NEW d \in Calls, NEW e \in Calls PROVE PairOK(d, e)'
  BY <1>7, <1>8 DEF IInv, PairOK
<1>14. SubnetsApart' /\ AddressesApart'
  <2>1. SubnetsApart'
    BY <1>2, <1>4 DEF IInv, SubnetsApart, AtOnce
  <2>2. AddressesApart'
    BY <1>2, <1>4 DEF IInv, AddressesApart, AtOnce
  <2> QED
    BY <2>1, <2>2
<1> QED
  BY <1>1, <1>2, <1>7, <1>9, <1>10, <1>11, <1>12, <1>13, <1>14 DEF IInv

LEMMA CrashInv == ASSUME IInv, Crash PROVE IInv'
<1> USE DEF Crash, world
<1>1. MapsOK'
  BY DEF IInv, MapsOK, NoJob
<1>2. WorldOK'
  BY NetworkAssumption DEF IInv, WorldOK
<1>3. ASSUME NEW c \in Calls
      PROVE  /\ pc'[c] \in Over \cup {"idle"} /\ (pc[c] # "idle" => pc'[c] \in Over)
             /\ answer'[c] = {} /\ todo'[c] = {} /\ view'[c] = {} /\ plan'[c] = NoPlan
  BY DEF Busy, Over
<1>4. ASSUME NEW c \in Calls
      PROVE  CallOK(c)' /\ New(c)' = {} /\ Dropped(c)' = {} /\ Keys(c)' = {} /\ Pending(c)' = {}
  <2>1. before[c] \subseteq {d \in Calls : pc'[d] \in Over}
    BY <1>3 DEF IInv, CallOK, ListedOK, Over
  <2>2. ViewOK(c)'
    BY <1>3, FS_EmptySet DEF ViewOK
  <2>3. ListedOK(c)'
    BY <1>3, <2>1 DEF ListedOK, States, Over
  <2>4. PlanOK(c)' /\ New(c)' = {} /\ Dropped(c)' = {} /\ Pending(c)' = {}
    BY <1>3 DEF PlanOK, FormOK, PutOK, SiteOK, NoPlan, New, Pending, Dropped, Over
  <2> QED
    BY <1>3, <2>2, <2>3, <2>4 DEF CallOK, Keys
<1>5. ASSUME NEW x \in DOMAIN carried PROVE CarriedOK(x)'
  <2>1. CarriedOK(x) /\ x \in chain
    BY DEF IInv, WorldOK
  <2>2. forgotten' = {} => x \in indexed
    BY <2>1
  <2>3. pc'[carried[x].by] \in Over
    BY <1>3, <2>1 DEF CarriedOK, Over
  <2> QED
    BY <2>1, <2>2, <2>3 DEF CarriedOK
<1>6. ASSUME NEW m \in machines PROVE MachineOK(m)'
  <2>1. MachineOK(m) /\ pc'[m.by] \in Over
    BY <1>3 DEF IInv, MachineOK, Over
  <2>2. Known(m.at)'
    BY DEF Known
  <2> QED
    BY <1>4, <2>1, <2>2 DEF MachineOK
<1>7. \A c, d \in Calls : PairOK(c, d)'
  BY <1>4 DEF PairOK
<1>8. SubnetsApart' /\ AddressesApart'
  BY DEF IInv, SubnetsApart, AddressesApart, AtOnce
<1> QED
  BY <1>1, <1>2, <1>4, <1>5, <1>6, <1>7, <1>8 DEF IInv

LEMMA RemoveInv == ASSUME IInv, NEW c \in Calls, Remove(c) PROVE IInv'
<1> DEFINE m == job[c].machine
           drop == {n.key : n \in Emptied(view[c], m)}
<1>1. pc[c] = "loading" /\ todo[c] = {}
  BY DEF Remove, Loaded
<1>2. CASE Fail(c)
  BY <1>1, <1>2, FailInv
<1>3. CASE ~Fail(c)
  <2>1. /\ chain' = chain \ drop
        /\ carried' = Restrict(carried, DOMAIN carried \ drop)
        /\ machines' = machines \ {m}
        /\ plan' = [plan EXCEPT ![c] = [NoPlan EXCEPT !.drop = drop]]
        /\ pc' = [pc EXCEPT ![c] = "saving"]
        /\ UNCHANGED <<made, users, indexed, lists, job, answer, todo, view, crashes, history>>
    BY <1>3 DEF Remove
  <2>2. drop \subseteq Keys(c)
    BY DEF Emptied, Keys
  <2> HIDE DEF m, drop
  <2>3. /\ MapsOK' /\ pc'[c] = "saving" /\ plan'[c] = [NoPlan EXCEPT !.drop = drop]
        /\ \A d \in Calls \ {c} : pc'[d] = pc[d] /\ plan'[d] = plan[d]
    <3>1. /\ pc' = [d \in Calls |-> pc'[d]] /\ pc'[c] = "saving"
          /\ \A d \in Calls \ {c} : pc'[d] = pc[d]
      BY <2>1, Assigned DEF IInv, MapsOK
    <3>2. /\ plan' = [d \in Calls |-> plan'[d]] /\ plan'[c] = [NoPlan EXCEPT !.drop = drop]
          /\ \A d \in Calls \ {c} : plan'[d] = plan[d]
      BY <2>1, Assigned DEF IInv, MapsOK
    <3> QED
      BY <2>1, <3>1, <3>2 DEF IInv, MapsOK, history
  <2>4. /\ DOMAIN carried' = DOMAIN carried \ drop
        /\ \A x \in DOMAIN carried' : carried'[x] = carried[x] /\ Stays(x)
    BY <2>1 DEF Restrict, Stays
  <2>5. /\ made' = made /\ indexed' = indexed /\ newContracts' = newContracts
        /\ deletedContracts' = deletedContracts /\ answer' = answer /\ todo' = todo
        /\ view' = view /\ crashes' = crashes /\ before' = before /\ forgotten' = forgotten
    BY <2>1 DEF lists, history
  <2>6. ViewOK(c) /\ ListedOK(c) /\ PlanOK(c)
    BY DEF IInv, CallOK
  <2>7. /\ New(c)' = {} /\ Pending(c)' = {} /\ Pending(c) = {} /\ Dropped(c)' = drop
        /\ plan'[c].machine = {} /\ plan'[c].put = {} /\ Keys(c)' = Keys(c)
        /\ \A d \in Calls \ {c} : /\ New(d)' = New(d) /\ Pending(d)' = Pending(d)
                                  /\ Dropped(d)' = Dropped(d) /\ Keys(d)' = Keys(d)
    BY <1>1, <2>3, <2>5 DEF NoPlan, New, Pending, Dropped, Keys
  <2>8. WorldOK'
    <3>1. IsFiniteSet(machines')
      BY <2>1, FS_RemoveElement DEF IInv, WorldOK
    <3> QED
      BY <2>1, <2>4, <2>5, <3>1 DEF IInv, WorldOK
  <2>9. \A x : Known(x) => Known(x)'
    BY <2>1, <2>5 DEF Known
  <2>10. ASSUME NEW x \in DOMAIN carried' PROVE CarriedOK(x)'
    <3>1. CarriedOK(x) /\ carried'[x] = carried[x]
      BY <2>4 DEF IInv
    <3>2. carried[x].by # c /\ carried[x].by \in Calls
      BY <1>1, <3>1 DEF CarriedOK, Over
    <3> QED
      BY <2>3, <2>5, <2>7, <3>1, <3>2 DEF CarriedOK
  <2>11. ASSUME NEW y \in machines' PROVE MachineOK(y)'
    <3>1. MachineOK(y)
      BY <2>1 DEF IInv
    <3>2. y.by # c /\ y.by \in Calls /\ pc'[y.by] = pc[y.by]
      BY <1>1, <2>3, <3>1 DEF MachineOK, Over
    <3>3. \A d \in Calls : y.at \notin Pending(d)'
      BY <2>7, <3>1 DEF MachineOK
    <3> QED
      BY <2>4, <2>5, <2>9, <3>1, <3>2, <3>3 DEF MachineOK
  <2>12. \A e \in Calls : pc[e] \in Over => pc'[e] \in Over
    BY <1>1, <2>3 DEF Over
  <2>13. ASSUME NEW d \in Calls \ {c} PROVE CallOK(d)'
    <3>1. Pending(d) \subseteq chain' \ deletedContracts'
      BY <2>1, <2>2, <2>5 DEF IInv, CallOK, PlanOK, FormOK, PairOK
    <3>2. answer[d] \cap chain' \subseteq indexed'
      BY <2>1, <2>5 DEF IInv, CallOK, ListedOK
    <3>3. made' \in Nat /\ made <= made' /\ chain' \cap (1 .. made) \subseteq chain
      BY <2>1, <2>5 DEF IInv, WorldOK
    <3>4. \A y \in machines' : y \in machines
      BY <2>1
    <3> QED
      BY <2>3, <2>4, <2>5, <2>12, <2>9, <3>1, <3>2, <3>3, <3>4, Elsewhere
  <2>14. CallOK(c)'
    <3>1. ViewOK(c)'
      BY <1>1, <2>1, <2>3, <2>4, <2>5, <2>6, <2>9 DEF ViewOK
    <3>2. ListedOK(c)'
      BY <1>1, <2>1, <2>3, <2>5, <2>6, <2>12 DEF ListedOK, States
    <3>3. Keys(c) \subseteq 1 .. made
      BY <2>6 DEF ViewOK, Keys
    <3>4. plan'[c] = [put |-> plan'[c].put, new |-> New(c)', machine |-> plan'[c].machine,
                      users |-> plan'[c].users, drop |-> Dropped(c)']
      BY <2>3 DEF NoPlan, New, Dropped
    <3>5. FormOK(c)'
      BY <2>2, <2>4, <2>5, <2>7, <3>3, <3>4 DEF FormOK
    <3>6. PutOK(c)' /\ SiteOK(c)'
      BY <2>3, <2>7 DEF PutOK, SiteOK
    <3> QED
      BY <3>1, <3>2, <3>5, <3>6 DEF CallOK, PlanOK
  <2>15. ASSUME NEW d \in Calls, NEW e \in Calls PROVE PairOK(d, e)'
    BY <2>2, <2>7 DEF IInv, PairOK
  <2>16. SubnetsApart' /\ AddressesApart'
    <3>1. SubnetsApart'
      BY <2>4, <2>5 DEF IInv, SubnetsApart, AtOnce
    <3>2. AddressesApart'
      BY <2>1, <2>4, <2>5 DEF IInv, AddressesApart, AtOnce
    <3> QED
      BY <3>1, <3>2
  <2> QED
    BY <2>3, <2>8, <2>10, <2>11, <2>13, <2>14, <2>15, <2>16 DEF IInv
<1> QED
  BY <1>2, <1>3

LEMMA FinishInv == ASSUME IInv, NEW c \in Calls, Finish(c) PROVE IInv'
<1>1. /\ MapsOK' /\ pc'[c] = "done" /\ answer'[c] = {} /\ todo'[c] = {} /\ view'[c] = {}
      /\ plan'[c] = NoPlan
      /\ \A d \in Calls \ {c} :
           /\ pc'[d] = pc[d] /\ answer'[d] = answer[d] /\ todo'[d] = todo[d]
           /\ view'[d] = view[d] /\ plan'[d] = plan[d]
  BY EndMaps DEF IInv, Finish
<1>2. /\ pc[c] \in {"saving", "sending"}
      /\ machines' = machines \cup plan[c].machine
      /\ newContracts' = newContracts \cup New(c)
      /\ deletedContracts' = deletedContracts \cup Dropped(c)
      /\ made' = made /\ chain' = chain /\ carried' = carried /\ indexed' = indexed
      /\ crashes' = crashes /\ before' = before /\ forgotten' = forgotten
  BY DEF Finish, New, Dropped
<1>3. ViewOK(c) /\ ListedOK(c) /\ PlanOK(c)
  BY DEF IInv, CallOK
<1>4. before[c] \subseteq {d \in Calls : pc'[d] \in Over}
  BY <1>1, <1>3 DEF ListedOK, Over
<1>5. CallOK(c)' /\ New(c)' = {} /\ Dropped(c)' = {} /\ Keys(c)' = {} /\ Pending(c)' = {}
  BY <1>1, <1>2, <1>4, OverOK DEF Over
<1>6. \A d \in Calls \ {c} : /\ Keys(d)' = Keys(d) /\ New(d)' = New(d) /\ Pending(d)' = Pending(d)
                             /\ Dropped(d)' = Dropped(d)
  BY <1>1 DEF Keys, New, Pending, Dropped
<1>7. ASSUME NEW p \in plan[c].machine
      PROVE  /\ p.by = c /\ p.at \in 1 .. made /\ p.at \in New(c) \cup Keys(c)
             /\ p.at \in New(c) \/ Known(p.at)
             /\ p.at \in DOMAIN carried => p.node = carried[p.at].node
             /\ \A m \in machines : Clash(m, p) => AtOnce(m.by, c)
             /\ plan[c].machine = {p}
  BY <1>3 DEF PlanOK, SiteOK
<1>8. WorldOK'
  <2>1. IsFiniteSet(machines')
    <3>1. CASE plan[c].machine = {}
      BY <1>2, <3>1 DEF IInv, WorldOK
    <3>2. CASE plan[c].machine # {}
      <4>1. PICK p \in plan[c].machine : plan[c].machine = {p}
        BY <1>7, <3>2
      <4> QED
        BY <1>2, <4>1, FS_AddElement DEF IInv, WorldOK
    <3> QED
      BY <3>1, <3>2
  <2> QED
    BY <1>2, <1>3, <2>1 DEF IInv, WorldOK, PlanOK, FormOK
<1>9. ASSUME NEW x \in DOMAIN carried PROVE CarriedOK(x)'
  <2>1. CarriedOK(x)
    BY DEF IInv
  <2>2. CASE carried[x].by = c
    <3>1. x \in New(c)
      BY <1>2, <2>1, <2>2 DEF CarriedOK, Over
    <3> QED
      BY <1>1, <1>2, <2>1, <2>2, <3>1 DEF CarriedOK, Over
  <2>3. CASE carried[x].by # c
    <3>1. PICK b \in Calls \ {c} : b = carried[x].by
      BY <2>1, <2>3 DEF CarriedOK
    <3>2. pc'[b] = pc[b] /\ New(b)' = New(b)
      BY <1>1, <1>6
    <3> QED
      BY <1>2, <2>1, <3>1, <3>2 DEF CarriedOK, New
  <2> QED
    BY <2>2, <2>3
<1>10. \A x : Known(x) => Known(x)'
  BY <1>2 DEF Known
<1>11. ASSUME NEW m \in machines' PROVE MachineOK(m)'
  <2>1. CASE m \in machines
    <3>1. MachineOK(m)
      BY <2>1 DEF IInv
    <3>2. m.by \in Calls /\ pc'[m.by] \in Over
      BY <1>1, <3>1 DEF MachineOK, Over
    <3>3. \A d \in Calls : m.at \notin Pending(d)'
      BY <1>5, <1>6, <3>1 DEF MachineOK
    <3> QED
      BY <1>2, <1>10, <3>1, <3>2, <3>3 DEF MachineOK
  <2>2. CASE m \in plan[c].machine
    <3>1. ASSUME NEW d \in Calls PROVE m.at \notin Pending(d)'
      <4>1. CASE d = c
        BY <1>5, <4>1
      <4>2. CASE d # c
        <5>1. Pending(d) \cap Keys(c) = {} /\ New(d) \cap New(c) = {}
          BY <4>2 DEF IInv, PairOK
        <5>2. Pending(d)' \subseteq New(d) /\ Pending(d)' = Pending(d)
          BY <1>6, <4>2 DEF Pending
        <5> QED
          BY <1>7, <2>2, <5>1, <5>2
      <4> QED
        BY <4>1, <4>2
    <3>2. Known(m.at)'
      <4>1. CASE m.at \in New(c)
        BY <1>2, <4>1 DEF Known
      <4>2. CASE Known(m.at)
        BY <1>10, <4>2
      <4> QED
        BY <1>7, <2>2, <4>1, <4>2
    <3> QED
      BY <1>1, <1>2, <1>7, <2>2, <3>1, <3>2 DEF MachineOK, Over
  <2> QED
    BY <1>2, <2>1, <2>2
<1>12. ASSUME NEW d \in Calls \ {c} PROVE CallOK(d)'
  <2>1. Pending(d) \subseteq chain' \ deletedContracts'
    BY <1>2 DEF IInv, CallOK, PlanOK, FormOK, PairOK
  <2>2. answer[d] \cap chain' \subseteq indexed'
    BY <1>2 DEF IInv, CallOK, ListedOK
  <2>3. made' \in Nat /\ made <= made' /\ chain' \cap (1 .. made) \subseteq chain
    BY <1>2 DEF IInv, WorldOK
  <2>4. \A e \in Calls : pc[e] \in Over => pc'[e] \in Over
    BY <1>1 DEF Over
  <2>5. \A x \in DOMAIN carried' : Stays(x)
    BY <1>2 DEF Stays
  <2>6. ASSUME NEW m \in machines', m \notin machines
        PROVE  m.by \notin before[d] /\ (pc[d] = "sending" => AtOnce(m.by, d)')
    <3>1. m.by = c
      BY <1>2, <1>7, <2>6
    <3>2. c \notin before[d]
      BY <1>2 DEF IInv, CallOK, ListedOK, Over
    <3>3. pc[d] = "sending" => AtOnce(c, d)
      BY <1>2, BusyApart DEF Over
    <3> QED
      BY <1>2, <3>1, <3>2, <3>3 DEF AtOnce
  <2>7. newContracts \ newContracts' \subseteq answer[d]
    BY <1>2
  <2> QED
    BY <1>1, <1>2, <1>10, <2>1, <2>2, <2>3, <2>4, <2>5, <2>6, <2>7, Elsewhere
<1>13. ASSUME NEW d \in Calls, NEW e \in Calls PROVE PairOK(d, e)'
  BY <1>5, <1>6 DEF IInv, PairOK
<1>14. SubnetsApart' /\ AddressesApart'
  <2>1. SubnetsApart'
    BY <1>2 DEF IInv, SubnetsApart, AtOnce
  <2>2. ASSUME NEW x \in machines', NEW y \in machines', x # y, x.node = y.node, x.ip = y.ip,
               x.at = y.at \/ (forgotten = {} /\ {x.at, y.at} \subseteq DOMAIN carried)
        PROVE  AtOnce(x.by, y.by)
    <3>1. CASE x \in machines /\ y \in machines
      BY <2>2, <3>1 DEF IInv, AddressesApart
    <3>2. CASE x \in machines /\ y \in plan[c].machine
      <4>1. Clash(x, y)
        BY <2>2 DEF Clash
      <4> QED
        BY <1>7, <3>2, <4>1
    <3>3. CASE x \in plan[c].machine /\ y \in machines
      <4>1. Clash(y, x)
        BY <2>2 DEF Clash
      <4>2. AtOnce(y.by, c) /\ x.by = c
        BY <1>7, <3>3, <4>1
      <4> QED
        BY <4>2 DEF AtOnce
    <3>4. CASE x \in plan[c].machine /\ y \in plan[c].machine
      BY <1>7, <2>2, <3>4
    <3> QED
      BY <1>2, <3>1, <3>2, <3>3, <3>4
  <2>3. AddressesApart'
    BY <1>2, <2>2 DEF AddressesApart, AtOnce
  <2> QED
    BY <2>1, <2>3
<1> QED
  BY <1>1, <1>2, <1>5, <1>8, <1>9, <1>11, <1>12, <1>13, <1>14 DEF IInv

-----------------------------------------------------------------------------
(* The plan of a deployment.                                                 *)

\* The nodes that join and the workloads to send, without the mesh they make.
Planned(c, joined, granted, put, site) ==
    LET new == {n.key : n \in joined} IN
    /\ chain' = chain \cup new
    /\ todo' = [todo EXCEPT ![c] = {w.key : w \in put}]
    /\ plan' = [plan EXCEPT ![c] =
         [put |-> put, new |-> new, users |-> granted, drop |-> {},
          machine |-> {[by |-> c, node |-> site.node, at |-> site.key,
                        ip |-> FreeIP(site)]}]]
    /\ \A j \in joined : /\ j.key \in {made + 1, made + 3} /\ j.ips = {}
                         /\ j.subnet \notin Subnets(view[c])
                         /\ j.node \notin NodesOf(view[c])
    /\ \A i, j \in joined : i # j => i.key # j.key /\ i.subnet # j.subnet
    /\ \A w \in put : /\ IsFiniteSet(w.peers)
                      /\ \E n \in view[c] \cup joined :
                           w.key = n.key /\ w.node = n.node /\ w.subnet = n.subnet
    /\ \A j \in joined : \E w \in put : w.key = j.key
    /\ site \in view[c] \cup joined

LEMMA FreeIPIsFree ==
  ASSUME NEW n, IsFiniteSet(n.ips)
  PROVE  FreeIP(n) \notin n.ips
<1> DEFINE S == {a \in n.ips : a[1] = n.subnet}
           host == [a \in S |-> a[2]]
           hosts == {a[2] : a \in S}
<1>1. IsFiniteSet(hosts)
  <2>1. S \in SUBSET n.ips
    OBVIOUS
  <2>2. hosts = {host[a] : a \in S}
    OBVIOUS
  <2> HIDE DEF S, host
  <2>3. IsFiniteSet({host[a] : a \in S})
    BY <2>1, FS_Subset, FiniteImage
  <2> QED
    BY <2>2, <2>3
<1>2. FirstFree(hosts) \notin hosts
  <2> HIDE DEF hosts
  <2> QED
    BY <1>1, FreeIsFree
<1>3. FreeIP(n) = <<n.subnet, FirstFree(hosts)>>
  BY DEF FreeIP
<1>4. ASSUME NEW h, <<n.subnet, h>> \in n.ips PROVE h \in hosts
  <2>1. <<n.subnet, h>> \in S
    BY <1>4
  <2> QED
    BY <2>1
<1> HIDE DEF hosts
<1> QED
  BY <1>2, <1>3, <1>4

\* Only nodes that are not in the network join it.
LEMMA JoinedElsewhere ==
  ASSUME NEW c \in Calls, NEW g \in Gateways, NEW known
  PROVE  \A j \in Extension(c, g, known).joined : j.node \notin NodesOf(view[c])
BY DEF Extension, Joining, NodesOf

LEMMA DeployFacts ==
  ASSUME IInv, NEW c \in Calls, Deploy(c), ~Fail(c)
  PROVE  /\ Loaded(c)
         /\ Prune(c, indexed) /\ made' = made + 3 /\ pc' = [pc EXCEPT ![c] = "sending"]
         /\ UNCHANGED <<carried, indexed, machines, users, deletedContracts, job,
                        answer, view, crashes, before, overlapped, cutOff, halfSent>>
         /\ \E joined, granted, put, site : Planned(c, joined, granted, put, site)
<1> DEFINE known == Listing(indexed) # {}
           ext(g) == Extension(c, g, known)
           nets(g) == view[c] \cup ext(g).joined
           new(g) == {n.key : n \in ext(g).joined}
           put(g, lead, relay) == Workloads(c, ext(g), lead, relay, known)
           Chosen(g, relay, lead, site) ==
             /\ plan' = [plan EXCEPT ![c] =
                  [put |-> put(g, lead, relay), new |-> new(g), users |-> ext(g).granted,
                   drop |-> {},
                   machine |-> {[by |-> c, node |-> site.node, at |-> site.key,
                                 ip |-> FreeIP(site)]}]]
             /\ todo' = [todo EXCEPT ![c] = {w.key : w \in put(g, lead, relay)}]
             /\ site \in nets(g) /\ lead \in Leads(nets(g))
           Rest == /\ made' = made + 3 /\ Prune(c, indexed) /\ pc' = [pc EXCEPT ![c] = "sending"]
                   /\ UNCHANGED <<carried, indexed, machines, users, deletedContracts, job,
                                  answer, view, crashes, before, overlapped, cutOff, halfSent>>
<1>1. PICK g \in Gateways : /\ \E relay, lead, site : Chosen(g, relay, lead, site)
                            /\ chain' = chain \cup new(g) /\ Rest
  <2>1. PICK g \in IF job[c].wish.access /\ job[c].wish.via # NoNode
                  THEN {job[c].wish.via} ELSE Gateways :
          \/ /\ \E relay \in IF ext(g).joined = {} THEN {<<>>}
                            ELSE [HiddenNets(nets(g)) -> Gateways \cap NodesOf(nets(g))],
                   lead \in Leads(nets(g)),
                   site \in {n \in nets(g) : n.node = job[c].wish.node} :
                  /\ {w.key : w \in put(g, lead, relay)} \ new(g) \subseteq chain
                  /\ plan' = [plan EXCEPT ![c] =
                       [put |-> put(g, lead, relay), new |-> new(g), users |-> ext(g).granted,
                        drop |-> {},
                        machine |-> {[by |-> c, node |-> site.node, at |-> site.key,
                                      ip |-> FreeIP(site)]}]]
                  /\ todo' = [todo EXCEPT ![c] = {w.key : w \in put(g, lead, relay)}]
             /\ chain' = chain \cup new(g)
             /\ made' = made + 3
             /\ Prune(c, indexed)
             /\ pc' = [pc EXCEPT ![c] = "sending"]
             /\ UNCHANGED <<carried, indexed, machines, users, deletedContracts, job,
                            answer, view, crashes, before, overlapped, cutOff, halfSent>>
          \/ /\ \/ ext(g).joined # {} /\ HiddenNets(nets(g)) # {}
                   /\ Gateways \cap NodesOf(nets(g)) = {}
                \/ /\ ext(g).joined # {} /\ known
                   /\ ~({n.key : n \in view[c]} \subseteq chain)
             /\ Fail(c)
    BY DEF Deploy
  <2>2. /\ \E relay, lead, site : Chosen(g, relay, lead, site)
        /\ chain' = chain \cup new(g) /\ Rest
    <3> HIDE DEF put, new, nets, ext, known
    <3> QED
      BY <2>1
  <2>3. g \in Gateways
    <3>1. job[c].wish \in Wishes
      BY DEF IInv, MapsOK, Deploy
    <3>2. job[c].wish.via \in Gateways \cup {NoNode}
      BY <3>1, NetworkAssumption
    <3> QED
      BY <2>1, <3>2
  <2> HIDE DEF Chosen, new, Rest
  <2> QED
    BY <2>2, <2>3
<1>2. PICK relay, lead, site : Chosen(g, relay, lead, site)
  BY <1>1
<1> DEFINE E == ext(g)
           joined == E.joined
           granted == E.granted
           P == put(g, lead, relay)
<1>3. Nets(view[c]) /\ made \in Nat
  BY DEF IInv, WorldOK, CallOK, ViewOK, Nets
<1>4. /\ IsFiniteSet(joined) /\ IsFiniteSet(granted)
      /\ \A j \in joined : /\ j.key \in {made + 1, made + 3}
                           /\ j.subnet \notin Subnets(view[c])
                           /\ j.node \notin NodesOf(view[c])
                           /\ j.peers = {} /\ j.ips = {}
      /\ \A i, j \in joined : i # j => i.key # j.key /\ i.subnet # j.subnet
  <2> HIDE DEF known
  <2>1. \A j \in joined : j.node \notin NodesOf(view[c])
    BY JoinedElsewhere
  <2>2. /\ IsFiniteSet(joined) /\ IsFiniteSet(granted)
        /\ \A j \in joined : /\ j.key \in {made + 1, made + 3}
                             /\ j.subnet \notin Subnets(view[c])
                             /\ j.peers = {} /\ j.ips = {} /\ j.wg = j.key
        /\ \A i, j \in joined : i # j => i.key # j.key /\ i.subnet # j.subnet
        /\ job[c].wish.node \in NodesOf(view[c] \cup joined)
    BY <1>3, ExtensionFacts
  <2> HIDE DEF joined, granted
  <2> QED
    BY <2>1, <2>2
<1>5. site \in view[c] \cup joined /\ lead \in Leads(view[c] \cup joined)
  BY <1>2
<1>6. /\ \A w \in P : /\ IsFiniteSet(w.peers)
                      /\ \E n \in view[c] \cup joined :
                           w.key = n.key /\ w.node = n.node /\ w.subnet = n.subnet
      /\ \A j \in joined : \E w \in P : w.key = j.key
  <2>1. P = Workloads(c, E, lead, relay, known)
    OBVIOUS
  <2>2. IsFiniteSet(E.joined) /\ IsFiniteSet(E.granted) /\ \A j \in E.joined : j.peers = {}
    BY <1>4
  <2>3. lead \in Leads(view[c] \cup E.joined)
    BY <1>5
  <2> HIDE DEF known, E, P
  <2> QED
    BY <1>3, <2>1, <2>2, <2>3, WorkloadsFacts
<1>7. /\ chain' = chain \cup {n.key : n \in joined}
      /\ todo' = [todo EXCEPT ![c] = {w.key : w \in P}]
      /\ plan' = [plan EXCEPT ![c] =
           [put |-> P, new |-> {n.key : n \in joined}, users |-> granted, drop |-> {},
            machine |-> {[by |-> c, node |-> site.node, at |-> site.key, ip |-> FreeIP(site)]}]]
  BY <1>1, <1>2
<1>8. Loaded(c)
  BY DEF Deploy
<1> HIDE DEF joined, granted, P
<1>9. Planned(c, joined, granted, P, site)
  BY <1>4, <1>5, <1>6, <1>7 DEF Planned
<1> QED
  BY <1>1, <1>8, <1>9

LEMMA DeployInv == ASSUME IInv, NEW c \in Calls, Deploy(c) PROVE IInv'
<1>1. pc[c] = "loading" /\ todo[c] = {}
  BY DEF Deploy, Loaded
<1>2. CASE Fail(c)
  BY <1>1, <1>2, FailInv
<1>3. CASE ~Fail(c)
  <2>1. /\ Prune(c, indexed) /\ made' = made + 3 /\ pc' = [pc EXCEPT ![c] = "sending"]
        /\ carried' = carried /\ indexed' = indexed /\ machines' = machines
        /\ deletedContracts' = deletedContracts /\ job' = job /\ answer' = answer
        /\ view' = view /\ crashes' = crashes /\ before' = before
    BY <1>3, DeployFacts
  <2>2. PICK joined, granted, put, site : Planned(c, joined, granted, put, site)
    BY <1>3, DeployFacts
  <2> DEFINE nets == view[c] \cup joined
             new == {n.key : n \in joined}
             p == [by |-> c, node |-> site.node, at |-> site.key, ip |-> FreeIP(site)]
             its == [put |-> put, new |-> new, users |-> granted, drop |-> {}, machine |-> {p}]
  <2>3. /\ chain' = chain \cup new
        /\ todo' = [todo EXCEPT ![c] = {w.key : w \in put}]
        /\ plan' = [plan EXCEPT ![c] = its]
    BY <2>2 DEF Planned
  <2>4. its.new = new /\ its.put = put /\ its.drop = {} /\ its.machine = {p}
        /\ p.by = c /\ p.node = site.node /\ p.at = site.key /\ p.ip = FreeIP(site)
        /\ its = [put |-> its.put, new |-> its.new, machine |-> its.machine,
                  users |-> its.users, drop |-> its.drop]
    OBVIOUS
  <2>5. ViewOK(c) /\ ListedOK(c) /\ PlanOK(c)
    BY DEF IInv, CallOK
  <2>6. /\ made \in Nat /\ made' \in Nat /\ 1 .. made \subseteq 1 .. made'
        /\ Keys(c) \subseteq 1 .. made /\ new \cap (1 .. made) = {} /\ new \subseteq 1 .. made'
    <3>1. made \in Nat
      BY DEF IInv, WorldOK
    <3>2. Keys(c) \subseteq 1 .. made
      BY <2>5 DEF ViewOK, Keys
    <3>3. new \subseteq {made + 1, made + 3}
      BY <2>2 DEF Planned
    <3> QED
      BY <2>1, <3>1, <3>2, <3>3
  <2>7. /\ \A n \in view[c] : n.key \in 1 .. made
        /\ \A n \in joined : n.key \in new
        /\ \A m, n \in nets : m.key = n.key => m = n
    <3>1. \A n \in view[c] : n.key \in 1 .. made
      BY <2>5 DEF ViewOK
    <3>2. \A m, n \in joined : m.key = n.key => m = n
      BY <2>2 DEF Planned
    <3>3. \A n \in joined : n.key \in new
      OBVIOUS
    <3>4. \A m, n \in view[c] : m.key = n.key => m = n
      BY <2>5 DEF ViewOK
    <3> HIDE DEF new
    <3> QED
      BY <2>6, <3>1, <3>2, <3>3, <3>4
  <2>8. site \in nets
    BY <2>2 DEF Planned
  <2> HIDE DEF p, its
  <2>9. /\ MapsOK' /\ pc'[c] = "sending" /\ todo'[c] = {w.key : w \in put} /\ plan'[c] = its
        /\ \A d \in Calls \ {c} : pc'[d] = pc[d] /\ todo'[d] = todo[d] /\ plan'[d] = plan[d]
    <3>1. /\ pc' = [d \in Calls |-> pc'[d]] /\ pc'[c] = "sending"
          /\ \A d \in Calls \ {c} : pc'[d] = pc[d]
      BY <2>1, Assigned DEF IInv, MapsOK
    <3>2. /\ plan' = [d \in Calls |-> plan'[d]] /\ plan'[c] = its
          /\ \A d \in Calls \ {c} : plan'[d] = plan[d]
      BY <2>3, Assigned DEF IInv, MapsOK
    <3>3. /\ todo' = [d \in Calls |-> todo'[d]] /\ todo'[c] = {w.key : w \in put}
          /\ \A d \in Calls \ {c} : todo'[d] = todo[d]
      BY <2>3, Assigned DEF IInv, MapsOK
    <3> QED
      BY <2>1, <3>1, <3>2, <3>3 DEF IInv, MapsOK
  <2>10. /\ newContracts' = newContracts \ indexed
         /\ forgotten' = {} => /\ forgotten = {}
                               /\ \A d \in Calls \ {c} : pc[d] = "asking" =>
                                    newContracts \ newContracts' \subseteq answer[d]
    BY <2>1 DEF Prune
  <2>11. \A k \in 1 .. made : Known(k) => Known(k)'
    BY <2>1, <2>3, <2>6, <2>10 DEF Known
  <2>12. /\ New(c)' = new /\ Dropped(c)' = {} /\ Keys(c)' = Keys(c) /\ Pending(c)' \subseteq new
         /\ \A d \in Calls \ {c} : /\ New(d)' = New(d) /\ Pending(d)' = Pending(d)
                                   /\ Dropped(d)' = Dropped(d) /\ Keys(d)' = Keys(d)
    BY <2>1, <2>4, <2>9 DEF New, Pending, Dropped, Keys
  <2> HIDE DEF new, nets
  <2>13. WorldOK'
    BY <2>1, <2>3, <2>6, <2>10 DEF IInv, WorldOK
  <2>14. ASSUME NEW x \in DOMAIN carried
         PROVE  /\ CarriedOK(x)'
                /\ carried[x].by \notin before[c] => AtOnce(carried[x].by, c)
    <3>1. CarriedOK(x)
      BY DEF IInv
    <3>2. PICK b \in Calls \ {c} : b = carried[x].by
      BY <1>1, <3>1 DEF CarriedOK, Over
    <3>3. pc'[b] = pc[b] /\ New(b)' = New(b)
      BY <2>9, <2>12
    <3>4. c \notin before[b]
      BY <1>1 DEF IInv, CallOK, ListedOK, Over
    <3> QED
      BY <2>1, <2>10, <3>1, <3>2, <3>3, <3>4 DEF CarriedOK, AtOnce
  <2>15. ASSUME NEW m \in machines
         PROVE  MachineOK(m)' /\ (m.by \notin before[c] => AtOnce(m.by, c))
    <3>1. MachineOK(m)
      BY DEF IInv
    <3>2. PICK b \in Calls \ {c} : b = m.by
      BY <1>1, <3>1 DEF MachineOK, Over
    <3>3. \A d \in Calls : m.at \notin Pending(d)'
      BY <2>6, <2>12, <3>1 DEF MachineOK
    <3>4. c \notin before[b]
      BY <1>1 DEF IInv, CallOK, ListedOK, Over
    <3> QED
      BY <2>1, <2>6, <2>9, <2>11, <3>1, <3>2, <3>3, <3>4 DEF MachineOK, AtOnce
  <2>16. \A e \in Calls : pc[e] \in Over => pc'[e] \in Over
    BY <1>1, <2>9 DEF Over
  <2>17. ASSUME NEW d \in Calls \ {c} PROVE CallOK(d)'
    <3>1. Pending(d) \subseteq chain' \ deletedContracts'
      BY <2>1, <2>3 DEF IInv, CallOK, PlanOK, FormOK
    <3>2. answer[d] \cap chain' \subseteq indexed'
      BY <2>1, <2>3, <2>6 DEF IInv, CallOK, ListedOK
    <3>3. made <= made' /\ chain' \cap (1 .. made) \subseteq chain
      BY <2>1, <2>3, <2>6
    <3>4. \A x \in DOMAIN carried' : Stays(x)
      BY <2>1 DEF Stays
    <3> QED
      BY <2>1, <2>6, <2>9, <2>10, <2>16, <2>11, <3>1, <3>2, <3>3, <3>4, Elsewhere
  <2>18. ViewOK(c)'
    BY <1>1, <2>1, <2>5, <2>6, <2>9, <2>11 DEF ViewOK
  <2>19. ASSUME NEW w \in put
         PROVE  /\ IsFiniteSet(w.peers) /\ w.key \in new \cup Keys(c)
                /\ \E n \in nets : w.key = n.key /\ w.node = n.node /\ w.subnet = n.subnet
    <3>1. PICK n \in nets : w.key = n.key /\ w.node = n.node /\ w.subnet = n.subnet
      BY <2>2 DEF Planned, nets
    <3> QED
      BY <2>2, <3>1 DEF Planned, nets, new, Keys
  <2>20. ListedOK(c)'
    <3>1. todo'[c] \subseteq 1 .. made'
      BY <2>6, <2>9, <2>19
    <3>2. answer[c] \cap chain' \subseteq indexed'
      BY <2>1, <2>3, <2>5, <2>6 DEF ListedOK
    <3> QED
      BY <2>1, <2>5, <2>6, <2>9, <2>16, <3>1, <3>2 DEF ListedOK, States
  <2>21. FormOK(c)'
    <3>1. new \cap (DOMAIN carried \cup deletedContracts) = {}
      BY <2>6 DEF IInv, WorldOK
    <3>2. plan'[c] = [put |-> plan'[c].put, new |-> plan'[c].new, machine |-> plan'[c].machine,
                      users |-> plan'[c].users, drop |-> plan'[c].drop]
      BY <2>4, <2>9
    <3> QED
      BY <2>1, <2>3, <2>6, <2>9, <2>12, <3>1, <3>2 DEF FormOK, New, Dropped
  <2>22. ASSUME NEW n \in nets, n.key \in DOMAIN carried
         PROVE  n \in view[c] /\ n.node = carried[n.key].node /\ n.subnet = carried[n.key].subnet
    <3>1. n.key \in 1 .. made
      BY <2>22 DEF IInv, WorldOK
    <3>2. n \in view[c]
      BY <2>6, <2>7, <3>1 DEF nets
    <3> QED
      BY <2>5, <2>22, <3>2 DEF ViewOK
  <2>23. ASSUME NEW j \in joined, forgotten' = {}, NEW k \in DOMAIN carried,
                carried[k].subnet = j.subnet
         PROVE  AtOnce(carried[k].by, c)
    <3>1. CASE carried[k].by \in before[c]
      <4>1. k \in Keys(c)
        BY <1>1, <2>5, <2>10, <2>23, <3>1 DEF ListedOK, Since
      <4>2. PICK n \in view[c] : n.key = k
        BY <4>1 DEF Keys
      <4>3. n.subnet = j.subnet
        BY <2>5, <2>23, <4>2 DEF ViewOK
      <4>4. j.subnet \notin Subnets(view[c])
        BY <2>2 DEF Planned
      <4> QED
        BY <4>3, <4>4 DEF Subnets
    <3>2. CASE carried[k].by \notin before[c]
      BY <2>14, <3>2
    <3> QED
      BY <3>1, <3>2
  <2>24. ASSUME NEW w \in put, w.key \in new
         PROVE  \E j \in joined : w.key = j.key /\ w.node = j.node /\ w.subnet = j.subnet
    <3>1. PICK n \in nets : w.key = n.key /\ w.node = n.node /\ w.subnet = n.subnet
      BY <2>19
    <3>2. n \in joined
      BY <2>6, <2>7, <2>24, <3>1 DEF nets
    <3> QED
      BY <3>1, <3>2
  <2>25. PutOK(c)'
    <3>1. todo'[c] \cup new \subseteq {w.key : w \in put}
      BY <2>2, <2>9 DEF Planned, new
    <3>2. ASSUME NEW w \in put, w.key \in DOMAIN carried
          PROVE  w.node = carried[w.key].node /\ w.subnet = carried[w.key].subnet
      BY <2>19, <2>22, <3>2
    <3>3. ASSUME NEW w \in put, NEW x \in put, w.key \in new
          PROVE  IF x.key = w.key THEN x.node = w.node /\ x.subnet = w.subnet
                 ELSE x.key \in new => x.subnet # w.subnet
      <4>1. CASE x.key = w.key
        BY <2>7, <2>19, <4>1
      <4>2. CASE x.key # w.key /\ x.key \in new
        <5>1. PICK i \in joined, j \in joined :
                /\ w.key = i.key /\ w.subnet = i.subnet
                /\ x.key = j.key /\ x.subnet = j.subnet
          BY <2>24, <3>3, <4>2
        <5>2. i.subnet # j.subnet
          BY <2>2, <4>2, <5>1 DEF Planned
        <5> QED
          BY <4>2, <5>1, <5>2
      <4> QED
        BY <4>1, <4>2
    <3>4. ASSUME NEW w \in put, w.key \in new, forgotten' = {}, NEW k \in DOMAIN carried,
                 carried[k].subnet = w.subnet
          PROVE  AtOnce(carried[k].by, c)'
      <4>1. AtOnce(carried[k].by, c)
        BY <2>23, <2>24, <3>4
      <4> QED
        BY <2>1, <4>1 DEF AtOnce
    <3>5. plan'[c].put = put
      BY <2>4, <2>9
    <3> QED
      BY <2>1, <2>12, <2>19, <3>1, <3>2, <3>3, <3>4, <3>5 DEF PutOK
  <2>26. SiteOK(c)'
    <3>1. p.at \in 1 .. made' /\ p.at \in new \cup Keys(c)
      BY <2>4, <2>6, <2>7, <2>8 DEF nets, Keys
    <3>2. p.at \in DOMAIN carried => p.node = carried[p.at].node
      BY <2>4, <2>8, <2>22
    <3>3. \A w \in put : w.key = p.at => w.node = p.node
      BY <2>4, <2>7, <2>8, <2>19
    <3>4. ASSUME NEW m \in machines, Clash(m, p)' PROVE AtOnce(m.by, c)'
      <4>1. CASE m.by \in before[c]
        <5>1. /\ m.at \in 1 .. made /\ m.node = site.node /\ m.ip = FreeIP(site)
              /\ m.at = site.key \/ (forgotten = {} /\ m.at \in DOMAIN carried)
              /\ m.at \in DOMAIN carried => m.node = carried[m.at].node
          BY <2>1, <2>4, <2>10, <3>4 DEF IInv, MachineOK, Clash
        <5>2. site \in view[c]
          <6>1. CASE m.at = site.key
            BY <2>6, <2>7, <2>8, <5>1, <6>1 DEF nets
          <6>2. CASE forgotten = {} /\ m.at \in DOMAIN carried
            <7>1. m.at \in Keys(c)
              BY <1>1, <2>5, <4>1, <6>2 DEF ListedOK, Since
            <7>2. PICK n \in view[c] : n.key = m.at
              BY <7>1 DEF Keys
            <7>3. n.node = site.node
              BY <2>5, <5>1, <6>2, <7>2 DEF ViewOK
            <7>4. \A j \in joined : j.node \notin NodesOf(view[c])
              BY <2>2 DEF Planned
            <7> QED
              BY <2>8, <7>3, <7>4 DEF nets, NodesOf
          <6> QED
            BY <5>1, <6>1, <6>2
        <5>3. m.ip \in site.ips /\ IsFiniteSet(site.ips)
          BY <2>5, <4>1, <5>1, <5>2 DEF ViewOK
        <5>4. FreeIP(site) \notin site.ips
          BY <5>3, FreeIPIsFree
        <5> QED
          BY <5>1, <5>3, <5>4
      <4>2. CASE m.by \notin before[c]
        BY <2>1, <2>15, <4>2 DEF AtOnce
      <4> QED
        BY <4>1, <4>2
    <3>5. plan'[c].put = put /\ plan'[c].machine = {p}
      BY <2>4, <2>9
    <3>6. p.at \in new \/ Known(p.at)'
      <4>1. CASE site \in view[c]
        <5>1. site.key \in 1 .. made /\ Known(site.key)
          BY <2>5, <4>1 DEF ViewOK
        <5> QED
          BY <2>4, <2>11, <5>1
      <4>2. CASE site \in joined
        BY <2>4, <2>7, <4>2
      <4> QED
        BY <2>8, <4>1, <4>2 DEF nets
    <3> QED
      BY <2>1, <2>4, <2>12, <3>1, <3>2, <3>3, <3>4, <3>5, <3>6 DEF SiteOK
  <2>27. ASSUME NEW d \in Calls, NEW e \in Calls PROVE PairOK(d, e)'
    <3>1. /\ New(d) \subseteq 1 .. made /\ New(e) \subseteq 1 .. made
          /\ Dropped(e) \subseteq 1 .. made /\ Keys(e) \subseteq 1 .. made
      <4>1. FormOK(d) /\ FormOK(e) /\ ViewOK(e)
        BY DEF IInv, CallOK, PlanOK
      <4> QED
        BY <4>1 DEF FormOK, ViewOK, Keys
    <3>2. PairOK(d, e)
      BY DEF IInv
    <3>3. Pending(d)' \cap (Keys(e)' \cup Dropped(e)') = {}
      BY <2>6, <2>12, <3>1, <3>2 DEF PairOK
    <3>4. d # e => New(d)' \cap New(e)' = {}
      BY <2>6, <2>12, <3>1, <3>2 DEF PairOK
    <3> QED
      BY <3>3, <3>4 DEF PairOK
  <2>28. SubnetsApart' /\ AddressesApart'
    BY <2>1, <2>10 DEF IInv, SubnetsApart, AddressesApart, AtOnce
  <2> QED
    BY <2>1, <2>9, <2>13, <2>14, <2>15, <2>17, <2>18, <2>20, <2>21, <2>25, <2>26, <2>27, <2>28
       DEF IInv, CallOK, PlanOK
<1> QED
  BY <1>2, <1>3

-----------------------------------------------------------------------------
(* The theorems.                                                             *)

LEMMA NextInv == ASSUME IInv, [Next]_vars PROVE IInv'
<1>1. ASSUME NEW c \in Calls,
             \/ Ask(c) \/ Merge(c) \/ Deploy(c) \/ RollBack(c) \/ Remove(c) \/ Finish(c)
             \/ \E k \in 1 .. made : Fetch(c, k) \/ Send(c, k)
      PROVE  IInv'
  BY <1>1, AskInv, MergeInv, DeployInv, RollBackInv, RemoveInv, FinishInv, FetchInv, SendInv
<1>2. ASSUME NEW k \in 1 .. made, Index(k) PROVE IInv'
  BY <1>2, IndexInv
<1>3. CASE Crash
  BY <1>3, CrashInv
<1>4. CASE UNCHANGED vars
  BY <1>4, StutterInv
<1> QED
  BY <1>1, <1>2, <1>3, <1>4 DEF Next

LEMMA Invariance == Spec => []IInv
<1>1. Init => IInv
  BY InitInv
<1>2. IInv /\ [Next]_vars => IInv'
  BY NextInv
<1> QED
  BY <1>1, <1>2, PTL DEF Spec

\* Every variable keeps the values network.ts gives it: a contract, a listing and a
\* load never name a contract that was not made (network.ts:633-668, 683-712).
THEOREM TypesHold == Spec => []TypeOK
<1>1. IInv => TypeOK
  <2> SUFFICES ASSUME IInv PROVE TypeOK
    OBVIOUS
  <2>1. pc \in [Calls -> {"idle", "asking", "loading", "sending", "saving"} \cup Over]
    BY DEF IInv, MapsOK, CallOK, ListedOK, States
  <2> QED
    BY <2>1 DEF IInv, WorldOK, CallOK, ListedOK, TypeOK
<1> QED
  BY <1>1, Invariance, PTL

\* getFreeSubnet looks at the networks that were loaded and reserves nothing, and the
\* listing behind the load mixes an indexer that lags with the static lists
\* (network.ts:555-588, 633-668).  Yet two nodes have one subnet only from calls under
\* way at once, for any number of calls, whatever the lag, unless the static list
\* forgot a contract that the indexer did not have.
THEOREM SubnetsGivenOnce == Spec => []SubnetsApart
<1>1. IInv => SubnetsApart
  BY DEF IInv
<1> QED
  BY <1>1, Invariance, PTL

\* getFreeIP takes the first address that the node, asked during the load, did not
\* report (network.ts:490-536, 670-681).  Two machines of a node have one address while
\* the network of both is there only from calls under way at once, for any number of
\* calls and whatever the lag, unless the static list forgot a contract that the indexer
\* did not have; two of one network contract not even after that.
THEOREM AddressesGivenOnce == Spec => []AddressesApart
<1>1. IInv => AddressesApart
  BY DEF IInv
<1> QED
  BY <1>1, Invariance, PTL
=============================================================================
