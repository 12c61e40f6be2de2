---------------------- MODULE DeploymentUpdate_proofs ----------------------
(***************************************************************************)
(* What UpdateDeployment returns, for lists of workloads of any length.    *)
(***************************************************************************)
EXTENDS DeploymentUpdate, FiniteSetTheorems, TLAPS

-----------------------------------------------------------------------------
(* Pick keeps the elements it is asked to keep, and no others.               *)

UpTo(i, keep) == {j \in keep : j <= i}
Nth(k, keep) == CHOOSE i \in keep : Cardinality(UpTo(i, keep)) = k

\* The ranks of a set of positions are the numbers up to its size.
LEMMA RankFacts ==
  ASSUME NEW n \in Nat, NEW keep \in SUBSET (1..n)
  PROVE  /\ IsFiniteSet(keep) /\ Cardinality(keep) \in Nat
         /\ \A i \in keep : Cardinality(UpTo(i, keep)) \in 1..Cardinality(keep)
         /\ \A i, j \in keep : Cardinality(UpTo(i, keep)) = Cardinality(UpTo(j, keep)) => i = j
<1>1. IsFiniteSet(keep)
  <2>1. IsFiniteSet(1..n)
    BY FS_Interval
  <2> QED
    BY <2>1, FS_Subset
<1>2. \A i \in keep : /\ UpTo(i, keep) \subseteq keep /\ i \in UpTo(i, keep)
                     /\ IsFiniteSet(UpTo(i, keep))
  BY <1>1, FS_Subset DEF UpTo
<1>3. Cardinality(keep) \in Nat /\ \A i \in keep : Cardinality(UpTo(i, keep)) \in Nat
  BY <1>1, <1>2, FS_CardinalityType
<1>4. \A i \in keep : Cardinality(UpTo(i, keep)) <= Cardinality(keep)
  BY <1>1, <1>2, FS_Subset
<1>5. \A i \in keep : Cardinality(UpTo(i, keep)) # 0
  BY <1>2, FS_EmptySet
<1>6. ASSUME NEW i \in keep, NEW j \in keep, i < j
      PROVE  Cardinality(UpTo(i, keep)) # Cardinality(UpTo(j, keep))
  <2>1. i \in Nat /\ j \in Nat /\ \A k \in keep : k \in Nat
    OBVIOUS
  <2>2. \A k \in keep : k <= i => k <= j
    BY <1>6, <2>1
  <2>3. ~(j <= i)
    BY <1>6, <2>1
  <2>4. UpTo(i, keep) \subseteq UpTo(j, keep) /\ j \notin UpTo(i, keep)
    BY <2>2, <2>3 DEF UpTo
  <2> QED
    BY <2>4, <1>2, FS_Subset
<1>7. \A i, j \in keep : i = j \/ i < j \/ j < i
  OBVIOUS
<1> QED
  BY <1>1, <1>3, <1>4, <1>5, <1>6, <1>7

LEMMA RanksReached ==
  ASSUME NEW n \in Nat, NEW keep \in SUBSET (1..n)
  PROVE  /\ \A k \in 1..Cardinality(keep) :
              Nth(k, keep) \in keep /\ Cardinality(UpTo(Nth(k, keep), keep)) = k
         /\ \A i \in keep : \E k \in 1..Cardinality(keep) : Nth(k, keep) = i
<1>1. IsFiniteSet(keep) /\ Cardinality(keep) \in Nat
  BY RankFacts
<1>2. ASSUME NEW k \in 1..Cardinality(keep)
      PROVE  \E i \in keep : Cardinality(UpTo(i, keep)) = k
  <2> SUFFICES ASSUME \A i \in keep : Cardinality(UpTo(i, keep)) # k PROVE FALSE
    OBVIOUS
  <2> DEFINE T == (1..Cardinality(keep)) \ {k}
             f == [i \in keep |-> Cardinality(UpTo(i, keep))]
  <2>1. f \in [keep -> T]
    BY RankFacts
  <2>2. IsFiniteSet(T) /\ Cardinality(T) = Cardinality(keep) - 1
    <3>1. /\ IsFiniteSet(1..Cardinality(keep))
          /\ Cardinality(1..Cardinality(keep)) = Cardinality(keep)
      BY <1>1, <1>2, FS_Interval
    <3> QED
      BY <3>1, <1>2, FS_RemoveElement
  <2>3. Cardinality(T) < Cardinality(keep)
    BY <1>1, <2>2
  <2> HIDE DEF T, f
  <2>4. \E i, j \in keep : i # j /\ f[i] = f[j]
    BY <1>1, <2>1, <2>2, <2>3, FS_PigeonHole
  <2> QED
    BY <2>4, RankFacts DEF f
<1>3. \A k \in 1..Cardinality(keep) :
        Nth(k, keep) \in keep /\ Cardinality(UpTo(Nth(k, keep), keep)) = k
  BY <1>2 DEF Nth
<1>4. ASSUME NEW i \in keep PROVE \E k \in 1..Cardinality(keep) : Nth(k, keep) = i
  <2> DEFINE k == Cardinality(UpTo(i, keep))
  <2>1. k \in 1..Cardinality(keep)
    BY RankFacts
  <2>2. Nth(k, keep) \in keep /\ Cardinality(UpTo(Nth(k, keep), keep)) = k
    BY <1>3, <2>1
  <2>3. Nth(k, keep) = i
    BY <2>2, RankFacts
  <2> QED
    BY <2>1, <2>3
<1> QED
  BY <1>3, <1>4

\* A set of positions that is not empty has a first one.
LEMMA FirstExists ==
  ASSUME NEW n \in Nat, NEW keep \in SUBSET (1..n), keep # {}
  PROVE  \E i \in keep : \A j \in keep : i <= j
<1>1. IsFiniteSet(keep) /\ Cardinality(keep) \in Nat
  BY RankFacts
<1>2. 1 \in 1..Cardinality(keep)
  BY <1>1, FS_EmptySet
<1> DEFINE i == Nth(1, keep)
<1>3. i \in keep /\ Cardinality(UpTo(i, keep)) = 1
  BY <1>2, RanksReached
<1>4. IsFiniteSet(UpTo(i, keep)) /\ i \in UpTo(i, keep)
  <2> HIDE DEF i
  <2>1. UpTo(i, keep) \in SUBSET keep
    BY DEF UpTo
  <2>2. i <= i
    BY <1>3
  <2> QED
    BY <1>1, <1>3, <2>1, <2>2, FS_Subset DEF UpTo
<1>5. UpTo(i, keep) = {i}
  BY <1>3, <1>4, FS_Singleton
<1>6. \A j \in keep : j <= i => j = i
  BY <1>5 DEF UpTo
<1>7. \A j \in keep : i <= j
  <2> HIDE DEF i
  <2> QED
    BY <1>3, <1>6
<1> QED
  BY <1>3, <1>7

LEMMA ListFacts ==
  ASSUME NEW S, NEW n \in Nat, NEW f \in [1..n -> S] PROVE f \in Seq(S) /\ DOMAIN f = 1..n
OBVIOUS

LEMMA PickFacts ==
  ASSUME NEW S, NEW wls \in Seq(S), NEW keep \in SUBSET (DOMAIN wls)
  PROVE  /\ Pick(wls, keep) \in Seq(S)
         /\ \A k \in DOMAIN Pick(wls, keep) : \E i \in keep : Pick(wls, keep)[k] = wls[i]
         /\ \A i \in keep : \E k \in DOMAIN Pick(wls, keep) : Pick(wls, keep)[k] = wls[i]
<1>1. Len(wls) \in Nat /\ DOMAIN wls = 1..Len(wls)
  OBVIOUS
<1>2. Cardinality(keep) \in Nat
  BY <1>1, RankFacts
<1>3. Pick(wls, keep) = [k \in 1..Cardinality(keep) |-> wls[Nth(k, keep)]]
  BY DEF Pick, Nth, UpTo
<1>4. DOMAIN Pick(wls, keep) = 1..Cardinality(keep)
  BY <1>3
<1>5. \A k \in 1..Cardinality(keep) : /\ Pick(wls, keep)[k] = wls[Nth(k, keep)]
                                     /\ Nth(k, keep) \in keep
  BY <1>1, <1>3, RanksReached
<1>6. \A k \in 1..Cardinality(keep) : wls[Nth(k, keep)] \in S
  BY <1>1, <1>5
<1>7. Pick(wls, keep) \in Seq(S)
  BY <1>2, <1>3, <1>6
<1> QED
  BY <1>1, <1>4, <1>5, <1>7, RanksReached

-----------------------------------------------------------------------------
(* What UpdateDeployment makes of each workload.                             *)

\* The data old[k] has afterwards.
NewData(k, old, new) ==
  IF k \in Scanned(old, new) /\ ChangesFor(k, old, new) # {}
  THEN new[BreakAt(k, old, new)].data ELSE old[k].data

KeptAs(w, k, old, new) ==
  w.name = old[k].name /\ w.type = old[k].type /\ w.data = NewData(k, old, new)
AddedAs(w, j, new) == w.name = new[j].name /\ w.type = new[j].type /\ w.data = new[j].data

\* The inner loop breaks at the first change, or behind the list.
LEMMA BreakFacts ==
  ASSUME NEW old \in Seq(Workload), NEW new \in Seq(Workload), NEW k \in DOMAIN old
  PROVE  /\ ChangesFor(k, old, new) = {} => BreakAt(k, old, new) = Len(new) + 1
         /\ ChangesFor(k, old, new) # {} => BreakAt(k, old, new) \in ChangesFor(k, old, new)
<1>1. CASE ChangesFor(k, old, new) = {}
  BY <1>1 DEF BreakAt
<1>2. CASE ChangesFor(k, old, new) # {}
  <2> DEFINE changes == ChangesFor(k, old, new)
  <2>1. changes \in SUBSET (1..Len(new)) /\ changes # {} /\ Len(new) \in Nat
    BY <1>2 DEF ChangesFor
  <2>2. \E j \in changes : \A i \in changes : j <= i
    <3> HIDE DEF changes
    <3> QED
      BY <2>1, FirstExists
  <2>3. BreakAt(k, old, new) = CHOOSE j \in changes : \A i \in changes : j <= i
    BY <1>2 DEF BreakAt
  <2> HIDE DEF changes
  <2>4. BreakAt(k, old, new) \in changes
    BY <2>2, <2>3
  <2> QED
    BY <2>4, <1>2 DEF changes
<1> QED
  BY <1>1, <1>2

\* Every workload of the result is an old one that was kept, with its new data, or a
\* new one that was added, and each of these is there.
LEMMA UpdateFacts ==
  ASSUME NEW old \in Seq(Workload), NEW new \in Seq(Workload), NEW v \in Nat
  PROVE  LET wls == UpdateDeployment(old, new, v).workloads IN
         /\ wls \in Seq(Workload)
         /\ \A p \in DOMAIN wls :
              \/ \E k \in DOMAIN old \ Deleted(old, new) : KeptAs(wls[p], k, old, new)
              \/ \E j \in Added(old, new) : AddedAs(wls[p], j, new)
         /\ \A k \in DOMAIN old \ Deleted(old, new) :
              \E p \in DOMAIN wls : KeptAs(wls[p], k, old, new)
         /\ \A j \in Added(old, new) : \E p \in DOMAIN wls : AddedAs(wls[p], j, new)
<1> DEFINE changed == {k \in Scanned(old, new) : ChangesFor(k, old, new) # {}}
           renewed == [k \in 1..Len(old) |->
                         IF k \in changed
                         THEN [old[k] EXCEPT !.data = new[BreakAt(k, old, new)].data,
                                             !.version = v + 1]
                         ELSE old[k]]
           fresh == [j \in 1..Len(new) |-> [new[j] EXCEPT !.version = v + 1]]
           kept == Pick(renewed, DOMAIN old \ Deleted(old, new))
           added == Pick(fresh, Added(old, new))
           wls == kept \o added
<1>1. UpdateDeployment(old, new, v).workloads = wls
  BY DEF UpdateDeployment
<1>2. /\ Len(old) \in Nat /\ DOMAIN old = 1..Len(old)
      /\ Len(new) \in Nat /\ DOMAIN new = 1..Len(new)
      /\ \A k \in DOMAIN old : old[k] \in Workload
      /\ \A j \in DOMAIN new : new[j] \in Workload
  OBVIOUS
<1>3. Scanned(old, new) \subseteq DOMAIN old /\ Added(old, new) \subseteq DOMAIN new
  BY DEF Scanned, Added
<1>4. \A k \in DOMAIN old : ChangesFor(k, old, new) # {} => BreakAt(k, old, new) \in DOMAIN new
  BY BreakFacts DEF ChangesFor
<1>5. \A k \in DOMAIN old : renewed[k] \in Workload /\ KeptAs(renewed[k], k, old, new)
  <2> SUFFICES ASSUME NEW k \in DOMAIN old
               PROVE  renewed[k] \in Workload /\ KeptAs(renewed[k], k, old, new)
    OBVIOUS
  <2>1. CASE k \in changed
    <3>1. renewed[k] = [old[k] EXCEPT !.data = new[BreakAt(k, old, new)].data,
                                      !.version = v + 1]
      BY <1>2, <2>1
    <3>2. new[BreakAt(k, old, new)].data \in STRING
      BY <1>2, <1>4, <2>1 DEF Workload
    <3>3. old[k] \in Workload /\ v + 1 \in Nat
      BY <1>2
    <3>4. NewData(k, old, new) = new[BreakAt(k, old, new)].data
      BY <2>1 DEF NewData
    <3> HIDE DEF renewed
    <3>5. renewed[k] \in Workload
      BY <3>1, <3>2, <3>3 DEF Workload
    <3>6. /\ renewed[k].name = old[k].name /\ renewed[k].type = old[k].type
          /\ renewed[k].data = new[BreakAt(k, old, new)].data
      BY <3>1, <3>3 DEF Workload
    <3> QED
      BY <3>4, <3>5, <3>6 DEF KeptAs
  <2>2. CASE k \notin changed
    <3>1. renewed[k] = old[k]
      BY <1>2, <2>2
    <3> QED
      BY <3>1, <1>2, <2>2 DEF KeptAs, NewData
  <2> QED
    BY <2>1, <2>2
<1>6. \A j \in DOMAIN new : fresh[j] \in Workload /\ AddedAs(fresh[j], j, new)
  BY <1>2 DEF Workload, AddedAs
<1>7. /\ renewed \in Seq(Workload) /\ DOMAIN renewed = DOMAIN old
      /\ fresh \in Seq(Workload) /\ DOMAIN fresh = DOMAIN new
  <2>1. DOMAIN renewed = 1..Len(old) /\ DOMAIN fresh = 1..Len(new)
    OBVIOUS
  <2>2. renewed \in [1..Len(old) -> Workload] /\ fresh \in [1..Len(new) -> Workload]
    BY <1>2, <1>5, <1>6
  <2> HIDE DEF renewed, fresh
  <2>3. renewed \in Seq(Workload)
    BY <1>2, <2>2, ListFacts
  <2>4. fresh \in Seq(Workload)
    BY <1>2, <2>2, ListFacts
  <2> QED
    BY <1>2, <2>1, <2>3, <2>4
<1> HIDE DEF renewed, fresh
<1>8. /\ kept \in Seq(Workload)
      /\ \A p \in DOMAIN kept : \E k \in DOMAIN old \ Deleted(old, new) : kept[p] = renewed[k]
      /\ \A k \in DOMAIN old \ Deleted(old, new) : \E p \in DOMAIN kept : kept[p] = renewed[k]
  <2> DEFINE keep == DOMAIN old \ Deleted(old, new)
  <2>1. keep \in SUBSET (DOMAIN renewed)
    BY <1>7
  <2> HIDE DEF keep
  <2>2. /\ Pick(renewed, keep) \in Seq(Workload)
        /\ \A p \in DOMAIN Pick(renewed, keep) :
             \E k \in keep : Pick(renewed, keep)[p] = renewed[k]
        /\ \A k \in keep :
             \E p \in DOMAIN Pick(renewed, keep) : Pick(renewed, keep)[p] = renewed[k]
    BY <1>7, <2>1, PickFacts
  <2> QED
    BY <2>2 DEF keep
<1>9. /\ added \in Seq(Workload)
      /\ \A p \in DOMAIN added : \E j \in Added(old, new) : added[p] = fresh[j]
      /\ \A j \in Added(old, new) : \E p \in DOMAIN added : added[p] = fresh[j]
  BY <1>3, <1>7, PickFacts
<1> HIDE DEF kept, added
<1>10. /\ wls \in Seq(Workload)
       /\ DOMAIN kept = 1..Len(kept) /\ Len(kept) \in Nat
       /\ DOMAIN added = 1..Len(added) /\ Len(added) \in Nat
       /\ DOMAIN wls = 1..(Len(kept) + Len(added))
       /\ \A p \in DOMAIN kept : wls[p] = kept[p]
       /\ \A p \in DOMAIN added : wls[Len(kept) + p] = added[p]
  BY <1>8, <1>9
<1>11. \A p \in DOMAIN wls : p \notin DOMAIN kept =>
         p - Len(kept) \in DOMAIN added /\ wls[p] = added[p - Len(kept)]
  <2> SUFFICES ASSUME NEW p \in DOMAIN wls, p \notin DOMAIN kept
               PROVE  p - Len(kept) \in DOMAIN added /\ wls[p] = added[p - Len(kept)]
    OBVIOUS
  <2>1. p - Len(kept) \in DOMAIN added /\ Len(kept) + (p - Len(kept)) = p
    BY <1>10
  <2> QED
    BY <2>1, <1>10
<1>12. \A p \in DOMAIN kept : p \in DOMAIN wls
  BY <1>10
<1>13. \A p \in DOMAIN added : Len(kept) + p \in DOMAIN wls
  BY <1>10
<1> HIDE DEF wls
<1>14. \A p \in DOMAIN wls :
         \/ \E k \in DOMAIN old \ Deleted(old, new) : wls[p] = renewed[k]
         \/ \E j \in Added(old, new) : wls[p] = fresh[j]
  <2> SUFFICES ASSUME NEW p \in DOMAIN wls
               PROVE  \/ \E k \in DOMAIN old \ Deleted(old, new) : wls[p] = renewed[k]
                      \/ \E j \in Added(old, new) : wls[p] = fresh[j]
    OBVIOUS
  <2>1. CASE p \in DOMAIN kept
    BY <1>8, <1>10, <2>1
  <2>2. CASE p \notin DOMAIN kept
    BY <1>9, <1>11, <2>2
  <2> QED
    BY <2>1, <2>2
<1>15. \A k \in DOMAIN old \ Deleted(old, new) : \E p \in DOMAIN wls : wls[p] = renewed[k]
  BY <1>8, <1>10, <1>12
<1>16. \A j \in Added(old, new) : \E p \in DOMAIN wls : wls[p] = fresh[j]
  BY <1>9, <1>10, <1>13
<1>17. \A p \in DOMAIN wls :
         \/ \E k \in DOMAIN old \ Deleted(old, new) : KeptAs(wls[p], k, old, new)
         \/ \E j \in Added(old, new) : AddedAs(wls[p], j, new)
  BY <1>3, <1>5, <1>6, <1>14
<1>18. \A k \in DOMAIN old \ Deleted(old, new) : \E p \in DOMAIN wls : KeptAs(wls[p], k, old, new)
  BY <1>5, <1>15
<1>19. \A j \in Added(old, new) : \E p \in DOMAIN wls : AddedAs(wls[p], j, new)
  BY <1>3, <1>6, <1>16
<1> QED
  BY <1>1, <1>10, <1>17, <1>18, <1>19
-----------------------------------------------------------------------------
(* Undoing an update.                                                        *)

Distinct(wls) == \A i, j \in DOMAIN wls : wls[i].name = wls[j].name => i = j

\* The inner loop finds the workload of the same name, if that has changed.
LEMMA ChangeIsNamesake ==
  ASSUME NEW old \in Seq(Workload), NEW new \in Seq(Workload), Distinct(new),
         NEW k \in Scanned(old, new), NEW q \in DOMAIN new, new[q].name = old[k].name,
         new[q].type # NetworkType
  PROVE  /\ NewData(k, old, new) = new[q].data
         /\ old[k].data = new[q].data => BreakAt(k, old, new) = Len(new) + 1
         /\ old[k].data # new[q].data => BreakAt(k, old, new) = q
<1>1. k \in DOMAIN old
  BY DEF Scanned
<1>2. ChangesFor(k, old, new) = {j \in {q} : old[k].data # new[q].data}
  BY DEF ChangesFor, Distinct
<1>3. CASE old[k].data = new[q].data
  BY <1>1, <1>2, <1>3, BreakFacts DEF NewData
<1>4. CASE old[k].data # new[q].data
  <2>1. ChangesFor(k, old, new) = {q}
    BY <1>2, <1>4
  <2>2. BreakAt(k, old, new) = q
    BY <1>1, <2>1, BreakFacts
  <2>3. q # Len(new) + 1
    BY DEF Scanned
  <2> QED
    BY <1>4, <2>1, <2>2 DEF NewData
<1> QED
  BY <1>3, <1>4

\* A deployment is up to date with itself.
LEMMA NothingToUpdate ==
  ASSUME NEW old \in Seq(Workload), Distinct(old), NEW v \in Nat
  PROVE  ~UpdateDeployment(old, old, v).found
<1>1. Deleted(old, old) = {} /\ Added(old, old) = {}
  BY DEF Deleted, Added, NamesOf
<1>2. \A k \in DOMAIN old : ChangesFor(k, old, old) = {}
  BY DEF ChangesFor, Distinct
<1>3. {k \in Scanned(old, old) : ChangesFor(k, old, old) # {}} = {}
  BY <1>2 DEF Scanned
<1> QED
  BY <1>1, <1>3 DEF UpdateDeployment

\* What an update sends under a name that was there is what was there, with new data;
\* network workloads stay as they were.
LEMMA SentFacts ==
  ASSUME NEW old \in Seq(Workload), NEW wanted \in Seq(Workload), NEW v \in Nat, Distinct(old)
  PROVE  LET sent == UpdateDeployment(old, wanted, v).workloads IN
         \A p \in DOMAIN sent : \A q \in DOMAIN old : sent[p].name = old[q].name =>
           /\ sent[p].type = old[q].type
           /\ old[q].type = NetworkType => sent[p].data = old[q].data
<1> DEFINE sent == UpdateDeployment(old, wanted, v).workloads
<1> SUFFICES ASSUME NEW p \in DOMAIN sent, NEW q \in DOMAIN old, sent[p].name = old[q].name
             PROVE  /\ sent[p].type = old[q].type
                    /\ old[q].type = NetworkType => sent[p].data = old[q].data
  OBVIOUS
<1>1. ~\E j \in Added(old, wanted) : AddedAs(sent[p], j, wanted)
  BY DEF Added, AddedAs, NamesOf
<1>2. PICK k \in DOMAIN old \ Deleted(old, wanted) : KeptAs(sent[p], k, old, wanted)
  BY <1>1, UpdateFacts
<1> HIDE DEF sent
<1>3. k = q
  BY <1>2 DEF KeptAs, Distinct
<1> QED
  BY <1>2, <1>3 DEF KeptAs, NewData, Scanned

\* An update that is undoable is undone by an update back, for lists of any length.
THEOREM UpdateUndone ==
  ASSUME NEW old \in Seq(Workload), NEW wanted \in Seq(Workload), NEW v \in Nat, NEW u \in Nat,
         NEW sent, sent = UpdateDeployment(old, wanted, v).workloads, Undoable(old, sent)
  PROVE  /\ sent \in Seq(Workload)
         /\ UpdateDeployment(sent, old, u).workloads \in Seq(Workload)
         /\ Contents(UpdateDeployment(sent, old, u).workloads) = Contents(old)
<1> DEFINE back == UpdateDeployment(sent, old, u).workloads
<1>1. sent \in Seq(Workload) /\ Distinct(old)
  BY UpdateFacts DEF Undoable, Distinct
<1>2. /\ back \in Seq(Workload)
      /\ \A p \in DOMAIN back :
           \/ \E k \in DOMAIN sent \ Deleted(sent, old) : KeptAs(back[p], k, sent, old)
           \/ \E j \in Added(sent, old) : AddedAs(back[p], j, old)
      /\ \A k \in DOMAIN sent \ Deleted(sent, old) : \E p \in DOMAIN back : KeptAs(back[p], k, sent, old)
      /\ \A j \in Added(sent, old) : \E p \in DOMAIN back : AddedAs(back[p], j, old)
  BY <1>1, UpdateFacts
<1> HIDE DEF back
<1>9. \A p \in DOMAIN sent : \A q \in DOMAIN old : sent[p].name = old[q].name =>
        /\ sent[p].type = old[q].type
        /\ old[q].type = NetworkType => sent[p].data = old[q].data
  BY <1>1, SentFacts
\* What is kept has the data it had.
<1>3. ASSUME NEW p \in DOMAIN sent, NEW q \in DOMAIN old, sent[p].name = old[q].name
      PROVE  p \notin Deleted(sent, old) /\ NewData(p, sent, old) = old[q].data
  <2>1. sent[p].type = old[q].type /\ (old[q].type = NetworkType => sent[p].data = old[q].data)
    BY <1>3, <1>9
  <2>2. p \notin Deleted(sent, old)
    BY <1>3 DEF Deleted, NamesOf
  <2>3. CASE old[q].type = NetworkType
    BY <2>1, <2>2, <2>3 DEF NewData, Scanned
  <2>4. CASE old[q].type # NetworkType
    <3>1. p \in Scanned(sent, old)
      BY <2>1, <2>2, <2>4 DEF Scanned
    <3> QED
      BY <1>1, <1>3, <2>2, <2>4, <3>1, ChangeIsNamesake
  <2> QED
    BY <2>2, <2>3, <2>4
<1>4. ASSUME NEW p \in DOMAIN sent, p \notin Deleted(sent, old)
      PROVE  \E q \in DOMAIN old : sent[p].name = old[q].name
  BY <1>4 DEF Deleted, Undoable, NamesOf
\* What was removed is added again.
<1>5. ASSUME NEW q \in DOMAIN old, old[q].name \notin NamesOf(sent)
      PROVE  q \in Added(sent, old)
  <2>1. PICK k \in DOMAIN old :
          /\ old[k].type # NetworkType
          /\ old[k].name \in NamesOf(sent)
          /\ \/ q < k
             \/ \A p \in DOMAIN sent : sent[p].name = old[k].name => sent[p].data = old[k].data
    BY <1>5 DEF Undoable
  <2>2. PICK p \in DOMAIN sent : sent[p].name = old[k].name
    BY <2>1 DEF NamesOf
  <2>3. p \in Scanned(sent, old)
    BY <1>3, <1>9, <2>1, <2>2 DEF Scanned
  <2>4. q < BreakAt(p, sent, old)
    <3>1. Len(old) \in Nat /\ q \in 1..Len(old)
      BY <1>1
    <3>2. CASE sent[p].data = old[k].data
      BY <1>1, <2>1, <2>2, <2>3, <3>1, <3>2, ChangeIsNamesake
    <3>3. CASE sent[p].data # old[k].data
      BY <1>1, <2>1, <2>2, <2>3, <3>1, <3>3, ChangeIsNamesake
    <3> QED
      BY <3>2, <3>3
  <2>5. \A i \in 1..(q - 1) : old[i].name # old[q].name
    <3> SUFFICES ASSUME NEW i \in 1..(q - 1) PROVE old[i].name # old[q].name
      OBVIOUS
    <3>1. i \in DOMAIN old /\ i # q
      OBVIOUS
    <3> QED
      BY <1>1, <3>1 DEF Distinct
  <2> QED
    BY <1>5, <2>3, <2>4, <2>5 DEF Added
<1>6. ASSUME NEW p \in DOMAIN back
      PROVE  \E q \in DOMAIN old : back[p].name = old[q].name /\ back[p].data = old[q].data
  <2>1. CASE \E k \in DOMAIN sent \ Deleted(sent, old) : KeptAs(back[p], k, sent, old)
    <3>1. PICK k \in DOMAIN sent \ Deleted(sent, old) : KeptAs(back[p], k, sent, old)
      BY <2>1
    <3>2. PICK q \in DOMAIN old : sent[k].name = old[q].name
      BY <1>4
    <3> QED
      BY <1>3, <3>1, <3>2 DEF KeptAs
  <2>2. CASE \E j \in Added(sent, old) : AddedAs(back[p], j, old)
    BY <2>2 DEF AddedAs, Added
  <2> QED
    BY <1>2, <2>1, <2>2
<1>7. ASSUME NEW q \in DOMAIN old
      PROVE  \E p \in DOMAIN back : back[p].name = old[q].name /\ back[p].data = old[q].data
  <2>1. CASE old[q].name \in NamesOf(sent)
    <3>1. PICK k \in DOMAIN sent : sent[k].name = old[q].name
      BY <2>1 DEF NamesOf
    <3>2. k \notin Deleted(sent, old) /\ NewData(k, sent, old) = old[q].data
      BY <1>3, <3>1
    <3>3. PICK p \in DOMAIN back : KeptAs(back[p], k, sent, old)
      BY <1>2, <3>2
    <3> QED
      BY <3>1, <3>2, <3>3 DEF KeptAs
  <2>2. CASE old[q].name \notin NamesOf(sent)
    BY <1>2, <1>5, <2>2 DEF AddedAs
  <2> QED
    BY <2>1, <2>2
<1>8. Contents(back) = Contents(old)
  <2>1. ASSUME NEW x \in Contents(back) PROVE x \in Contents(old)
    <3>1. PICK p \in DOMAIN back : x = [name |-> back[p].name, data |-> back[p].data]
      BY <2>1 DEF Contents
    <3>2. PICK q \in DOMAIN old : back[p].name = old[q].name /\ back[p].data = old[q].data
      BY <1>6
    <3> QED
      BY <3>1, <3>2 DEF Contents
  <2>2. ASSUME NEW x \in Contents(old) PROVE x \in Contents(back)
    <3>1. PICK q \in DOMAIN old : x = [name |-> old[q].name, data |-> old[q].data]
      BY <2>2 DEF Contents
    <3>2. PICK p \in DOMAIN back : back[p].name = old[q].name /\ back[p].data = old[q].data
      BY <1>7
    <3> QED
      BY <3>1, <3>2 DEF Contents
  <2> QED
    BY <2>1, <2>2
<1> QED
  BY <1>1, <1>2, <1>8 DEF back
=============================================================================
