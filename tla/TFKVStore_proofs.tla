-------------------------- MODULE TFKVStore_proofs --------------------------
(***************************************************************************)
(* Theorems of TFKVStore, for any sets of sessions, keys and values and    *)
(* any size of the pieces.                                                 *)
(***************************************************************************)
EXTENDS TFKVStore, SequenceTheorems, TLAPS

-----------------------------------------------------------------------------
(* Pieces.                                                                   *)

\* Where piece n of a value ends, counting pieces from 0.
Upto(v, n) == IF n * SPLIT_SIZE <= Len(v) THEN n * SPLIT_SIZE ELSE Len(v)

\* Piece n of a value: empty past its end.
Slice(v, n) == SubSeq(v, n * SPLIT_SIZE + 1, Upto(v, n + 1))

\* The first n pieces, put together.
Prefix(v, n) == SubSeq(v, 1, Upto(v, n))

LEMMA Multiples ==
  ASSUME NEW n \in Nat
  PROVE  /\ n * SPLIT_SIZE \in Nat
         /\ (n + 1) * SPLIT_SIZE = n * SPLIT_SIZE + SPLIT_SIZE
BY StoreAssumption

LEMMA MultiplesGrow ==
  ASSUME NEW m \in Nat, NEW n \in Nat, m < n
  PROVE  (m + 1) * SPLIT_SIZE <= n * SPLIT_SIZE
<1>1. PICK d \in Nat : n = (m + 1) + d
  <2>1. n - (m + 1) \in Nat /\ n = (m + 1) + (n - (m + 1))
    OBVIOUS
  <2> QED
    BY <2>1
<1>2. SPLIT_SIZE \in Nat /\ d * SPLIT_SIZE \in Nat /\ (m + 1) * SPLIT_SIZE \in Nat
  BY Multiples, StoreAssumption
<1>3. n * SPLIT_SIZE = (m + 1) * SPLIT_SIZE + d * SPLIT_SIZE
  BY <1>1, StoreAssumption
<1> QED
  BY <1>2, <1>3

LEMMA Divides ==
  ASSUME NEW a \in Nat
  PROVE  /\ (a \div SPLIT_SIZE) \in Nat
         /\ (a \div SPLIT_SIZE) * SPLIT_SIZE <= a
         /\ a < ((a \div SPLIT_SIZE) + 1) * SPLIT_SIZE
BY StoreAssumption, SMTT(30)

\* split cuts a value into its pieces, and nothing of it is left.
LEMMA SplitCuts ==
  ASSUME NEW v \in Seq(Characters)
  PROVE  LET L == Len(Split(v)) IN
         /\ L \in Nat /\ DOMAIN Split(v) = 1..L
         /\ Len(v) <= L * SPLIT_SIZE
         /\ \A n \in Nat : n < L => Split(v)[n + 1] = Slice(v, n)
<1> DEFINE count == (Len(v) - 1) \div SPLIT_SIZE + 1
<1>1. /\ count \in Nat
      /\ Len(v) <= count * SPLIT_SIZE
      /\ \A n \in Nat : n < count /\ n # count - 1 => (n + 1) * SPLIT_SIZE <= Len(v)
  <2>1. CASE Len(v) = 0
    <3>1. count = 0
      BY <2>1, StoreAssumption, SMTT(30)
    <3> QED
      BY <2>1, <3>1, StoreAssumption
  <2>2. CASE Len(v) # 0
    <3>1. Len(v) - 1 \in Nat
      BY <2>2
    <3> DEFINE q == (Len(v) - 1) \div SPLIT_SIZE
    <3>2. q \in Nat /\ q * SPLIT_SIZE <= Len(v) - 1 /\ Len(v) - 1 < (q + 1) * SPLIT_SIZE
      BY <3>1, Divides
    <3>3. ASSUME NEW n \in Nat, n < q PROVE (n + 1) * SPLIT_SIZE <= q * SPLIT_SIZE
      BY <3>2, <3>3, MultiplesGrow
    <3> HIDE DEF q
    <3>4. \A n \in Nat : n < q + 1 /\ n # q => (n + 1) * SPLIT_SIZE <= q * SPLIT_SIZE
      BY <3>2, <3>3
    <3>5. q * SPLIT_SIZE \in Nat /\ (q + 1) * SPLIT_SIZE \in Nat
      BY <3>2, Multiples
    <3>6. \A n \in Nat : (n + 1) * SPLIT_SIZE \in Nat
      <4> SUFFICES ASSUME NEW n \in Nat PROVE (n + 1) * SPLIT_SIZE \in Nat
        OBVIOUS
      <4> QED
        BY Multiples, StoreAssumption
    <3>7. count = q + 1
      BY DEF q
    <3> HIDE DEF count
    <3> QED
      BY <3>1, <3>2, <3>4, <3>5, <3>6, <3>7
  <2> QED
    BY <2>1, <2>2
<1>2. Split(v) = [n \in 1..count |-> SubSeq(v, (n - 1) * SPLIT_SIZE + 1,
                    IF n = count THEN Len(v) ELSE n * SPLIT_SIZE)]
  BY DEF Split
<1> HIDE DEF count
<1>3. Len(Split(v)) = count /\ DOMAIN Split(v) = 1..count
  BY <1>1, <1>2
<1>4. ASSUME NEW n \in Nat, n < count PROVE Split(v)[n + 1] = Slice(v, n)
  <2>1. n + 1 \in 1..count /\ (n + 1) - 1 = n
    BY <1>1, <1>4
  <2>2. Split(v)[n + 1] = SubSeq(v, n * SPLIT_SIZE + 1,
                            IF n + 1 = count THEN Len(v) ELSE (n + 1) * SPLIT_SIZE)
    BY <1>2, <2>1
  <2>3. (IF n + 1 = count THEN Len(v) ELSE (n + 1) * SPLIT_SIZE) = Upto(v, n + 1)
    <3>1. Len(v) \in Nat /\ (n + 1) * SPLIT_SIZE \in Nat /\ count * SPLIT_SIZE \in Nat
      BY <1>1, Multiples, StoreAssumption
    <3>2. CASE n + 1 = count
      BY <1>1, <3>1, <3>2 DEF Upto
    <3>3. CASE n + 1 # count
      BY <1>1, <1>4, <3>1, <3>3 DEF Upto
    <3> QED
      BY <3>2, <3>3
  <2> QED
    BY <2>2, <2>3 DEF Slice
<1> QED
  BY <1>1, <1>3, <1>4

\* A piece is empty exactly past the end, and never too long.
LEMMA SliceLength ==
  ASSUME NEW v \in Seq(Characters), NEW n \in Nat
  PROVE  /\ Slice(v, n) \in Seq(Characters)
         /\ Slice(v, n) # <<>> <=> n * SPLIT_SIZE < Len(v)
         /\ n * SPLIT_SIZE < Len(v) => Len(Slice(v, n)) \in 1..SPLIT_SIZE
<1> DEFINE a == n * SPLIT_SIZE
<1>1. /\ a \in Nat /\ (n + 1) * SPLIT_SIZE = a + SPLIT_SIZE /\ SPLIT_SIZE \in Nat \ {0}
      /\ Len(v) \in Nat
  BY Multiples, StoreAssumption
<1>2. Slice(v, n) = SubSeq(v, a + 1, IF a + SPLIT_SIZE <= Len(v) THEN a + SPLIT_SIZE ELSE Len(v))
  BY <1>1 DEF Slice, Upto
<1> HIDE DEF a
<1> DEFINE b == IF a + SPLIT_SIZE <= Len(v) THEN a + SPLIT_SIZE ELSE Len(v)
<1>3. b \in Nat /\ b <= Len(v) /\ (a < Len(v) => a < b) /\ (a >= Len(v) => b <= a)
      /\ b <= a + SPLIT_SIZE
  BY <1>1
<1> HIDE DEF b
<1>4. Slice(v, n) = SubSeq(v, a + 1, b)
  BY <1>2 DEF b
<1> DEFINE piece == SubSeq(v, a + 1, b)
<1>5. ASSUME a < Len(v) PROVE piece \in Seq(Characters) /\ Len(piece) \in 1..SPLIT_SIZE
  <2>1. piece \in Seq(Characters) /\ Len(piece) = b - a
    BY <1>1, <1>3, <1>5
  <2> HIDE DEF piece
  <2> QED
    BY <1>1, <1>3, <1>5, <2>1
<1>6. ASSUME ~(a < Len(v)) PROVE piece = <<>>
  BY <1>1, <1>3, <1>6
<1>7. Slice(v, n) = piece
  BY <1>4
<1> HIDE DEF piece
<1>8. <<>> \in Seq(Characters) /\ Len(<<>>) = 0
  BY EmptySeq, Zenon
<1>9. a < Len(v) => piece # <<>>
  <2> SUFFICES ASSUME a < Len(v), piece = <<>> PROVE FALSE
    OBVIOUS
  <2>1. 0 \in 1..SPLIT_SIZE
    BY <1>5, <1>8, Zenon
  <2> QED
    BY <2>1, StoreAssumption
<1>10. /\ Slice(v, n) \in Seq(Characters)
       /\ Slice(v, n) # <<>> <=> a < Len(v)
       /\ a < Len(v) => Len(Slice(v, n)) \in 1..SPLIT_SIZE
  BY <1>5, <1>6, <1>7, <1>8, <1>9, Zenon
<1> QED
  BY <1>10 DEF a

\* Putting the next piece behind the first n gives the first n + 1.
LEMMA PrefixGrows ==
  ASSUME NEW v \in Seq(Characters), NEW n \in Nat, n * SPLIT_SIZE < Len(v)
  PROVE  Prefix(v, n) \o Slice(v, n) = Prefix(v, n + 1)
<1> DEFINE a == n * SPLIT_SIZE
           b == Upto(v, n + 1)
<1>1. /\ a \in Nat /\ (n + 1) * SPLIT_SIZE = a + SPLIT_SIZE /\ SPLIT_SIZE \in Nat \ {0}
      /\ Len(v) \in Nat
  BY Multiples, StoreAssumption
<1>2. a < Len(v) /\ Upto(v, n) = a
  BY <1>1 DEF Upto
<1>3. b \in Nat /\ a < b /\ b <= Len(v)
  BY <1>1, <1>2 DEF Upto
<1>4. Prefix(v, n) = SubSeq(v, 1, a) /\ Slice(v, n) = SubSeq(v, a + 1, b)
      /\ Prefix(v, n + 1) = SubSeq(v, 1, b)
  BY <1>2 DEF Prefix, Slice
<1> HIDE DEF a, b
<1>5. SubSeq(v, 1, a) \o SubSeq(v, a + 1, b) = SubSeq(v, 1, b)
  <2> DEFINE s == SubSeq(v, 1, a)
             t == SubSeq(v, a + 1, b)
             u == SubSeq(v, 1, b)
  <2>1. /\ s \in Seq(Characters) /\ Len(s) = a /\ \A i \in 1..a : s[i] = v[i]
        /\ t \in Seq(Characters) /\ Len(t) = b - a /\ \A i \in 1..(b - a) : t[i] = v[a + i]
        /\ u \in Seq(Characters) /\ Len(u) = b /\ \A i \in 1..b : u[i] = v[i]
    <3>1. a \in Nat /\ b \in Nat /\ a < b /\ b <= Len(v) /\ Len(v) \in Nat
      BY <1>1, <1>2, <1>3
    <3>2. s \in Seq(Characters) /\ Len(s) = a /\ \A i \in 1..a : s[i] = v[i]
      BY <3>1
    <3>3. t \in Seq(Characters) /\ Len(t) = b - a /\ \A i \in 1..(b - a) : t[i] = v[a + i]
      BY <3>1
    <3>4. u \in Seq(Characters) /\ Len(u) = b /\ \A i \in 1..b : u[i] = v[i]
      BY <3>1
    <3> QED
      BY <3>2, <3>3, <3>4
  <2> HIDE DEF s, t, u
  <2>2. /\ s \o t \in Seq(Characters) /\ Len(s \o t) = b
        /\ \A i \in 1..b : (s \o t)[i] = IF i <= a THEN s[i] ELSE t[i - a]
    <3>1. Len(s) = a /\ Len(s) + Len(t) = b
      BY <1>1, <1>3, <2>1
    <3>2. /\ s \o t \in Seq(Characters) /\ Len(s \o t) = Len(s) + Len(t)
          /\ \A i \in 1..Len(s) + Len(t) : (s \o t)[i] =
               IF i <= Len(s) THEN s[i] ELSE t[i - Len(s)]
      BY <2>1, ConcatProperties
    <3> QED
      BY <3>1, <3>2
  <2>3. ASSUME NEW i \in 1..b PROVE (s \o t)[i] = u[i]
    <3>1. CASE i <= a
      <4>1. i \in 1..a
        BY <1>1, <1>3, <3>1
      <4>2. s[i] = v[i] /\ u[i] = v[i]
        BY <2>1, <4>1
      <4>3. (s \o t)[i] = s[i]
        BY <2>2, <3>1
      <4> QED
        BY <4>2, <4>3, Zenon
    <3>2. CASE ~(i <= a)
      <4>1. i - a \in 1..(b - a) /\ a + (i - a) = i
        BY <1>1, <1>3, <3>2
      <4>2. t[i - a] = v[i] /\ u[i] = v[i]
        BY <2>1, <4>1
      <4>3. (s \o t)[i] = t[i - a]
        BY <2>2, <3>2
      <4> QED
        BY <4>2, <4>3, Zenon
    <3> QED
      BY <3>1, <3>2
  <2>5. s \o t = u
    BY <2>1, <2>2, <2>3, SeqEqual
  <2> QED
    BY <2>5 DEF s, t, u
<1> QED
  BY <1>4, <1>5

-----------------------------------------------------------------------------
(* Fragments.                                                                *)

\* Every key of the chain belongs to one key, as one of its fragments.
LEMMA FragmentsApart ==
  ASSUME NEW k \in Keys, NEW l \in Keys, NEW m \in Nat, NEW n \in Nat,
         Fragment(k, m) = Fragment(l, n)
  PROVE  k = l /\ m = n
<1>1. k \in Seq(Nat) /\ l \in Seq(Nat)
  BY StoreAssumption
<1>2. ASSUME NEW x \in Keys, NEW y \in Keys, NEW i \in Nat, x = Append(y, i) PROVE FALSE
  <2>1. y \in Seq(Nat) /\ Len(y) \in Nat
    BY StoreAssumption
  <2>2. Len(x) = Len(y) + 1 /\ \A j \in 1..Len(y) : x[j] = y[j]
    BY <1>2, <2>1, AppendProperties
  <2>3. Len(x) - 1 = Len(y)
    BY <2>1, <2>2
  <2>4. /\ SubSeq(x, 1, Len(y)) \in Seq(Nat)
        /\ Len(SubSeq(x, 1, Len(y))) = Len(y)
        /\ \A j \in 1..Len(y) : SubSeq(x, 1, Len(y))[j] = x[j]
    <3>1. \A j \in 1..Len(y) : y[j] \in Nat
      BY <2>1, ElementOfSeq
    <3>2. \A j \in 1..Len(y) : x[j] \in Nat
      BY <2>2, <3>1
    <3> QED
      BY <2>1, <3>2, SubSeqProperties
  <2>5. SubSeq(x, 1, Len(y)) = y
    BY <2>1, <2>2, <2>4, SeqEqual
  <2> QED
    BY <2>3, <2>5, StoreAssumption
<1>3. CASE m = 0 /\ n = 0
  BY <1>3 DEF Fragment
<1>4. CASE m = 0 /\ n # 0
  BY <1>2, <1>4 DEF Fragment
<1>5. CASE m # 0 /\ n = 0
  BY <1>2, <1>5 DEF Fragment
<1>6. CASE m # 0 /\ n # 0
  BY <1>1, <1>6, AppendInjective DEF Fragment
<1> QED
  BY <1>3, <1>4, <1>5, <1>6

\* What a batch does to one key of the chain.
LEMMA ApplyAt ==
  ASSUME NEW batch, Apply(batch), NEW k
  PROVE  /\ (\A w \in batch : w.key # k) =>
              /\ k \in DOMAIN store' <=> k \in DOMAIN store
              /\ k \in DOMAIN store => store'[k] = store[k]
         /\ \A w \in batch : w.key = k /\ (\A v \in batch : v.key = k => v.piece = w.piece) =>
              /\ k \in DOMAIN store' <=> w.piece # <<>>
              /\ w.piece # <<>> => store'[k] = w.piece
<1> DEFINE gone == {w.key : w \in {v \in batch : v.piece = <<>>}}
           kept == (DOMAIN store \cup {w.key : w \in batch}) \ gone
<1>1. store' = [x \in kept |-> IF \E w \in batch : w.key = x
                               THEN (CHOOSE w \in batch : w.key = x).piece ELSE store[x]]
  BY DEF Apply
<1>2. DOMAIN store' = kept
  BY <1>1
<1>3. ASSUME \A w \in batch : w.key # k
      PROVE  /\ k \in DOMAIN store' <=> k \in DOMAIN store
             /\ k \in DOMAIN store => store'[k] = store[k]
  BY <1>1, <1>3
<1>4. ASSUME NEW w \in batch, w.key = k, \A v \in batch : v.key = k => v.piece = w.piece
      PROVE  /\ k \in DOMAIN store' <=> w.piece # <<>>
             /\ w.piece # <<>> => store'[k] = w.piece
  <2>1. k \in gone <=> w.piece = <<>>
    BY <1>4
  <2>2. k \in kept <=> w.piece # <<>>
    BY <1>4, <2>1
  <2>3. (CHOOSE v \in batch : v.key = k).piece = w.piece
    BY <1>4
  <2> HIDE DEF kept
  <2>4. k \in kept => store'[k] = w.piece
    BY <1>1, <1>4, <2>3
  <2> QED
    BY <1>2, <2>2, <2>4
<1> QED
  BY <1>3, <1>4

-----------------------------------------------------------------------------
(* The inductive invariant.                                                  *)

Has(key, n) == Fragment(key, n) \in DOMAIN store

\* The store holds nothing but fragments of the keys, and no key has a fragment
\* without the ones before it.
StoreOK ==
  /\ \A k \in DOMAIN store :
       /\ store[k] \in Seq(Characters) /\ Len(store[k]) \in 1..SPLIT_SIZE
       /\ \E key \in Keys, n \in Nat : k = Fragment(key, n)
  /\ \A key \in Keys : \A m, n \in Nat : m < n /\ Has(key, n) => Has(key, m)

\* The fragments of a key are the pieces of v, and no more.
Holds(key, v) ==
  \A n \in Nat : /\ Has(key, n) <=> n * SPLIT_SIZE < Len(v)
                 /\ Has(key, n) => store[Fragment(key, n)] = Slice(v, n)

CurrentOK ==
  /\ current \in [Keys -> Seq(Characters)]
  /\ mangled \subseteq Keys
  /\ \A key \in Keys \ mangled : Holds(key, current[key])

Extrinsic == [key : Seq(Nat), piece : Seq(Characters)]
WriteOp == [kind : {"write", "planned"}, key : Keys, value : Seq(Characters), at : Nat,
            batch : SUBSET Extrinsic]
MoveOp == [kind : {"move", "carried"}, key : Keys, to : Keys, at : Nat,
           batch : SUBSET Extrinsic]
GetOp == [kind : {"get", "got"}, key : Keys, at : Nat, got : Seq(Characters), quiet : BOOLEAN]

\* The batch of a set or a remove covers the fragments before o.at, each with
\* its piece of the value; when it is complete there are no fragments from
\* there on.
WriteOK(o) ==
  /\ Len(o.value) <= o.at * SPLIT_SIZE
  /\ \A w \in o.batch : \E n \in Nat :
       n < o.at /\ w.key = Fragment(o.key, n) /\ w.piece = Slice(o.value, n)
  /\ \A n \in Nat : n < o.at => \E w \in o.batch : w.key = Fragment(o.key, n)
  /\ o.kind = "planned" => ~Has(o.key, o.at)

\* The batch of a move deletes the fragments before o.at, and sets the last of
\* them under the new key.
MoveOK(o) ==
  /\ <<o.key, o.to>> \in Moves
  /\ o.at = 0 => o.batch = {}
  /\ o.at # 0 => Has(o.key, o.at - 1) /\ \E w \in o.batch : w.key = o.to
  /\ \A w \in o.batch :
       \/ w.key = o.to /\ w.piece = store[Fragment(o.key, o.at - 1)]
       \/ /\ o.key # o.to /\ w.piece = <<>>
          /\ \E n \in Nat : n < o.at /\ w.key = Fragment(o.key, n)
  /\ o.key # o.to => \A n \in Nat : n < o.at => \E w \in o.batch : w.key = Fragment(o.key, n)
  /\ o.kind = "carried" => ~Has(o.key, o.at)

\* A get that is not disturbed has read the first o.at pieces of the value.
GetOK(o) ==
  o.quiet /\ o.key \notin mangled =>
    /\ o.got = Prefix(current[o.key], o.at)
    /\ o.kind = "got" => ~Has(o.key, o.at)

OpOK(s, o) ==
  \/ o = Nothing
  \/ o \in WriteOp /\ WriterOf[o.key] = s /\ WriteOK(o)
  \/ o \in MoveOp /\ WriterOf[o.key] = s /\ MoveOK(o)
  \/ o \in GetOp /\ GetOK(o)

IInv ==
  /\ StoreOK
  /\ CurrentOK
  /\ op = [s \in Sessions |-> op[s]]
  /\ \A s \in Sessions : OpOK(s, op[s])
  /\ writes \in 0..MaxWrites

\* A key of the chain that reads as empty is not there.
LEMMA PieceThere ==
  ASSUME StoreOK, NEW k
  PROVE  Piece(k) # <<>> <=> k \in DOMAIN store
<1>1. ASSUME k \in DOMAIN store PROVE store[k] # <<>>
  <2>1. Len(store[k]) \in 1..SPLIT_SIZE
    BY <1>1 DEF StoreOK
  <2>2. Len(<<>>) = 0
    BY EmptySeq, Zenon
  <2> SUFFICES ASSUME store[k] = <<>> PROVE FALSE
    OBVIOUS
  <2>3. 0 \in 1..SPLIT_SIZE
    BY <2>1, <2>2, Zenon
  <2> QED
    BY <2>3, StoreAssumption
<1> QED
  BY <1>1 DEF Piece

LEMMA InitInv == Init => IInv
<1> SUFFICES ASSUME Init PROVE IInv
  OBVIOUS
<1>1. DOMAIN store = {}
  BY DEF Init
<1>2. StoreOK
  BY <1>1 DEF StoreOK, Has
<1>3. <<>> \in Seq(Characters) /\ Len(<<>>) = 0
  BY EmptySeq, Zenon
<1>4. CurrentOK
  <2>1. current \in [Keys -> Seq(Characters)] /\ \A key \in Keys : current[key] = <<>>
    BY <1>3 DEF Init
  <2>2. ASSUME NEW key \in Keys, NEW n \in Nat PROVE ~Has(key, n) /\ ~(n * SPLIT_SIZE < 0)
    BY <1>1, Multiples DEF Has
  <2>3. \A key \in Keys : Holds(key, current[key])
    BY <1>3, <2>1, <2>2 DEF Holds
  <2> QED
    BY <2>1, <2>3 DEF CurrentOK, Init
<1>5. op = [s \in Sessions |-> op[s]] /\ \A s \in Sessions : OpOK(s, op[s])
  BY DEF Init, OpOK
<1>6. writes \in 0..MaxWrites
  BY StoreAssumption DEF Init
<1> QED
  BY <1>2, <1>4, <1>5, <1>6 DEF IInv

\* A step of one session that leaves the store alone.
LEMMA LocalStep ==
  ASSUME IInv, NEW s \in Sessions, NEW o, op' = [op EXCEPT ![s] = o], OpOK(s, o),
         UNCHANGED <<store, current, mangled>>, writes' \in 0..MaxWrites
  PROVE  IInv'
<1>1. op' = [r \in Sessions |-> op'[r]] /\ \A r \in Sessions : op'[r] = IF r = s THEN o ELSE op[r]
  BY DEF IInv
<1>2. ASSUME NEW r \in Sessions PROVE OpOK(r, op[r])'
  <2>1. op'[r] = IF r = s THEN o ELSE op[r]
    BY <1>1
  <2>2. OpOK(r, op'[r])
    BY <2>1 DEF IInv
  <2>3. /\ WriteOK(op'[r]) = WriteOK(op[r])'
        /\ MoveOK(op'[r]) = MoveOK(op[r])'
        /\ GetOK(op'[r]) = GetOK(op[r])'
    BY DEF WriteOK, MoveOK, GetOK, Has
  <2> QED
    BY <2>2, <2>3 DEF OpOK
<1>3. StoreOK' /\ CurrentOK'
  BY DEF IInv, StoreOK, CurrentOK, Holds, Has
<1> QED
  BY <1>1, <1>2, <1>3 DEF IInv

\* What kind of operation a session does tells which record it keeps.
LEMMA KindTells ==
  ASSUME IInv, NEW s \in Sessions
  PROVE  /\ op[s].kind \in {"none", "write", "planned", "move", "carried", "get", "got"}
         /\ op[s].kind \in {"write", "planned"} =>
              op[s] \in WriteOp /\ WriterOf[op[s].key] = s /\ WriteOK(op[s])
         /\ op[s].kind \in {"move", "carried"} =>
              op[s] \in MoveOp /\ WriterOf[op[s].key] = s /\ MoveOK(op[s])
         /\ op[s].kind \in {"get", "got"} => op[s] \in GetOp /\ GetOK(op[s])
BY DEF IInv, OpOK, Nothing, WriteOp, MoveOp, GetOp

-----------------------------------------------------------------------------
(* Operations begin.                                                         *)

LEMMA FragmentTyped == ASSUME NEW k \in Keys, NEW n \in Nat PROVE Fragment(k, n) \in Seq(Nat)
BY StoreAssumption, AppendProperties DEF Fragment

LEMMA BeginWriteInv ==
  ASSUME IInv, NEW s \in Sessions, NEW o, BeginWrite(s, o), OpOK(s, o)
  PROVE  IInv'
<1>1. writes' \in 0..MaxWrites
  BY StoreAssumption DEF BeginWrite, IInv
<1> QED
  BY <1>1, LocalStep DEF BeginWrite, Begin

LEMMA SetInv ==
  ASSUME IInv, NEW s \in Sessions, NEW key \in Keys, NEW v \in ValuesOf[key],
         WriterOf[key] = s, Set(s, key, v)
  PROVE  IInv'
<1> DEFINE P == Split(v)
           L == Len(P)
           b == {Put(Fragment(key, n - 1), P[n]) : n \in DOMAIN P}
           o == [kind |-> "write", key |-> key, value |-> v, at |-> L, batch |-> b]
<1>1. v \in Seq(Characters)
  BY StoreAssumption
<1>2. /\ L \in Nat /\ DOMAIN P = 1..L /\ Len(v) <= L * SPLIT_SIZE
      /\ \A n \in Nat : n < L => P[n + 1] = Slice(v, n)
  BY <1>1, SplitCuts
<1>3. BeginWrite(s, o)
  BY DEF Set
<1> HIDE DEF P, L
<1>4. ASSUME NEW w \in b
      PROVE  \E n \in Nat : n < L /\ w.key = Fragment(key, n) /\ w.piece = Slice(v, n)
                            /\ w = [key |-> Fragment(key, n), piece |-> Slice(v, n)]
  <2>1. PICK n \in 1..L : w = Put(Fragment(key, n - 1), P[n])
    BY <1>2
  <2>2. n - 1 \in Nat /\ n - 1 < L /\ (n - 1) + 1 = n
    BY <1>2, <2>1
  <2>3. P[n] = Slice(v, n - 1)
    BY <1>2, <2>2
  <2> QED
    BY <2>1, <2>2, <2>3 DEF Put
<1>5. b \in SUBSET Extrinsic
  <2> HIDE DEF b
  <2> SUFFICES ASSUME NEW w \in b PROVE w \in Extrinsic
    OBVIOUS
  <2>1. PICK n \in Nat : w = [key |-> Fragment(key, n), piece |-> Slice(v, n)]
    BY <1>4
  <2>2. Fragment(key, n) \in Seq(Nat) /\ Slice(v, n) \in Seq(Characters)
    BY <1>1, SliceLength, FragmentTyped
  <2> QED
    BY <2>1, <2>2 DEF Extrinsic
<1>6. ASSUME NEW n \in Nat, n < L PROVE \E w \in b : w.key = Fragment(key, n)
  <2>1. n + 1 \in DOMAIN P /\ (n + 1) - 1 = n
    BY <1>2, <1>6
  <2>2. Put(Fragment(key, n), P[n + 1]) \in b
    BY <2>1
  <2> QED
    BY <2>2 DEF Put
<1> HIDE DEF b
<1>7. o \in WriteOp
  BY <1>1, <1>2, <1>5 DEF WriteOp
<1>8. WriteOK(o)
  BY <1>2, <1>4, <1>6 DEF WriteOK
<1>9. OpOK(s, o)
  BY <1>7, <1>8 DEF OpOK
<1> QED
  BY <1>3, <1>9, BeginWriteInv

LEMMA RemoveInv ==
  ASSUME IInv, NEW s \in Sessions, NEW key \in Keys, WriterOf[key] = s, Remove(s, key)
  PROVE  IInv'
<1> DEFINE b == {Delete(key)}
           o == [kind |-> "write", key |-> key, value |-> <<>>, at |-> 1, batch |-> b]
<1>1. <<>> \in Seq(Characters) /\ Len(<<>>) = 0
  BY EmptySeq, Zenon
<1>2. \A w \in b : w = [key |-> Fragment(key, 0), piece |-> <<>>]
  BY DEF Delete, Fragment
<1>3. Slice(<<>>, 0) = <<>>
  <2>1. ~(0 * SPLIT_SIZE < 0)
    BY StoreAssumption
  <2> QED
    BY <1>1, <2>1, SliceLength
<1>4. b \in SUBSET Extrinsic
  <2>1. Fragment(key, 0) \in Seq(Nat)
    BY FragmentTyped
  <2>2. [key |-> Fragment(key, 0), piece |-> <<>>] \in Extrinsic
    BY <1>1, <2>1 DEF Extrinsic
  <2> HIDE DEF b
  <2> QED
    BY <1>2, <2>2
<1>5. o \in WriteOp
  BY <1>1, <1>4 DEF WriteOp
<1>6. WriteOK(o)
  <2>1. Len(o.value) <= o.at * SPLIT_SIZE
    BY <1>1, StoreAssumption
  <2>2. \A w \in o.batch : w.key = Fragment(key, 0) /\ w.piece = Slice(<<>>, 0)
    BY <1>2, <1>3
  <2>3. \A n \in Nat : n < 1 => n = 0
    OBVIOUS
  <2>4. \E w \in o.batch : w.key = Fragment(key, 0)
    BY <1>2
  <2> QED
    BY <2>1, <2>2, <2>3, <2>4 DEF WriteOK
<1>7. OpOK(s, o) /\ OpOK(s, Nothing)
  BY <1>5, <1>6 DEF OpOK
<1> HIDE DEF o
<1>8. BeginWrite(s, Nothing) \/ BeginWrite(s, o)
  BY DEF Remove, o
<1> QED
  BY <1>7, <1>8, BeginWriteInv

LEMMA MoveInv ==
  ASSUME IInv, NEW s \in Sessions, NEW m \in Moves, WriterOf[m[1]] = s, Move(s, m[1], m[2])
  PROVE  IInv'
<1> DEFINE o == [kind |-> "move", key |-> m[1], to |-> m[2], at |-> 0, batch |-> {}]
<1>1. m[1] \in Keys /\ m[2] \in Keys /\ <<m[1], m[2]>> \in Moves
  <2>1. m \in Keys \X Keys
    BY StoreAssumption
  <2>2. m[1] \in Keys /\ m[2] \in Keys /\ m = <<m[1], m[2]>>
    BY <2>1
  <2> QED
    BY <2>2
<1>2. o \in MoveOp /\ MoveOK(o)
  BY <1>1 DEF MoveOp, MoveOK
<1>3. OpOK(s, o) /\ BeginWrite(s, o)
  BY <1>2 DEF OpOK, Move
<1> QED
  BY <1>3, BeginWriteInv

LEMMA GetInv ==
  ASSUME IInv, NEW s \in Sessions, NEW key \in Keys, Get(s, key) PROVE IInv'
<1> DEFINE o == [kind |-> "get", key |-> key, at |-> 0, got |-> <<>>, quiet |-> TRUE]
<1>1. <<>> \in Seq(Characters)
  BY EmptySeq, Zenon
<1>2. ASSUME NEW v \in Seq(Characters) PROVE Prefix(v, 0) = <<>>
  <2>1. Upto(v, 0) = 0
    BY StoreAssumption DEF Upto
  <2> QED
    BY <2>1 DEF Prefix
<1>3. current[key] \in Seq(Characters)
  BY DEF IInv, CurrentOK
<1>4. OpOK(s, o)
  BY <1>1, <1>2, <1>3 DEF OpOK, GetOp, GetOK
<1>5. writes' \in 0..MaxWrites
  BY DEF Get, IInv
<1> QED
  BY <1>4, <1>5, LocalStep DEF Get, Begin

-----------------------------------------------------------------------------
(* Operations read the store.                                                *)

LEMMA CleanInv == ASSUME IInv, NEW s \in Sessions, Clean(s) PROVE IInv'
<1> DEFINE o == op[s]
           k == Fragment(o.key, o.at)
           p == [o EXCEPT !.kind = "planned"]
           a == o.at + 1
           b == o.batch \cup {Delete(k)}
           q == [o EXCEPT !.at = a, !.batch = b]
<1>1. o \in WriteOp /\ WriterOf[o.key] = s /\ WriteOK(o) /\ o.kind = "write"
  BY KindTells DEF Clean
<1>2. /\ o.key \in Keys /\ o.at \in Nat /\ o.value \in Seq(Characters)
      /\ o.batch \subseteq Extrinsic
  BY <1>1 DEF WriteOp
<1>3. CASE Piece(k) = <<>>
  <2>1. ~Has(o.key, o.at)
    BY <1>3, PieceThere DEF IInv, Has
  <2>2. /\ p \in WriteOp /\ p.key = o.key /\ p.at = o.at /\ p.value = o.value
        /\ p.batch = o.batch
    BY <1>1 DEF WriteOp
  <2> HIDE DEF p
  <2>3. WriteOK(p)
    BY <1>1, <2>1, <2>2 DEF WriteOK
  <2>4. OpOK(s, p)
    BY <1>1, <2>2, <2>3 DEF OpOK
  <2>5. op' = [op EXCEPT ![s] = p]
    BY <1>3 DEF Clean, p
  <2> QED
    BY <2>4, <2>5, LocalStep DEF Clean, IInv
<1>4. CASE Piece(k) # <<>>
  <2>1. Delete(k) \in Extrinsic /\ Delete(k).key = k /\ Delete(k).piece = <<>>
    <3>1. <<>> \in Seq(Characters)
      BY EmptySeq, Zenon
    <3>2. k \in Seq(Nat)
      BY <1>2, FragmentTyped
    <3> QED
      BY <3>1, <3>2 DEF Delete, Extrinsic
  <2>2. Slice(o.value, o.at) = <<>>
    <3>1. ~(o.at * SPLIT_SIZE < Len(o.value))
      <4>1. Len(o.value) <= o.at * SPLIT_SIZE
        BY <1>1 DEF WriteOK
      <4>2. Len(o.value) \in Nat /\ o.at * SPLIT_SIZE \in Nat
        <5>1. Len(o.value) \in Nat
          BY <1>2, LenProperties, Zenon
        <5>2. o.at * SPLIT_SIZE \in Nat
          BY <1>2, Multiples, Zenon
        <5> QED
          BY <5>1, <5>2
      <4> QED
        BY <4>1, <4>2
    <3> QED
      BY <1>2, <3>1, SliceLength
  <2>3. Len(o.value) <= (o.at + 1) * SPLIT_SIZE
    BY <1>1, <1>2, Multiples, StoreAssumption DEF WriteOK
  <2>4. /\ q \in WriteOp /\ q.key = o.key /\ q.at = o.at + 1 /\ q.value = o.value
        /\ q.batch = o.batch \cup {Delete(k)} /\ q.kind = "write"
    <3>1. o.at + 1 \in Nat /\ o.batch \cup {Delete(k)} \in SUBSET Extrinsic
      BY <1>2, <2>1
    <3>2. a \in Nat /\ b \in SUBSET Extrinsic
      BY <3>1
    <3> HIDE DEF a, b, o
    <3>3. /\ q \in WriteOp /\ q.key = o.key /\ q.at = a /\ q.value = o.value
          /\ q.batch = b /\ q.kind = "write"
      BY <1>1, <3>2 DEF WriteOp
    <3> QED
      BY <3>3 DEF a, b
  <2> HIDE DEF q
  <2>5. WriteOK(q)
    <3>1. \A w \in q.batch : \E n \in Nat :
            n < o.at + 1 /\ w.key = Fragment(o.key, n) /\ w.piece = Slice(o.value, n)
      BY <1>1, <1>2, <2>1, <2>2, <2>4 DEF WriteOK
    <3>2. \A n \in Nat : n < o.at + 1 => \E w \in q.batch : w.key = Fragment(o.key, n)
      <4> SUFFICES ASSUME NEW n \in Nat, n < o.at + 1
                   PROVE  \E w \in q.batch : w.key = Fragment(o.key, n)
        OBVIOUS
      <4>1. n < o.at \/ n = o.at
        BY <1>2
      <4> QED
        BY <1>1, <2>1, <2>4, <4>1 DEF WriteOK
    <3> QED
      BY <2>3, <2>4, <3>1, <3>2 DEF WriteOK
  <2>6. OpOK(s, q)
    BY <1>1, <2>4, <2>5 DEF OpOK
  <2>7. op' = [op EXCEPT ![s] = q]
    BY <1>4 DEF Clean, q
  <2> QED
    BY <2>6, <2>7, LocalStep DEF Clean, IInv
<1> QED
  BY <1>3, <1>4

LEMMA AssembleInv == ASSUME IInv, NEW s \in Sessions, Assemble(s) PROVE IInv'
<1> DEFINE o == op[s]
           k == Fragment(o.key, o.at)
           p == [o EXCEPT !.kind = "got"]
           a == o.at + 1
           g == o.got \o Piece(k)
           q == [o EXCEPT !.at = a, !.got = g]
<1>1. o \in GetOp /\ GetOK(o) /\ o.kind = "get"
  BY KindTells DEF Assemble
<1>2. o.key \in Keys /\ o.at \in Nat /\ o.got \in Seq(Characters) /\ o.quiet \in BOOLEAN
  BY <1>1 DEF GetOp
<1>3. CASE Piece(k) = <<>>
  <2>1. ~Has(o.key, o.at)
    BY <1>3, PieceThere DEF IInv, Has
  <2>2. p \in GetOp /\ p.key = o.key /\ p.at = o.at /\ p.got = o.got /\ p.quiet = o.quiet
    BY <1>1 DEF GetOp
  <2> HIDE DEF p
  <2>3. GetOK(p)
    BY <1>1, <2>1, <2>2 DEF GetOK
  <2>4. OpOK(s, p)
    BY <2>2, <2>3 DEF OpOK
  <2>5. op' = [op EXCEPT ![s] = p]
    BY <1>3 DEF Assemble, p
  <2> QED
    BY <2>4, <2>5, LocalStep DEF Assemble, IInv
<1>4. CASE Piece(k) # <<>>
  <2>1. Has(o.key, o.at) /\ Piece(k) = store[k] /\ store[k] \in Seq(Characters)
    BY <1>4, PieceThere DEF IInv, StoreOK, Has, Piece
  <2>2. o.got \o Piece(k) \in Seq(Characters)
    BY <1>2, <2>1, ConcatProperties
  <2>3. /\ q \in GetOp /\ q.key = o.key /\ q.at = o.at + 1 /\ q.got = o.got \o Piece(k)
        /\ q.quiet = o.quiet /\ q.kind = "get"
    <3>1. o.at + 1 \in Nat
      BY <1>2
    <3>2. a \in Nat /\ g \in Seq(Characters)
      BY <2>2, <3>1
    <3> HIDE DEF a, g, o
    <3>3. /\ q \in GetOp /\ q.key = o.key /\ q.at = a /\ q.got = g
          /\ q.quiet = o.quiet /\ q.kind = "get"
      BY <1>1, <3>2 DEF GetOp
    <3> QED
      BY <3>3 DEF a, g
  <2> HIDE DEF q
  <2>4. ASSUME o.quiet, o.key \notin mangled
        PROVE  o.got \o Piece(k) = Prefix(current[o.key], o.at + 1)
    <3>1. current[o.key] \in Seq(Characters) /\ Holds(o.key, current[o.key])
      BY <1>2, <2>4 DEF IInv, CurrentOK
    <3>2. o.at * SPLIT_SIZE < Len(current[o.key]) /\ store[k] = Slice(current[o.key], o.at)
      BY <1>2, <2>1, <3>1 DEF Holds
    <3>3. o.got = Prefix(current[o.key], o.at)
      BY <1>1, <2>4 DEF GetOK
    <3> QED
      BY <1>2, <2>1, <3>1, <3>2, <3>3, PrefixGrows
  <2>5. OpOK(s, q)
    BY <2>3, <2>4 DEF OpOK, GetOK
  <2>6. op' = [op EXCEPT ![s] = q]
    BY <1>4 DEF Assemble, q
  <2> QED
    BY <2>5, <2>6, LocalStep DEF Assemble, IInv
<1> QED
  BY <1>3, <1>4

LEMMA DropInv == ASSUME IInv, NEW s \in Sessions, Return(s) \/ Forget(s) PROVE IInv'
<1>1. op' = [op EXCEPT ![s] = Nothing] /\ UNCHANGED <<store, writes, current, mangled>>
  BY DEF Return, Forget
<1>2. OpOK(s, Nothing)
  BY DEF OpOK
<1> QED
  BY <1>1, <1>2, LocalStep DEF IInv

LEMMA CarryInv == ASSUME IInv, NEW s \in Sessions, Carry(s) PROVE IInv'
<1> DEFINE o == op[s]
           k == Fragment(o.key, o.at)
           a == o.at + 1
           b == {w \in o.batch : w.key # o.to} \cup {Put(o.to, Piece(k))}
                  \cup (IF o.key # o.to THEN {Delete(k)} ELSE {})
           p == [o EXCEPT !.kind = "carried"]
           q == [o EXCEPT !.at = a, !.batch = b]
<1>1. o \in MoveOp /\ WriterOf[o.key] = s /\ MoveOK(o) /\ o.kind = "move"
  BY KindTells DEF Carry
<1>2. o.key \in Keys /\ o.to \in Keys /\ o.at \in Nat /\ o.batch \subseteq Extrinsic
  BY <1>1 DEF MoveOp
<1>3. CASE Piece(k) = <<>>
  <2>1. ~Has(o.key, o.at)
    BY <1>3, PieceThere DEF IInv, Has
  <2>2. p \in MoveOp /\ p.key = o.key /\ p.to = o.to /\ p.at = o.at /\ p.batch = o.batch
    BY <1>1 DEF MoveOp
  <2> HIDE DEF p
  <2>3. MoveOK(p)
    BY <1>1, <2>1, <2>2 DEF MoveOK
  <2>4. OpOK(s, p)
    BY <1>1, <2>2, <2>3 DEF OpOK
  <2>5. op' = [op EXCEPT ![s] = p]
    BY <1>3 DEF Carry, p
  <2> QED
    BY <2>4, <2>5, LocalStep DEF Carry, IInv
<1>4. CASE Piece(k) # <<>>
  <2>1. Has(o.key, o.at) /\ Piece(k) = store[k] /\ store[k] \in Seq(Characters)
    BY <1>4, PieceThere DEF IInv, StoreOK, Has, Piece
  <2>2. k \in Seq(Nat) /\ o.to \in Seq(Nat) /\ <<>> \in Seq(Characters)
    <3>1. <<>> \in Seq(Characters)
      BY EmptySeq, Zenon
    <3> QED
      BY <1>2, <3>1, FragmentTyped, StoreAssumption
  <2>3. /\ Put(o.to, Piece(k)) \in Extrinsic /\ Delete(k) \in Extrinsic
        /\ Put(o.to, Piece(k)).key = o.to /\ Put(o.to, Piece(k)).piece = store[k]
        /\ Delete(k).key = k /\ Delete(k).piece = <<>>
    BY <2>1, <2>2 DEF Put, Delete, Extrinsic
  <2>4. op' = [op EXCEPT ![s] = q]
    BY <1>4 DEF Carry
  <2>5. a \in Nat /\ a # 0 /\ a - 1 = o.at /\ b \in SUBSET Extrinsic
    BY <1>2, <2>3
  <2>6. ASSUME NEW w \in b
        PROVE  \/ w.key = o.to /\ w.piece = store[k]
               \/ w \in o.batch /\ w.key # o.to
               \/ o.key # o.to /\ w.key = k /\ w.piece = <<>>
    BY <2>3
  <2>7. /\ \E w \in b : w.key = o.to
        /\ \A w \in o.batch : w.key # o.to => w \in b
        /\ o.key # o.to => \E w \in b : w.key = k
    BY <2>3
  <2> HIDE DEF b
  <2>8. ASSUME NEW w \in b
        PROVE  \/ w.key = o.to /\ w.piece = store[k]
               \/ /\ o.key # o.to /\ w.piece = <<>>
                  /\ \E n \in Nat : n < a /\ w.key = Fragment(o.key, n)
    <3>1. CASE w \in o.batch /\ w.key # o.to
      <4>1. /\ o.key # o.to /\ w.piece = <<>>
            /\ \E n \in Nat : n < o.at /\ w.key = Fragment(o.key, n)
        BY <1>1, <3>1 DEF MoveOK
      <4> QED
        BY <1>2, <4>1
    <3>2. CASE o.key # o.to /\ w.key = k /\ w.piece = <<>>
      BY <1>2, <3>2
    <3> QED
      BY <2>6, <3>1, <3>2
  <2>9. ASSUME o.key # o.to, NEW n \in Nat, n < a
        PROVE  \E w \in b : w.key = Fragment(o.key, n)
    <3>1. CASE n = o.at
      BY <2>7, <2>9, <3>1
    <3>2. CASE n < o.at
      <4>1. PICK w \in o.batch : w.key = Fragment(o.key, n)
        BY <1>1, <2>9, <3>2 DEF MoveOK
      <4>2. Fragment(o.to, 0) = o.to
        BY DEF Fragment
      <4>3. w.key # o.to
        BY <1>2, <2>9, <4>1, <4>2, FragmentsApart
      <4> QED
        BY <2>7, <4>1, <4>3
    <3> QED
      BY <1>2, <2>9, <3>1, <3>2
  <2>10. Fragment(o.key, a - 1) = k
    BY <2>5
  <2> HIDE DEF a
  <2>11. /\ q \in MoveOp /\ q.key = o.key /\ q.to = o.to /\ q.at = a /\ q.batch = b
         /\ q.kind = "move"
    <3> HIDE DEF o
    <3> QED
      BY <1>1, <2>5 DEF MoveOp
  <2> HIDE DEF q
  <2>12. MoveOK(q)
    <3>1. <<q.key, q.to>> \in Moves /\ q.at # 0
      BY <1>1, <2>5, <2>11 DEF MoveOK
    <3>2. Has(q.key, q.at - 1) /\ \E w \in q.batch : w.key = q.to
      BY <2>1, <2>5, <2>7, <2>11
    <3>3. \A w \in q.batch :
            \/ w.key = q.to /\ w.piece = store[Fragment(q.key, q.at - 1)]
            \/ /\ q.key # q.to /\ w.piece = <<>>
               /\ \E n \in Nat : n < q.at /\ w.key = Fragment(q.key, n)
      BY <2>8, <2>10, <2>11
    <3>4. q.key # q.to => \A n \in Nat : n < q.at => \E w \in q.batch : w.key = Fragment(q.key, n)
      BY <2>9, <2>11
    <3> QED
      BY <2>11, <3>1, <3>2, <3>3, <3>4 DEF MoveOK
  <2>13. OpOK(s, q)
    BY <1>1, <2>11, <2>12 DEF OpOK
  <2> QED
    BY <2>4, <2>13, LocalStep DEF Carry, IInv
<1> QED
  BY <1>3, <1>4

-----------------------------------------------------------------------------
(* Batches are applied.                                                      *)

LEMMA ApplyFrom ==
  ASSUME NEW batch, Apply(batch), NEW k \in DOMAIN store'
  PROVE  \/ k \in DOMAIN store /\ store'[k] = store[k]
         \/ \E w \in batch : w.key = k /\ w.piece # <<>> /\ store'[k] = w.piece
<1> DEFINE gone == {w.key : w \in {v \in batch : v.piece = <<>>}}
           kept == (DOMAIN store \cup {w.key : w \in batch}) \ gone
<1>1. store' = [x \in kept |-> IF \E w \in batch : w.key = x
                               THEN (CHOOSE w \in batch : w.key = x).piece ELSE store[x]]
  BY DEF Apply
<1>2. k \in kept
  BY <1>1
<1>3. CASE \E w \in batch : w.key = k
  <2> DEFINE v == CHOOSE w \in batch : w.key = k
  <2>1. v \in batch /\ v.key = k
    BY <1>3
  <2>2. store'[k] = v.piece
    BY <1>1, <1>2, <1>3
  <2>3. v.piece # <<>>
    BY <1>2, <2>1
  <2> QED
    BY <2>1, <2>2, <2>3
<1>4. CASE ~\E w \in batch : w.key = k
  BY <1>1, <1>2, <1>4
<1> QED
  BY <1>3, <1>4

\* What session s applies to keys that it alone writes, K, is invisible in the
\* others, and to the other sessions.
LEMMA CommitFrame ==
  ASSUME IInv, NEW s \in Sessions, NEW K \in SUBSET Keys, \A k \in K : WriterOf[k] = s,
         Disturb(s, K), NEW batch \in SUBSET Extrinsic, Apply(batch),
         \A w \in batch : /\ \E key \in K, n \in Nat : w.key = Fragment(key, n)
                          /\ w.piece # <<>> => Len(w.piece) \in 1..SPLIT_SIZE,
         current' \in [Keys -> Seq(Characters)], mangled' \subseteq Keys, writes' = writes,
         \A k \in Keys \ K : current'[k] = current[k] /\ (k \in mangled' <=> k \in mangled),
         \A k \in K : \A m, n \in Nat : m < n /\ Has(k, n)' => Has(k, m)',
         \A k \in K \ mangled' : Holds(k, current[k])'
  PROVE  IInv'
<1>1. ASSUME NEW k \in Keys \ K, NEW n \in Nat
      PROVE  /\ Has(k, n)' <=> Has(k, n)
             /\ Has(k, n) => store'[Fragment(k, n)] = store[Fragment(k, n)]
  <2>1. \A w \in batch : w.key # Fragment(k, n)
    BY FragmentsApart
  <2> QED
    BY <2>1, ApplyAt DEF Has
<1>2. StoreOK'
  <2>1. ASSUME NEW k \in DOMAIN store'
        PROVE  /\ store'[k] \in Seq(Characters) /\ Len(store'[k]) \in 1..SPLIT_SIZE
               /\ \E key \in Keys, n \in Nat : k = Fragment(key, n)
    <3>1. CASE k \in DOMAIN store /\ store'[k] = store[k]
      BY <3>1 DEF IInv, StoreOK
    <3>2. CASE \E w \in batch : w.key = k /\ w.piece # <<>> /\ store'[k] = w.piece
      BY <3>2 DEF Extrinsic
    <3> QED
      BY <3>1, <3>2, ApplyFrom
  <2>2. ASSUME NEW k \in Keys \ K, NEW m \in Nat, NEW n \in Nat, m < n, Has(k, n)'
        PROVE  Has(k, m)'
    BY <1>1, <2>2 DEF IInv, StoreOK
  <2>3. \A k \in Keys : \A m, n \in Nat : m < n /\ Has(k, n)' => Has(k, m)'
    BY <2>2
  <2> QED
    BY <2>1, <2>3 DEF StoreOK
<1>3. CurrentOK'
  <2>1. ASSUME NEW k \in Keys \ K, k \notin mangled' PROVE Holds(k, current[k])'
    <3>1. Holds(k, current[k]) /\ current'[k] = current[k]
      BY <2>1 DEF IInv, CurrentOK
    <3> QED
      BY <1>1, <3>1 DEF Holds, Slice, Upto
  <2>2. \A k \in Keys \ mangled' : Holds(k, current[k])'
    BY <2>1
  <2> QED
    BY <2>2 DEF CurrentOK
<1>4. op' = [r \in Sessions |-> op'[r]] /\ op'[s] = Nothing
  BY DEF Disturb
<1>5. ASSUME NEW r \in Sessions PROVE OpOK(r, op[r])'
  <2> DEFINE o == op[r]
  <2>1. CASE r = s
    BY <1>4, <2>1 DEF OpOK
  <2>2. CASE r # s /\ o.kind \in {"get", "got"} /\ o.key \in K
    <3>1. o \in GetOp /\ op'[r] = [o EXCEPT !.quiet = FALSE]
      BY <2>2, KindTells DEF Disturb
    <3>2. op'[r] \in GetOp /\ op'[r].quiet = FALSE
      BY <3>1 DEF GetOp
    <3> QED
      BY <3>2 DEF OpOK, GetOK
  <2>3. CASE r # s /\ ~(o.kind \in {"get", "got"} /\ o.key \in K)
    <3>1. op'[r] = o
      BY <2>3 DEF Disturb
    <3>2. CASE o = Nothing
      BY <3>1, <3>2 DEF OpOK
    <3>3. CASE o \in WriteOp /\ WriterOf[o.key] = r /\ WriteOK(o)
      <4>1. o.key \in Keys \ K /\ o.at \in Nat
        BY <2>3, <3>3 DEF WriteOp
      <4>2. WriteOK(op[r])'
        BY <1>1, <3>1, <3>3, <4>1 DEF WriteOK, Slice, Upto
      <4> QED
        BY <3>1, <3>3, <4>2 DEF OpOK
    <3>4. CASE o \in MoveOp /\ WriterOf[o.key] = r /\ MoveOK(o)
      <4>1. o.key \in Keys \ K /\ o.at \in Nat
        BY <2>3, <3>4 DEF MoveOp
      <4>2. o.at # 0 => o.at - 1 \in Nat /\ Has(o.key, o.at - 1)
        BY <3>4, <4>1 DEF MoveOK
      <4>3. /\ o.at # 0 => /\ Has(o.key, o.at - 1)'
                           /\ store'[Fragment(o.key, o.at - 1)] = store[Fragment(o.key, o.at - 1)]
            /\ o.kind = "carried" => ~Has(o.key, o.at)'
        BY <1>1, <3>1, <3>4, <4>1, <4>2 DEF MoveOK, Has
      <4>4. MoveOK(op[r])'
        BY <3>1, <3>4, <4>1, <4>3 DEF MoveOK
      <4> QED
        BY <3>1, <3>4, <4>4 DEF OpOK
    <3>5. CASE o \in GetOp /\ GetOK(o)
      <4>1. o.key \in Keys \ K /\ o.at \in Nat
        BY <2>3, <3>5 DEF GetOp
      <4>2. GetOK(op[r])'
        BY <1>1, <3>1, <3>5, <4>1 DEF GetOK, Prefix, Upto
      <4> QED
        BY <3>1, <3>5, <4>2 DEF OpOK
    <3> QED
      BY <3>2, <3>3, <3>4, <3>5 DEF IInv, OpOK
  <2> QED
    BY <2>1, <2>2, <2>3
<1> QED
  BY <1>2, <1>3, <1>4, <1>5 DEF IInv

\* The value that a set or a remove leaves is the one it was called with.
LEMMA CommitInv == ASSUME IInv, NEW s \in Sessions, Commit(s) PROVE IInv'
<1> DEFINE o == op[s]
<1>1. o \in WriteOp /\ WriterOf[o.key] = s /\ WriteOK(o) /\ o.kind = "planned"
  BY KindTells DEF Commit
<1>2. PICK key \in Keys, v \in Seq(Characters), at \in Nat, batch \in SUBSET Extrinsic :
        key = o.key /\ v = o.value /\ at = o.at /\ batch = o.batch
  BY <1>1 DEF WriteOp
<1>3. /\ Len(v) <= at * SPLIT_SIZE
      /\ \A w \in batch : \E n \in Nat :
           n < at /\ w.key = Fragment(key, n) /\ w.piece = Slice(v, n)
      /\ \A n \in Nat : n < at => \E w \in batch : w.key = Fragment(key, n)
      /\ ~Has(key, at)
  BY <1>1, <1>2 DEF WriteOK
<1>4. /\ Apply(batch) /\ Disturb(s, {key}) /\ writes' = writes
      /\ current' = [current EXCEPT ![key] = v] /\ mangled' = mangled \ {key}
  BY <1>2 DEF Commit
<1> HIDE DEF o
<1>5. \A n \in Nat : n * SPLIT_SIZE \in Nat
  BY Multiples
<1>6. ASSUME NEW n \in Nat, n < at
      PROVE  /\ Has(key, n)' <=> n * SPLIT_SIZE < Len(v)
             /\ Has(key, n)' => store'[Fragment(key, n)] = Slice(v, n)
  <2>1. PICK w \in batch : w.key = Fragment(key, n)
    BY <1>3, <1>6
  <2>2. \A x \in batch : x.key = Fragment(key, n) => x.piece = Slice(v, n)
    BY <1>2, <1>3, FragmentsApart
  <2>3. /\ Has(key, n)' <=> Slice(v, n) # <<>>
        /\ Slice(v, n) # <<>> => store'[Fragment(key, n)] = Slice(v, n)
    BY <1>4, <2>1, <2>2, ApplyAt DEF Has
  <2> QED
    BY <1>2, <2>3, SliceLength
<1>7. ASSUME NEW n \in Nat, ~(n < at)
      PROVE  ~Has(key, n)' /\ ~(n * SPLIT_SIZE < Len(v))
  <2>1. n = at \/ at < n
    BY <1>2, <1>7
  <2>2. ~Has(key, n)
    BY <1>2, <1>3, <2>1 DEF IInv, StoreOK
  <2>3. \A w \in batch : w.key # Fragment(key, n)
    <3> SUFFICES ASSUME NEW w \in batch, w.key = Fragment(key, n) PROVE FALSE
      OBVIOUS
    <3>1. PICK m \in Nat : m < at /\ w.key = Fragment(key, m)
      BY <1>3
    <3>2. m = n
      BY <1>2, <3>1, FragmentsApart
    <3> QED
      BY <1>7, <3>1, <3>2
  <2>4. ~Has(key, n)'
    BY <1>4, <2>2, <2>3, ApplyAt DEF Has
  <2>5. at * SPLIT_SIZE <= n * SPLIT_SIZE
    <3>1. CASE n = at
      BY <1>2, <1>5, <3>1
    <3>2. CASE at < n
      <4>1. (at + 1) * SPLIT_SIZE <= n * SPLIT_SIZE
        BY <1>2, <3>2, MultiplesGrow
      <4>2. /\ (at + 1) * SPLIT_SIZE = at * SPLIT_SIZE + SPLIT_SIZE
            /\ at * SPLIT_SIZE \in Nat /\ n * SPLIT_SIZE \in Nat /\ SPLIT_SIZE \in Nat
        BY <1>2, Multiples, StoreAssumption
      <4> QED
        BY <4>1, <4>2
    <3> QED
      BY <2>1, <3>1, <3>2
  <2>6. ~(n * SPLIT_SIZE < Len(v))
    <3>1. n * SPLIT_SIZE \in Nat /\ at * SPLIT_SIZE \in Nat /\ Len(v) \in Nat
      BY <1>2, <1>5
    <3> QED
      BY <1>3, <2>5, <3>1
  <2> QED
    BY <2>4, <2>6
<1>8. \A n \in Nat : /\ Has(key, n)' <=> n * SPLIT_SIZE < Len(v)
                     /\ Has(key, n)' => store'[Fragment(key, n)] = Slice(v, n)
  BY <1>6, <1>7
<1>9. ASSUME NEW m \in Nat, NEW n \in Nat, m < n, Has(key, n)' PROVE Has(key, m)'
  <2>1. (m + 1) * SPLIT_SIZE <= n * SPLIT_SIZE
    BY <1>9, MultiplesGrow
  <2>2. /\ (m + 1) * SPLIT_SIZE = m * SPLIT_SIZE + SPLIT_SIZE
        /\ m * SPLIT_SIZE \in Nat /\ n * SPLIT_SIZE \in Nat /\ SPLIT_SIZE \in Nat
        /\ Len(v) \in Nat
    <3>1. SPLIT_SIZE \in Nat
      BY StoreAssumption
    <3>2. (m + 1) * SPLIT_SIZE = m * SPLIT_SIZE + SPLIT_SIZE /\ m * SPLIT_SIZE \in Nat
      BY Multiples
    <3>3. n * SPLIT_SIZE \in Nat
      BY Multiples
    <3>4. Len(v) \in Nat
      BY <1>2
    <3> QED
      BY <3>1, <3>2, <3>3, <3>4
  <2>3. n * SPLIT_SIZE < Len(v)
    BY <1>8, <1>9
  <2>4. m * SPLIT_SIZE < Len(v)
    BY <2>1, <2>2, <2>3
  <2> QED
    BY <1>8, <2>4
<1>10. current' \in [Keys -> Seq(Characters)] /\ current'[key] = v
       /\ \A k \in Keys \ {key} : current'[k] = current[k]
  BY <1>2, <1>4 DEF IInv, CurrentOK
<1>11. \A w \in batch : /\ \E k \in {key}, n \in Nat : w.key = Fragment(k, n)
                        /\ w.piece # <<>> => Len(w.piece) \in 1..SPLIT_SIZE
  <2> SUFFICES ASSUME NEW w \in batch
               PROVE  /\ \E k \in {key}, n \in Nat : w.key = Fragment(k, n)
                      /\ w.piece # <<>> => Len(w.piece) \in 1..SPLIT_SIZE
    OBVIOUS
  <2>1. PICK n \in Nat : w.key = Fragment(key, n) /\ w.piece = Slice(v, n)
    BY <1>3
  <2> QED
    BY <1>2, <2>1, SliceLength
<1> DEFINE K == {key}
<1>12. /\ K \in SUBSET Keys /\ \A k \in K : WriterOf[k] = s
       /\ mangled' \subseteq Keys
       /\ \A k \in Keys \ K : current'[k] = current[k] /\ (k \in mangled' <=> k \in mangled)
  BY <1>1, <1>2, <1>4, <1>10 DEF IInv, CurrentOK
<1>13. \A k \in K : \A m, n \in Nat : m < n /\ Has(k, n)' => Has(k, m)'
  BY <1>9 DEF Has
<1>14. \A k \in K \ mangled' : Holds(k, current[k])'
  BY <1>8, <1>10 DEF Has, Holds, Slice, Upto
<1> QED
  BY <1>2, <1>4, <1>10, <1>11, <1>12, <1>13, <1>14, CommitFrame

\* A move takes every fragment away from the old key, and sets the first one of
\* the new key.
LEMMA CommitMoveInv == ASSUME IInv, NEW s \in Sessions, CommitMove(s) PROVE IInv'
<1> DEFINE o == op[s]
<1>1. o \in MoveOp /\ WriterOf[o.key] = s /\ MoveOK(o) /\ o.kind = "carried"
  BY KindTells DEF CommitMove
<1>2. PICK key \in Keys, to \in Keys, at \in Nat, batch \in SUBSET Extrinsic :
        key = o.key /\ to = o.to /\ at = o.at /\ batch = o.batch
  BY <1>1 DEF MoveOp
<1>3. PICK last : last = store[Fragment(key, at - 1)]
  OBVIOUS
<1>4. /\ <<key, to>> \in Moves /\ (at = 0 => batch = {})
      /\ at # 0 => Has(key, at - 1) /\ \E w \in batch : w.key = to
      /\ \A w \in batch :
           \/ w.key = to /\ w.piece = last
           \/ key # to /\ w.piece = <<>> /\ \E n \in Nat : n < at /\ w.key = Fragment(key, n)
      /\ key # to => \A n \in Nat : n < at => \E w \in batch : w.key = Fragment(key, n)
      /\ ~Has(key, at)
  BY <1>1, <1>2, <1>3 DEF MoveOK
<1>5. /\ batch # {} /\ Apply(batch) /\ Disturb(s, {key, to}) /\ writes' = writes
      /\ current' = [current EXCEPT ![key] = <<>>, ![to] = current[key]]
      /\ mangled' = (mangled \ {key}) \cup
           (IF at = 1 /\ Piece(Fragment(to, 1)) = <<>> /\ key \notin mangled THEN {} ELSE {to})
  BY <1>2 DEF CommitMove, Plain
<1>6. WriterOf[key] = s /\ WriterOf[to] = s
  <2>1. WriterOf[<<key, to>>[1]] = WriterOf[<<key, to>>[2]]
    BY <1>4, StoreAssumption
  <2> QED
    BY <1>1, <1>2, <2>1
<1> HIDE DEF o
<1>7. at # 0 /\ at - 1 \in Nat /\ at - 1 < at
  BY <1>4, <1>5
<1>8. last \in Seq(Characters) /\ last # <<>> /\ Len(last) \in 1..SPLIT_SIZE
  <2>1. Fragment(key, at - 1) \in DOMAIN store
    BY <1>4, <1>7 DEF Has
  <2> QED
    BY <1>3, <2>1, PieceThere DEF IInv, StoreOK, Piece
<1>9. Fragment(to, 0) = to
  BY DEF Fragment
<1>10. /\ Has(to, 0)' /\ store'[Fragment(to, 0)] = last
  <2>1. PICK w \in batch : w.key = to
    BY <1>4, <1>7
  <2>2. \A x \in batch : x.key = to => x.piece = last
    BY <1>4, <1>9, FragmentsApart
  <2> QED
    BY <1>5, <1>8, <1>9, <2>1, <2>2, ApplyAt DEF Has
<1>11. ASSUME NEW n \in Nat, n # 0
       PROVE  /\ Has(to, n)' <=> Has(to, n)
              /\ Has(to, n) => store'[Fragment(to, n)] = store[Fragment(to, n)]
  <2>1. \A w \in batch : w.key # Fragment(to, n)
    BY <1>4, <1>9, <1>11, FragmentsApart
  <2> QED
    BY <1>5, <2>1, ApplyAt DEF Has
<1>12. ASSUME key # to, NEW n \in Nat PROVE ~Has(key, n)'
  <2>1. CASE n < at
    <3>1. PICK w \in batch : w.key = Fragment(key, n)
      BY <1>4, <1>12, <2>1
    <3>2. \A x \in batch : x.key = Fragment(key, n) => x.piece = <<>>
      BY <1>4, <1>9, <1>12, FragmentsApart
    <3> QED
      BY <1>5, <3>1, <3>2, ApplyAt DEF Has
  <2>2. CASE ~(n < at)
    <3>1. n = at \/ at < n
      BY <2>2
    <3>2. ~Has(key, n)
      BY <1>4, <3>1 DEF IInv, StoreOK
    <3>3. \A w \in batch : w.key # Fragment(key, n)
      BY <1>4, <1>9, <1>12, <2>2, FragmentsApart
    <3> QED
      BY <1>5, <3>2, <3>3, ApplyAt DEF Has
  <2> QED
    BY <2>1, <2>2
<1>13. /\ current' \in [Keys -> Seq(Characters)]
       /\ current'[to] = current[key]
       /\ key # to => current'[key] = <<>>
       /\ \A k \in Keys \ {key, to} : current'[k] = current[k]
  <2>1. <<>> \in Seq(Characters)
    BY EmptySeq, Zenon
  <2> QED
    BY <1>5, <2>1 DEF IInv, CurrentOK
<1>14. \A w \in batch : /\ \E k \in {key, to}, n \in Nat : w.key = Fragment(k, n)
                        /\ w.piece # <<>> => Len(w.piece) \in 1..SPLIT_SIZE
  BY <1>4, <1>8, <1>9
<1> DEFINE K == {key, to}
<1>15. /\ K \in SUBSET Keys /\ \A k \in K : WriterOf[k] = s
       /\ mangled' \subseteq Keys
       /\ \A k \in Keys \ K : current'[k] = current[k] /\ (k \in mangled' <=> k \in mangled)
  BY <1>5, <1>6, <1>13 DEF IInv, CurrentOK
<1>16. \A k \in K : \A m, n \in Nat : m < n /\ Has(k, n)' => Has(k, m)'
  <2>1. ASSUME NEW m \in Nat, NEW n \in Nat, m < n, Has(to, n)' PROVE Has(to, m)'
    <3>1. n # 0 /\ Has(to, n)
      BY <1>11, <2>1
    <3>2. Has(to, m)
      BY <2>1, <3>1 DEF IInv, StoreOK
    <3> QED
      BY <1>10, <1>11, <3>2
  <2> QED
    BY <1>12, <2>1
<1>17. ASSUME key # to PROVE Holds(key, current[key])'
  <2>1. current'[key] = <<>> /\ Len(<<>>) = 0
    BY <1>13, <1>17, EmptySeq, Zenon
  <2>2. \A n \in Nat : ~(n * SPLIT_SIZE < 0)
    <3> SUFFICES ASSUME NEW n \in Nat PROVE ~(n * SPLIT_SIZE < 0)
      OBVIOUS
    <3> QED
      BY Multiples
  <2> QED
    BY <1>12, <1>17, <2>1, <2>2 DEF Holds
<1>18. ASSUME to \notin mangled' PROVE Holds(to, current[to])'
  <2>1. at = 1 /\ Piece(Fragment(to, 1)) = <<>> /\ key \notin mangled
    BY <1>5, <1>18
  <2>2. ~Has(to, 1)
    BY <2>1, PieceThere DEF IInv, Has
  <2> DEFINE v == current[key]
  <2>3. v \in Seq(Characters) /\ Holds(key, v)
    BY <2>1 DEF IInv, CurrentOK
  <2>4. /\ 0 * SPLIT_SIZE < Len(v) /\ last = Slice(v, 0)
        /\ ~(1 * SPLIT_SIZE < Len(v))
    <3>1. Has(key, 0) /\ ~Has(key, 1) /\ last = store[Fragment(key, 0)]
      BY <1>3, <1>4, <2>1
    <3> QED
      BY <2>3, <3>1 DEF Holds
  <2>5. ASSUME NEW n \in Nat, n # 0 PROVE ~Has(to, n)' /\ ~(n * SPLIT_SIZE < Len(v))
    <3>1. n = 1 \/ 1 < n
      BY <2>5
    <3>2. ~Has(to, n)
      BY <2>2, <3>1 DEF IInv, StoreOK
    <3>3. (0 + 1) * SPLIT_SIZE <= n * SPLIT_SIZE
      <4>1. 0 \in Nat /\ 0 < n
        BY <2>5
      <4> QED
        BY <4>1, MultiplesGrow
    <3>4. 1 * SPLIT_SIZE = SPLIT_SIZE /\ (0 + 1) * SPLIT_SIZE = SPLIT_SIZE
      BY StoreAssumption
    <3>5. Len(v) \in Nat /\ n * SPLIT_SIZE \in Nat /\ SPLIT_SIZE \in Nat
      BY <2>3, Multiples, StoreAssumption
    <3>6. ~(n * SPLIT_SIZE < Len(v))
      BY <2>4, <3>3, <3>4, <3>5
    <3> QED
      BY <1>11, <2>5, <3>2, <3>6
  <2>6. \A n \in Nat : /\ Has(to, n)' <=> n * SPLIT_SIZE < Len(v)
                       /\ Has(to, n)' => store'[Fragment(to, n)] = Slice(v, n)
    BY <1>10, <2>4, <2>5
  <2> HIDE DEF v
  <2>7. current'[to] = v
    BY <1>13 DEF v
  <2> QED
    BY <2>6, <2>7 DEF Holds, Has, Slice, Upto
<1>19. \A k \in K \ mangled' : Holds(k, current[k])'
  BY <1>17, <1>18
<1>20. Apply(batch) /\ Disturb(s, K) /\ writes' = writes
  BY <1>5
<1>21. \A w \in batch : /\ \E k \in K, n \in Nat : w.key = Fragment(k, n)
                        /\ w.piece # <<>> => Len(w.piece) \in 1..SPLIT_SIZE
  BY <1>14
<1>22. current' \in [Keys -> Seq(Characters)]
  BY <1>13
<1> HIDE DEF K
<1> QED
  BY <1>15, <1>16, <1>19, <1>20, <1>21, <1>22, CommitFrame

-----------------------------------------------------------------------------
LEMMA NextInv == IInv /\ [Next]_vars => IInv'
<1> SUFFICES ASSUME IInv, [Next]_vars PROVE IInv'
  OBVIOUS
<1>1. CASE Next
  <2>1. PICK s \in Sessions :
          \/ \E key \in Keys : /\ WriterOf[key] = s
                               /\ Remove(s, key) \/ \E v \in ValuesOf[key] : Set(s, key, v)
          \/ \E m \in Moves : WriterOf[m[1]] = s /\ Move(s, m[1], m[2])
          \/ \E key \in Keys : Get(s, key)
          \/ Clean(s) \/ Carry(s) \/ Assemble(s) \/ Return(s)
          \/ Commit(s) \/ CommitMove(s) \/ Forget(s)
    BY <1>1 DEF Next
  <2>2. ASSUME NEW key \in Keys, WriterOf[key] = s,
               Remove(s, key) \/ \E v \in ValuesOf[key] : Set(s, key, v)
        PROVE  IInv'
    BY <2>2, RemoveInv, SetInv
  <2>3. ASSUME NEW m \in Moves, WriterOf[m[1]] = s, Move(s, m[1], m[2]) PROVE IInv'
    BY <2>3, MoveInv
  <2>4. ASSUME NEW key \in Keys, Get(s, key) PROVE IInv'
    BY <2>4, GetInv
  <2>5. CASE Clean(s) \/ Carry(s) \/ Assemble(s) \/ Return(s) \/ Forget(s)
    BY <2>5, CleanInv, CarryInv, AssembleInv, DropInv
  <2>6. CASE Commit(s) \/ CommitMove(s)
    BY <2>6, CommitInv, CommitMoveInv
  <2> QED
    BY <2>1, <2>2, <2>3, <2>4, <2>5, <2>6
<1>2. CASE UNCHANGED vars
  <2> USE <1>2 DEF vars
  <2>1. StoreOK' /\ CurrentOK'
    BY DEF IInv, StoreOK, CurrentOK, Holds, Has
  <2>2. \A s \in Sessions : OpOK(s, op[s])'
    BY DEF IInv, OpOK, WriteOK, MoveOK, GetOK, Has
  <2> QED
    BY <2>1, <2>2 DEF IInv
<1> QED
  BY <1>1, <1>2

LEMMA Invariance == Spec => []IInv
BY InitInv, NextInv, PTL DEF Spec

\* Chain keys hold pieces of the right size, and sessions do one thing at a time.
THEOREM TypeCorrect == Spec => []TypeOK
<1>1. IInv => TypeOK
  <2> SUFFICES ASSUME IInv PROVE TypeOK
    OBVIOUS
  <2> QED
    BY KindTells DEF IInv, StoreOK, CurrentOK, TypeOK
<1> QED
  BY <1>1, Invariance, PTL

\* A get during which nothing is committed under its key returns the whole
\* value that was committed last, and nothing else.
THEOREM GetsAreExact == Spec => []QuietReadsAreExact
<1>1. ASSUME IInv, NEW s \in Sessions, op[s].kind = "got", op[s].quiet, op[s].key \notin mangled
      PROVE  op[s].got = current[op[s].key]
  <2> DEFINE o == op[s]
             v == current[o.key]
  <2>1. o \in GetOp /\ GetOK(o)
    BY <1>1, KindTells
  <2>2. o.key \in Keys /\ o.at \in Nat /\ o.got = Prefix(v, o.at) /\ ~Has(o.key, o.at)
    BY <1>1, <2>1 DEF GetOp, GetOK
  <2>3. v \in Seq(Characters) /\ Holds(o.key, v)
    BY <1>1, <2>2 DEF IInv, CurrentOK
  <2> HIDE DEF v, o
  <2>4. ~(o.at * SPLIT_SIZE < Len(v))
    BY <2>2, <2>3 DEF Holds
  <2>5. o.at * SPLIT_SIZE \in Nat /\ Len(v) \in Nat
    BY <2>2, <2>3, Multiples, LenProperties, Zenon
  <2>6. Upto(v, o.at) = Len(v)
    BY <2>4, <2>5 DEF Upto
  <2>7. SubSeq(v, 1, Len(v)) = v
    <3> DEFINE u == SubSeq(v, 1, Len(v))
    <3>1. u \in Seq(Characters) /\ Len(u) = Len(v) /\ \A i \in 1..Len(v) : u[i] = v[i]
      BY <2>3, <2>5
    <3> HIDE DEF u
    <3>2. u = v
      BY <2>3, <3>1, SeqEqual
    <3> QED
      BY <3>2 DEF u
  <2>8. o.got = v
    BY <2>2, <2>6, <2>7 DEF Prefix
  <2> QED
    BY <2>8 DEF o, v
<1>2. IInv => QuietReadsAreExact
  BY <1>1 DEF QuietReadsAreExact
<1> QED
  BY <1>2, Invariance, PTL

\* Everything in the store is a piece of a value that a get returns.
THEOREM NothingStale == Spec => []NoStaleFragments
<1>1. ASSUME IInv, mangled = {}, NEW k \in DOMAIN store
      PROVE  \E key \in Keys : \E n \in 0..Len(current[key]) :
               k = Fragment(key, n) /\ n * SPLIT_SIZE < Len(current[key])
  <2>1. PICK key \in Keys, n \in Nat : k = Fragment(key, n)
    BY <1>1 DEF IInv, StoreOK
  <2> DEFINE L == Len(current[key])
  <2>2. current[key] \in Seq(Characters) /\ Holds(key, current[key])
    BY <1>1 DEF IInv, CurrentOK
  <2>3. L \in Nat /\ n * SPLIT_SIZE < L
    BY <1>1, <2>1, <2>2 DEF Holds, Has
  <2>4. n <= L
    <3>1. n <= n * SPLIT_SIZE
      BY StoreAssumption, SMTT(30)
    <3>2. n * SPLIT_SIZE \in Nat
      BY Multiples
    <3> HIDE DEF L
    <3> QED
      BY <2>3, <3>1, <3>2
  <2>5. n \in 0..L
    BY <2>3, <2>4
  <2> QED
    BY <2>1, <2>3, <2>5
<1>2. IInv => NoStaleFragments
  BY <1>1 DEF NoStaleFragments
<1> QED
  BY <1>2, Invariance, PTL
=============================================================================
