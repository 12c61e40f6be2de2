----------------------------- MODULE TFKVStore -----------------------------
(***************************************************************************)
(* TFKVStoreBackend (grid_client/src/storage/tfkvstore.ts): values of any  *)
(* length in the chain's key-value store, cut into fragments under "key",  *)
(* "key.1", "key.2", ...  set, remove and moveValue read the store one key *)
(* at a time and return extrinsics, which their caller applies later as    *)
(* one batch (modules/base.ts save and _migrateListKeys).                  *)
(*                                                                         *)
(* A value is the sequence of its characters, <<>> the value that counts   *)
(* as none; a chain key is a sequence, so that "key.1" is Append(key, 1).  *)
(***************************************************************************)
EXTENDS Naturals, Sequences, FiniteSets

CONSTANTS
  Sessions,    \* clients of one account, each does one operation at a time
  Keys,        \* the keys they use
  Characters,
  ValuesOf,    \* [Keys -> sets of what is stored under them]
  Moves,       \* the <<from, to>> that moveValue is called with
  WriterOf,    \* [Keys -> Sessions], who writes a key
  SPLIT_SIZE,
  MaxWrites    \* bound: how many writes are begun in all

\* No key is named like a fragment of another, as "net" and "net.1" would be.
ASSUME StoreAssumption ==
  /\ Keys \subseteq Seq(Nat) \ {<<>>}
  /\ \A k \in Keys : SubSeq(k, 1, Len(k) - 1) \notin Keys
  /\ \A k \in Keys : ValuesOf[k] \subseteq Seq(Characters)
  /\ Moves \subseteq Keys \X Keys
  /\ WriterOf \in [Keys -> Sessions]
  /\ \A m \in Moves : WriterOf[m[1]] = WriterOf[m[2]]
  /\ SPLIT_SIZE \in Nat \ {0}
  /\ MaxWrites \in Nat

VARIABLES
  store,    \* chain: key -> piece, the keys that have one
  op,       \* what each session is doing
  writes,   \* how many writes have been begun
  current,  \* the value last committed under each key
  mangled   \* keys written last by a move that does not preserve the value

vars == <<store, op, writes, current, mangled>>

Fragment(key, n) == IF n = 0 THEN key ELSE Append(key, n)
Piece(k) == IF k \in DOMAIN store THEN store[k] ELSE <<>>
Nothing == [kind |-> "none"]

\* Mutant: the loop of split stops a piece early.
SplitShort(value) ==
  LET count == IF Len(value) < SPLIT_SIZE THEN 1 ELSE Len(value) \div SPLIT_SIZE
  IN  [n \in 1..count |-> SubSeq(value, (n - 1) * SPLIT_SIZE + 1,
         IF n = count THEN Len(value) ELSE n * SPLIT_SIZE)]

\* split: as many full pieces as leave at least one character, and the rest.
Split(value) ==
  LET count == (Len(value) - 1) \div SPLIT_SIZE + 1
  IN  [n \in 1..count |-> SubSeq(value, (n - 1) * SPLIT_SIZE + 1,
         IF n = count THEN Len(value) ELSE n * SPLIT_SIZE)]

Put(k, piece) == [key |-> k, piece |-> piece]
Delete(k) == [key |-> k, piece |-> <<>>]

Init ==
  /\ store = [k \in {} |-> <<>>]
  /\ op = [s \in Sessions |-> Nothing]
  /\ writes = 0
  /\ current = [k \in Keys |-> <<>>]
  /\ mangled = {}

-----------------------------------------------------------------------------
(* Operations begin.                                                         *)

Begin(s, o) ==
  /\ op[s] = Nothing
  /\ op' = [op EXCEPT ![s] = o]

BeginWrite(s, o) ==
  /\ writes < MaxWrites
  /\ writes' = writes + 1
  /\ Begin(s, o)
  /\ UNCHANGED <<store, current, mangled>>

\* Mutant: the fragments after the first new one are looked at.
SetSkipsOne(s, key, value) ==
  LET pieces == Split(value) IN
    BeginWrite(s, [kind |-> "write", key |-> key, value |-> value,
                   at |-> Len(pieces) + 1,
                   batch |-> {Put(Fragment(key, n - 1), pieces[n]) : n \in DOMAIN pieces}])

\* set: one extrinsic for each piece, then cleanFragments from there on.
Set(s, key, value) ==
  LET pieces == Split(value) IN
    BeginWrite(s, [kind |-> "write", key |-> key, value |-> value,
                   at |-> Len(pieces),
                   batch |-> {Put(Fragment(key, n - 1), pieces[n]) : n \in DOMAIN pieces}])

\* Mutant: only the first fragment is deleted.
RemoveFirst(s, key) ==
  IF Piece(key) = <<>>
  THEN BeginWrite(s, Nothing)
  ELSE BeginWrite(s, [kind |-> "planned", key |-> key, value |-> <<>>,
                      at |-> 1, batch |-> {Delete(key)}])

\* remove: nothing to do if the key has no value.
Remove(s, key) ==
  IF Piece(key) = <<>>
  THEN BeginWrite(s, Nothing)
  ELSE BeginWrite(s, [kind |-> "write", key |-> key, value |-> <<>>,
                      at |-> 1, batch |-> {Delete(key)}])

\* moveValue, from its first iteration on.
Move(s, from, to) ==
  BeginWrite(s, [kind |-> "move", key |-> from, to |-> to, at |-> 0, batch |-> {}])

Get(s, key) ==
  /\ Begin(s, [kind |-> "get", key |-> key, at |-> 0, got |-> <<>>, quiet |-> TRUE])
  /\ UNCHANGED <<store, writes, current, mangled>>

-----------------------------------------------------------------------------
(* They read the store one key at a time ...                                 *)

\* cleanFragments: every fragment it finds is deleted, until one is missing.
Clean(s) ==
  LET o == op[s]
      k == Fragment(o.key, o.at)
  IN  /\ o.kind = "write"
      /\ op' = [op EXCEPT ![s] =
           IF Piece(k) = <<>> THEN [o EXCEPT !.kind = "planned"]
           ELSE [o EXCEPT !.at = @ + 1, !.batch = @ \cup {Delete(k)}]]
      /\ UNCHANGED <<store, writes, current, mangled>>

\* moveValue: every piece it finds is set under the new key, so that of these
\* extrinsics the last one stands, and its own key is deleted.
Carry(s) ==
  LET o == op[s]
      k == Fragment(o.key, o.at)
  IN  /\ o.kind = "move"
      /\ op' = [op EXCEPT ![s] =
           IF Piece(k) = <<>> THEN [o EXCEPT !.kind = "carried"]
           ELSE [o EXCEPT !.at = @ + 1,
                          !.batch = {w \in @ : w.key # o.to} \cup {Put(o.to, Piece(k))}
                             \cup (IF o.key # o.to THEN {Delete(k)} ELSE {})]]
      /\ UNCHANGED <<store, writes, current, mangled>>

\* get: pieces are appended until one is missing.
Assemble(s) ==
  LET o == op[s]
      k == Fragment(o.key, o.at)
  IN  /\ o.kind = "get"
      /\ op' = [op EXCEPT ![s] =
           IF Piece(k) = <<>> THEN [o EXCEPT !.kind = "got"]
           ELSE [o EXCEPT !.at = @ + 1, !.got = @ \o Piece(k)]]
      /\ UNCHANGED <<store, writes, current, mangled>>

Return(s) ==
  /\ op[s].kind = "got"
  /\ op' = [op EXCEPT ![s] = Nothing]
  /\ UNCHANGED <<store, writes, current, mangled>>

-----------------------------------------------------------------------------
(* ... and their extrinsics are applied later, together or not at all.       *)

\* The chain refuses to delete a key that has no value.
Applicable(batch) == \A w \in batch : w.piece = <<>> => w.key \in DOMAIN store

Apply(batch) ==
  LET gone == {w.key : w \in {v \in batch : v.piece = <<>>}}
      kept == (DOMAIN store \cup {w.key : w \in batch}) \ gone
  IN  store' = [k \in kept |->
        IF \E w \in batch : w.key = k
        THEN (CHOOSE w \in batch : w.key = k).piece ELSE store[k]]

\* Gets of these keys that are under way are no longer undisturbed.
Disturb(s, keys) ==
  op' = [r \in Sessions |->
    IF r = s THEN Nothing
    ELSE IF op[r].kind \in {"get", "got"} /\ op[r].key \in keys
         THEN [op[r] EXCEPT !.quiet = FALSE] ELSE op[r]]

Commit(s) ==
  LET o == op[s] IN
    /\ o.kind = "planned"
    /\ Applicable(o.batch)
    /\ Apply(o.batch)
    /\ Disturb(s, {o.key})
    /\ current' = [current EXCEPT ![o.key] = o.value]
    /\ mangled' = mangled \ {o.key}
    /\ UNCHANGED writes

\* A value of one piece, and no later pieces at its new place.
Plain(o) == o.at = 1 /\ Piece(Fragment(o.to, 1)) = <<>>

CommitMove(s) ==
  LET o == op[s] IN
    /\ o.kind = "carried"
    /\ o.batch # {}
    /\ Applicable(o.batch)
    /\ Apply(o.batch)
    /\ Disturb(s, {o.key, o.to})
    /\ current' = [current EXCEPT ![o.key] = <<>>, ![o.to] = current[o.key]]
    /\ mangled' = (mangled \ {o.key}) \cup
         (IF Plain(o) /\ o.key \notin mangled THEN {} ELSE {o.to})
    /\ UNCHANGED writes

\* The batch is not applied: it is refused, or never submitted.
Forget(s) ==
  /\ op[s].kind \in {"planned", "carried"}
  /\ op' = [op EXCEPT ![s] = Nothing]
  /\ UNCHANGED <<store, writes, current, mangled>>

-----------------------------------------------------------------------------
Next == \E s \in Sessions :
  \/ \E key \in Keys : /\ WriterOf[key] = s
                       /\ Remove(s, key) \/ \E v \in ValuesOf[key] : Set(s, key, v)
  \/ \E m \in Moves : WriterOf[m[1]] = s /\ Move(s, m[1], m[2])
  \/ \E key \in Keys : Get(s, key)
  \/ Clean(s) \/ Carry(s) \/ Assemble(s) \/ Return(s)
  \/ Commit(s) \/ CommitMove(s) \/ Forget(s)

Spec == Init /\ [][Next]_vars

-----------------------------------------------------------------------------
\* The values of one account's keys, as get assembles them.
Content(st, key) ==
  LET from[n \in 0..Cardinality(DOMAIN st)] ==
        IF Fragment(key, n) \notin DOMAIN st THEN <<>>
        ELSE st[Fragment(key, n)] \o from[n + 1]
  IN  from[0]

\* Chain keys hold pieces that are not empty and not too long, and sessions do
\* one operation at a time.
TypeOK ==
  /\ \A k \in DOMAIN store : Len(store[k]) \in 1..SPLIT_SIZE
  /\ \A s \in Sessions :
       op[s].kind \in {"none", "write", "planned", "move", "carried", "get", "got"}
  /\ writes \in 0..MaxWrites
  /\ mangled \subseteq Keys

\* A get that no batch interrupts returns the value that was committed last, in
\* full and nothing beside it, whatever longer or shorter values the key had
\* before (tfkvstore.ts:35-76).  A key has one writer, as a user has one client
\* at a time; a move of several pieces is the exception MoveKeepsValue is about.
QuietReadsAreExact ==
  \A s \in Sessions : op[s].kind = "got" /\ op[s].quiet /\ op[s].key \notin mangled =>
    op[s].got = current[op[s].key]

\* No fragment is left behind: whatever is under a key's fragments belongs to
\* its value (cleanFragments, tfkvstore.ts:18-32), so that nothing is stored,
\* and paid for, that no get returns.
NoStaleFragments ==
  mangled = {} =>
    \A k \in DOMAIN store : \E key \in Keys : \E n \in 0..Len(current[key]) :
      k = Fragment(key, n) /\ n * SPLIT_SIZE < Len(current[key])

\* _migrateListKeys "moves the contracts data to the new deployment path"
\* (modules/base.ts:203): what moveValue's batch leaves under the new key is
\* what was under the old one.
MoveKeepsValue ==
  [][\A s \in Sessions : op[s].kind = "carried" /\ store' # store /\ op'[s] = Nothing =>
       Content(store', op[s].to) = Content(store, op[s].key)]_vars
=============================================================================
