--------------------------- MODULE TFChainClient ---------------------------
(***************************************************************************)
(* How the chain client submits extrinsics (tfchain_client/src/client.ts,  *)
(* utility.ts).  A task is one call of utility.batch or batchAll: it cuts  *)
(* its extrinsics into chunks and applies them one after the other.        *)
(* Applying takes the static lock of the process, reads the account's next *)
(* nonce, signs, submits and waits for the extrinsic to be in a block.     *)
(*                                                                         *)
(* Several processes may use the same account; they share nothing but the  *)
(* chain, which is external: a pool ordered by nonce and what is included. *)
(***************************************************************************)
EXTENDS Naturals, Sequences, FiniteSets, Functions

CONSTANTS
  Tasks,
  NoTask,
  Processes,
  ProcessOf,   \* [Tasks -> Processes]
  Size,        \* [Tasks -> Nat], how many extrinsics a task has
  AllTasks,    \* the tasks that call batchAll; the others call batch
  Cancelling,  \* the tasks whose extrinsics cancel contracts
  BATCH_SIZE

ASSUME ChainAssumption ==
  /\ NoTask \notin Tasks
  /\ ProcessOf \in [Tasks -> Processes]
  /\ Size \in [Tasks -> Nat]
  /\ AllTasks \subseteq Tasks
  /\ Cancelling \subseteq Tasks
  /\ BATCH_SIZE \in Nat \ {0}

VARIABLES
  lock,    \* Client.lock of each process: the task that holds it
  queue,   \* the tasks that wait for it, in order of arrival
  pc,      \* where each task is
  pos,     \* i: how many extrinsics the chunks before this one hold
  nonce,   \* the nonce a task has read for its chunk
  result,  \* the results it has gathered
  report,  \* the status its subscription has brought
  pool,    \* chain: transactions accepted and not included yet
  blocks   \* chain: the account's included transactions, in order of nonce

lockVars  == <<lock, queue>>
chainVars == <<pool, blocks>>
vars == <<lock, queue, pc, pos, nonce, result, report, pool, blocks>>

\* Mutant: a slice that does not stop at the last extrinsic.
ChunkEndBeyond(t, i) == i + BATCH_SIZE

\* The last extrinsic of the chunk that starts after i.
ChunkEnd(t, i) == IF i + BATCH_SIZE < Size[t] THEN i + BATCH_SIZE ELSE Size[t]
Extrinsics(t) == {<<t, j>> : j \in 1..Size[t]}

\* What a task submits; a transaction in a block also says how many of its
\* extrinsics took effect.
Tx(t) == [nonce |-> nonce[t], task |-> t, from |-> pos[t]]
NoReport == [kind |-> "none", got |-> 0]
Silence  == [kind |-> "silent", got |-> 0]

Account  == Len(blocks)
Included == UNION {{<<b.task, b.from + j>> : j \in 1..b.got} : b \in Range(blocks)}
Taken    == {x.nonce : x \in pool}
Settled  == {"done", "failed", "lost"}

Init ==
  /\ lock = [p \in Processes |-> NoTask]
  /\ queue = [p \in Processes |-> <<>>]
  /\ pc = [t \in Tasks |-> "idle"]
  /\ pos = [t \in Tasks |-> 0]
  /\ nonce = [t \in Tasks |-> 0]
  /\ result = [t \in Tasks |-> <<>>]
  /\ report = [t \in Tasks |-> NoReport]
  /\ pool = {}
  /\ blocks = <<>>

-----------------------------------------------------------------------------
(* The client.                                                               *)

\* checkConnection: without a connection the call throws before it starts.
CannotConnect(t) ==
  /\ pc[t] = "idle"
  /\ pc' = [pc EXCEPT ![t] = "failed"]
  /\ UNCHANGED <<lockVars, pos, nonce, result, report, chainVars>>

\* The loop of batch and batchAll: the next chunk takes the lock or queues for
\* it; after the last one the call returns.
NextChunk(t) ==
  LET p == ProcessOf[t] IN
    /\ pc[t] \in {"idle", "next"}
    /\ \/ /\ pos[t] >= Size[t]
          /\ pc' = [pc EXCEPT ![t] = "done"]
          /\ UNCHANGED lockVars
       \/ /\ pos[t] < Size[t]
          /\ lock[p] = NoTask
          /\ lock' = [lock EXCEPT ![p] = t]
          /\ pc' = [pc EXCEPT ![t] = "locked"]
          /\ UNCHANGED queue
       \/ /\ pos[t] < Size[t]
          /\ lock[p] # NoTask
          /\ queue' = [queue EXCEPT ![p] = Append(@, t)]
          /\ pc' = [pc EXCEPT ![t] = "queued"]
          /\ UNCHANGED lock
    /\ UNCHANGED <<pos, nonce, result, report, chainVars>>

\* Mutant: the lock is freed and nobody in line is woken.
ReleaseUnheard(t, then) ==
  /\ lock' = [lock EXCEPT ![ProcessOf[t]] = NoTask]
  /\ pc' = [pc EXCEPT ![t] = then]
  /\ UNCHANGED queue

\* The finally of applyExtrinsic: the lock goes to the first task in line.
Release(t, then) ==
  LET p    == ProcessOf[t]
      heir == IF queue[p] = <<>> THEN NoTask ELSE Head(queue[p])
  IN  /\ lock' = [lock EXCEPT ![p] = heir]
      /\ queue' = [queue EXCEPT ![p] = IF @ = <<>> THEN @ ELSE Tail(@)]
      /\ pc' = [u \in Tasks |-> CASE u = t    -> then
                                  [] u = heir -> "locked"
                                  [] OTHER    -> pc[u]]

\* The nonce the chain gives next: after those in blocks and those in the pool
\* that follow them without a gap.
IsNextIndex(n) == n >= Account /\ n \notin Taken /\ Account..(n - 1) \subseteq Taken

\* Mutant: the nonce on the chain, which knows nothing of the pool.
ReadNonceOnChain(t) ==
  /\ pc[t] = "locked"
  /\ nonce' = [nonce EXCEPT ![t] = Account]
  /\ pc' = [pc EXCEPT ![t] = "signing"]
  /\ UNCHANGED <<lockVars, pos, result, report, chainVars>>

ReadNonce(t) ==
  /\ pc[t] = "locked"
  /\ \E n \in Account..(Account + Cardinality(pool)) :
       IsNextIndex(n) /\ nonce' = [nonce EXCEPT ![t] = n]
  /\ pc' = [pc EXCEPT ![t] = "signing"]
  /\ UNCHANGED <<lockVars, pos, result, report, chainVars>>

\* The nonce cannot be read, or the signer refuses.
Refuse(t) ==
  /\ pc[t] \in {"locked", "signing"}
  /\ Release(t, "failed")
  /\ UNCHANGED <<pos, nonce, result, report, chainVars>>

\* The pool takes a nonce that is neither used up nor taken.
Usable(n) == n >= Account /\ n \notin Taken

\* signAndSend.  When the connection drops before the answer, the transaction
\* is in the pool although the call throws.
SendAccepted(t) ==
  /\ pc[t] = "signing"
  /\ Usable(nonce[t])
  /\ pool' = pool \cup {Tx(t)}
  /\ \/ pc' = [pc EXCEPT ![t] = "watching"] /\ UNCHANGED lockVars
     \/ Release(t, "lost")
  /\ report' = [report EXCEPT ![t] = NoReport]
  /\ UNCHANGED <<pos, nonce, result, blocks>>

SendRejected(t) ==
  /\ pc[t] = "signing"
  /\ ~Usable(nonce[t])
  /\ Release(t, "failed")
  /\ UNCHANGED <<pos, nonce, result, report, chainVars>>

\* The results a chunk's success brings: one for each extrinsic that took effect,
\* read from its event.  An extrinsic that cancels a contract carries a map to the
\* contract's id instead, and the last map of the chunk is applied to every event.
Gained(t) ==
  [j \in 1..report[t].got |->
     <<t, IF t \in Cancelling THEN ChunkEnd(t, pos[t]) ELSE pos[t] + j>>]

\* Mutant: each chunk's results replace those before.
SucceededReplacing(t) ==
  /\ pc[t] = "watching"
  /\ report[t].kind = "success"
  /\ result' = [result EXCEPT ![t] = Gained(t)]
  /\ pos' = [pos EXCEPT ![t] = @ + BATCH_SIZE]
  /\ Release(t, "next")
  /\ UNCHANGED <<nonce, report, chainVars>>

\* Mutant: the loop over the chunks counts by one.
SucceededByOne(t) ==
  /\ pc[t] = "watching"
  /\ report[t].kind = "success"
  /\ result' = [result EXCEPT ![t] = @ \o Gained(t)]
  /\ pos' = [pos EXCEPT ![t] = @ + 1]
  /\ Release(t, "next")
  /\ UNCHANGED <<nonce, report, chainVars>>

\* ExtrinsicSuccess in a block.
Succeeded(t) ==
  /\ pc[t] = "watching"
  /\ report[t].kind = "success"
  /\ result' = [result EXCEPT ![t] = @ \o Gained(t)]
  /\ pos' = [pos EXCEPT ![t] = @ + BATCH_SIZE]
  /\ Release(t, "next")
  /\ UNCHANGED <<nonce, report, chainVars>>

\* ExtrinsicFailed in a block.
Failed(t) ==
  /\ pc[t] = "watching"
  /\ report[t].kind = "failed"
  /\ Release(t, "failed")
  /\ UNCHANGED <<pos, nonce, result, report, chainVars>>

-----------------------------------------------------------------------------
(* The chain and the connection.                                             *)

Watches(t, x) == pc[t] = "watching" /\ x = Tx(t)

\* What a block makes of a transaction: batchAll does all or fails, batch stops
\* at the first extrinsic that fails and succeeds all the same.
Effects(x) ==
  LET whole == ChunkEnd(x.task, x.from) - x.from IN
    IF x.task \in AllTasks
    THEN {[kind |-> "success", got |-> whole], [kind |-> "failed", got |-> 0]}
    ELSE {[kind |-> "success", got |-> g] : g \in 0..whole}

Include(x) ==
  /\ x.nonce = Account
  /\ pool' = pool \ {x}
  /\ \E e \in Effects(x) :
       /\ blocks' = Append(blocks, [task |-> x.task, from |-> x.from, got |-> e.got])
       /\ report' = [t \in Tasks |->
            IF Watches(t, x) /\ report[t] = NoReport THEN e ELSE report[t]]
  /\ UNCHANGED <<lockVars, pc, pos, nonce, result>>

\* The pool drops a transaction, or the connection under its subscription
\* does: the status callback acts on neither, so no outcome is ever reported.
Drop(x) ==
  /\ pool' = pool \ {x}
  /\ report' = [t \in Tasks |-> IF Watches(t, x) THEN Silence ELSE report[t]]
  /\ UNCHANGED <<lockVars, pc, pos, nonce, result, blocks>>

Disconnect(t) ==
  /\ pc[t] = "watching"
  /\ report[t] = NoReport
  /\ report' = [report EXCEPT ![t] = Silence]
  /\ UNCHANGED <<lockVars, pc, pos, nonce, result, chainVars>>

-----------------------------------------------------------------------------
Continue(t) ==
  \/ pc[t] = "next" /\ NextChunk(t)
  \/ ReadNonce(t) \/ Refuse(t) \/ SendAccepted(t) \/ SendRejected(t)
  \/ Succeeded(t) \/ Failed(t)

Next ==
  \/ \E t \in Tasks : CannotConnect(t) \/ NextChunk(t) \/ Continue(t) \/ Disconnect(t)
  \/ \E x \in pool : Include(x) \/ Drop(x)

Spec == Init /\ [][Next]_vars

\* Requests to the chain are answered or fail, and it includes what is next.
FairSpec ==
  /\ Spec
  /\ \A t \in Tasks : WF_vars(Continue(t))
  /\ WF_vars(\E x \in pool : Include(x))

-----------------------------------------------------------------------------
\* The state is well formed: the types of every variable of the client and of
\* the chain (client.ts:332-406, utility.ts:13-47).
TypeOK ==
  /\ lock \in [Processes -> Tasks \cup {NoTask}]
  /\ queue \in [Processes -> Seq(Tasks)]
  /\ pc \in [Tasks -> {"idle", "next", "queued", "locked", "signing", "watching"}
                      \cup Settled]
  /\ pos \in [Tasks -> Nat]
  /\ nonce \in [Tasks -> Nat]
  /\ \A t \in Tasks : result[t] \in Seq(Extrinsics(t))
  /\ \A t \in Tasks : /\ report[t].kind \in {"none", "success", "failed", "silent"}
                      /\ report[t].got \in Nat
  /\ \A x \in pool : x.nonce \in Nat /\ x.task \in Tasks /\ x.from \in Nat
  /\ blocks \in Seq([task : Tasks, from : Nat, got : Nat])

\* Tasks of one process never compete for a nonce, whatever became of the
\* transactions submitted before: between accountNextIndex and signAndSend the
\* nonce a task has read can only be taken by a process that shares the
\* account but not the lock (client.ts:374-376, 396-403).
NoNonceRace ==
  \A t \in Tasks : pc[t] = "signing" /\ ~Usable(nonce[t]) =>
    \E u \in Tasks :
      /\ ProcessOf[u] # ProcessOf[t]
      /\ \/ \E x \in pool : x.task = u /\ x.nonce = nonce[t]
         \/ nonce[t] < Account /\ blocks[nonce[t] + 1].task = u

\* A call that returns has returned the result of exactly the extrinsics that
\* took effect, across all its chunks; for batchAll these are all of them, in
\* order (utility.ts:18-27, 34-43): TwinDeploymentHandler tells contracts from
\* name contracts by the position of their results.  Of cancellations batchAll
\* still returns one result for each (client.ts:361-368).
ReturnsWhatWasApplied ==
  \A t \in Tasks : pc[t] = "done" =>
    /\ t \in AllTasks => Len(result[t]) = Size[t]
    /\ t \notin Cancelling =>
         /\ Range(result[t]) = Extrinsics(t) \cap Included
         /\ t \in AllTasks => result[t] = [j \in 1..Size[t] |-> <<t, j>>]

\* batchAll of cancellations returns the ids of the contracts it has cancelled:
\* Contracts.cancel, in the words of tfchain_client/src/contracts.ts:441-442,
\* "patches the extrinsic result with the `contract ID`".  The results of a chunk
\* all get the id of its last contract (utility.ts:60, client.ts:365).
CancelledIdsReturned ==
  \A t \in AllTasks \cap Cancelling :
    pc[t] = "done" => result[t] = [j \in 1..Size[t] |-> <<t, j>>]

\* batchAll that throws because an extrinsic failed, or before its transaction
\* was submitted, has applied nothing (utility.ts:31-47): extrinsics that fit one
\* chunk are submitted once and in one transaction, so nothing that was applied
\* before can precede the failure.
BatchAllRollsBack ==
  \A t \in AllTasks :
    pc[t] = "failed" /\ Size[t] <= BATCH_SIZE => Extrinsics(t) \cap Included = {}

\* The same for every call, in the words of grid_client/src/modules/utility.ts:42:
\* "if one of the extrinsics fails in the case of using batchAll, all the
\* extrinsics will be rolled back".  Each chunk is a transaction of its own
\* (utility.ts:36-41), so the chunks before the one that fails stay applied.
FailedExtrinsicRollsBackAll ==
  \A t \in AllTasks :
    pc[t] = "failed" /\ report[t].kind = "failed" => Extrinsics(t) \cap Included = {}

\* A task that queues for the lock comes to an end (client.ts:396-403).  Only a
\* transaction nobody hears of again, or a gap its loss leaves before the
\* nonces that follow, can keep the lock for ever.
CallSettles ==
  \A t \in Tasks : pc[t] = "queued" ~>
    \/ pc[t] \in Settled
    \/ \E u \in Tasks : report[u] = Silence
    \/ \E x \in pool : ~(Account..x.nonce \subseteq Taken)
=============================================================================
