----------------------- MODULE TFChainClient_proofs -----------------------
(***************************************************************************)
(* Theorems of TFChainClient, for any tasks, processes and chunk size.     *)
(***************************************************************************)
EXTENDS TFChainClient, TLAPS, FiniteSetTheorems, SequenceTheorems

-----------------------------------------------------------------------------
(* The inductive invariant.                                                  *)

Holding == {"locked", "signing", "watching"}
States == {"idle", "next", "queued"} \cup Holding \cup Settled
Failure == [kind |-> "failed", got |-> 0]
Reports == {NoReport, Silence, Failure} \cup [kind : {"success"}, got : Nat]

Typed ==
  /\ lock \in [Processes -> Tasks \cup {NoTask}]
  /\ queue \in [Processes -> Seq(Tasks)]
  /\ pc \in [Tasks -> States]
  /\ pos \in [Tasks -> Nat]
  /\ nonce \in [Tasks -> Nat]
  /\ result = [t \in Tasks |-> result[t]]
  /\ \A t \in Tasks : result[t] \in Seq(Extrinsics(t))
  /\ report \in [Tasks -> Reports]
  /\ pool \subseteq [nonce : Nat, task : Tasks, from : Nat] /\ IsFiniteSet(pool)
  /\ blocks \in Seq([task : Tasks, from : Nat, got : Nat])

\* A task between the two ends of applyExtrinsic holds the lock of its process, and
\* those in line are there once and wait.
LockOK ==
  /\ \A t \in Tasks : pc[t] \in Holding => lock[ProcessOf[t]] = t
  /\ \A p \in Processes : \A i \in 1 .. Len(queue[p]) :
       /\ ProcessOf[queue[p][i]] = p /\ pc[queue[p][i]] = "queued"
       /\ \A j \in 1 .. Len(queue[p]) : queue[p][i] = queue[p][j] => i = j

\* The nonce a task signs with is taken, if at all, by another process.
RaceOK(t) ==
  pc[t] = "signing" =>
    /\ \A x \in pool : x.nonce = nonce[t] => ProcessOf[x.task] # ProcessOf[t]
    /\ nonce[t] < Account => ProcessOf[blocks[nonce[t] + 1].task] # ProcessOf[t]

\* What a task has been told of its extrinsics, and whether that is all there is.
Known(t) ==
  IF pc[t] = "watching" /\ report[t].kind = "success" THEN result[t] \o Gained(t)
  ELSE result[t]
Heard(t) == pc[t] # "lost" /\ ~(pc[t] = "watching" /\ report[t] = Silence)
Mine(t) == {e \in Included : e[1] = t}

\* How many of its extrinsics are in the chunks behind it.
Past(t) == IF pos[t] < Size[t] THEN pos[t] ELSE Size[t]

\* Where a task is in its chunks; it has at most one transaction in the pool, and
\* it knows what has become of those before.
PosOK(t) ==
  /\ pos[t] = 0 \/ BATCH_SIZE <= pos[t]
  /\ pc[t] \in {"queued", "lost"} \cup Holding => pos[t] < Size[t]
  /\ pc[t] = "failed" => pos[t] = 0 \/ pos[t] < Size[t]
  /\ pc[t] = "idle" => pos[t] = 0
  /\ pc[t] = "done" => pos[t] >= Size[t]

FlightOK(t) ==
  /\ \A x \in pool : x.task = t =>
       /\ pc[t] \in {"watching", "lost"} /\ x = Tx(t)
       /\ pc[t] = "watching" => report[t] \in {NoReport, Silence}
  /\ pc[t] = "watching" /\ report[t].kind = "success" =>
       /\ report[t].got <= ChunkEnd(t, pos[t]) - pos[t]
       /\ t \in AllTasks => report[t].got = ChunkEnd(t, pos[t]) - pos[t]

\* What a task knows of its extrinsics is exact, but for the ids of cancelled contracts;
\* if it knows of none, none was applied.
ResultOK(t) ==
  /\ t \in AllTasks => Len(result[t]) = Past(t)
  /\ t \in AllTasks \ Cancelling => result[t] = [j \in 1 .. Past(t) |-> <<t, j>>]
  /\ Heard(t) /\ t \notin Cancelling => Mine(t) = Range(Known(t))
  /\ Heard(t) /\ Known(t) = <<>> => Mine(t) = {}

TaskOK(t) == PosOK(t) /\ FlightOK(t) /\ ResultOK(t)

IInv == Typed /\ LockOK /\ \A t \in Tasks : RaceOK(t) /\ TaskOK(t)

-----------------------------------------------------------------------------
(* The initial state and steps that leave the tasks alone.                   *)

LEMMA InitInv == Init => IInv
<1> SUFFICES ASSUME Init PROVE IInv
  OBVIOUS
<1> USE DEF Init
<1>1. Typed
  BY ChainAssumption, FS_EmptySet DEF Typed, States, Reports
<1>2. LockOK
  BY DEF LockOK, Holding
<1>3. Included = {}
  BY DEF Included, Range
<1>4. ASSUME NEW t \in Tasks PROVE RaceOK(t) /\ TaskOK(t)
  <2>1. PosOK(t)
    BY ChainAssumption DEF PosOK, Holding
  <2>2. FlightOK(t) /\ RaceOK(t)
    BY DEF FlightOK, RaceOK
  <2>3. Mine(t) = Range(Known(t))
    BY <1>3 DEF Mine, Known, Range
  <2>5. Mine(t) = {}
    BY <1>3 DEF Mine
  <2>4. Past(t) = 0 /\ Len(result[t]) = 0 /\ result[t] = [j \in 1 .. 0 |-> <<t, j>>]
    BY ChainAssumption DEF Past
  <2> QED
    BY <2>1, <2>2, <2>3, <2>4, <2>5 DEF TaskOK, ResultOK
<1> QED
  BY <1>1, <1>2, <1>4 DEF IInv

LEMMA StutterInv == ASSUME IInv, UNCHANGED vars PROVE IInv'
<1> USE DEF vars
<1>1. Typed' /\ LockOK'
  BY DEF IInv, Typed, LockOK
<1>2. Included' = Included
  BY DEF Included
<1>3. ASSUME NEW t \in Tasks PROVE RaceOK(t)' /\ TaskOK(t)'
  BY <1>2 DEF IInv, RaceOK, TaskOK, PosOK, FlightOK, ResultOK, Past, Account, Tx, Heard, Known, Mine,
     Gained, ChunkEnd, Past
<1> QED
  BY <1>1, <1>3 DEF IInv

-----------------------------------------------------------------------------
(* The lock.                                                                 *)

\* The lock passes from the task that holds it to the first in line, or to none.
LEMMA ReleaseEffect ==
  ASSUME IInv, NEW t \in Tasks, pc[t] \in Holding,
         NEW then \in Settled \cup {"next"}, Release(t, then)
  PROVE  /\ lock' \in [Processes -> Tasks \cup {NoTask}] /\ queue' \in [Processes -> Seq(Tasks)]
         /\ pc' \in [Tasks -> States] /\ LockOK'
         /\ pc'[t] = then
         /\ \A u \in Tasks \ {t} :
              pc'[u] = pc[u] \/ (pc[u] = "queued" /\ pc'[u] = "locked")
<1> DEFINE p == ProcessOf[t]
           heir == IF queue[p] = <<>> THEN NoTask ELSE Head(queue[p])
<1>1. p \in Processes /\ NoTask \notin Tasks
  BY ChainAssumption
<1>2. /\ lock \in [Processes -> Tasks \cup {NoTask}] /\ queue \in [Processes -> Seq(Tasks)]
      /\ pc \in [Tasks -> States]
  BY DEF IInv, Typed
<1>3. /\ \A u \in Tasks : pc[u] \in Holding => lock[ProcessOf[u]] = u
      /\ \A q \in Processes : \A i \in 1 .. Len(queue[q]) :
           /\ ProcessOf[queue[q][i]] = q /\ pc[queue[q][i]] = "queued"
           /\ \A j \in 1 .. Len(queue[q]) : queue[q][i] = queue[q][j] => i = j
  BY DEF IInv, LockOK
<1>4. CASE queue[p] = <<>>
  <2>1. lock' = [lock EXCEPT ![p] = NoTask] /\ queue' = queue
        /\ pc' = [u \in Tasks |-> IF u = t THEN then ELSE pc[u]]
    BY <1>1, <1>2, <1>4 DEF Release
  <2>2. pc' \in [Tasks -> States]
    BY <1>2, <2>1 DEF States
  <2>3. LockOK'
    <3>1. ASSUME NEW u \in Tasks, pc'[u] \in Holding PROVE lock'[ProcessOf[u]] = u
      <4>1. u # t /\ pc[u] \in Holding
        BY <2>1, <3>1 DEF Holding, Settled
      <4>2. lock[ProcessOf[u]] = u /\ lock[p] = t /\ ProcessOf[u] \in Processes
        BY <1>3, <4>1, ChainAssumption
      <4> QED
        BY <1>1, <1>2, <2>1, <4>1, <4>2
    <3>2. ASSUME NEW q \in Processes, NEW i \in 1 .. Len(queue[q]) PROVE pc'[queue[q][i]] = "queued"
      <4>1. queue[q][i] \in Tasks /\ pc[queue[q][i]] = "queued"
        BY <1>2, <1>3
      <4> QED
        BY <2>1, <4>1 DEF Holding
    <3> QED
      BY <1>3, <2>1, <3>1, <3>2 DEF LockOK
  <2> QED
    BY <1>1, <1>2, <2>1, <2>2, <2>3
<1>5. CASE queue[p] # <<>>
  <2> DEFINE h == Head(queue[p])
  <2>1. /\ h = queue[p][1] /\ 1 \in 1 .. Len(queue[p]) /\ h \in Tasks
        /\ Tail(queue[p]) \in Seq(Tasks) /\ Len(Tail(queue[p])) = Len(queue[p]) - 1
        /\ Len(queue[p]) \in Nat
        /\ \A i \in 1 .. Len(Tail(queue[p])) : Tail(queue[p])[i] = queue[p][i + 1]
    BY <1>1, <1>2, <1>5
  <2>2. pc[h] = "queued" /\ ProcessOf[h] = p /\ h # t
    BY <1>1, <1>3, <2>1 DEF Holding
  <2>3. /\ lock' = [lock EXCEPT ![p] = h]
        /\ queue' = [queue EXCEPT ![p] = Tail(queue[p])]
        /\ pc' = [u \in Tasks |-> IF u = t THEN then ELSE IF u = h THEN "locked" ELSE pc[u]]
    <3>1. /\ lock' = [lock EXCEPT ![p] = heir]
          /\ queue' = [queue EXCEPT ![p] = IF @ = <<>> THEN @ ELSE Tail(@)]
          /\ pc' = [u \in Tasks |-> CASE u = t -> then [] u = heir -> "locked" [] OTHER -> pc[u]]
      BY DEF Release
    <3>2. heir = h /\ h # t
      BY <1>5, <2>2
    <3>3. queue' = [queue EXCEPT ![p] = Tail(queue[p])]
      BY <1>1, <1>2, <1>5, <3>1
    <3> HIDE DEF h, heir
    <3> QED
      BY <3>1, <3>2, <3>3
  <2> HIDE DEF h
  <2>4. pc' \in [Tasks -> States] /\ queue' \in [Processes -> Seq(Tasks)]
        /\ lock' \in [Processes -> Tasks \cup {NoTask}]
    BY <1>2, <2>1, <2>3 DEF States, Holding
  <2>5. ASSUME NEW u \in Tasks, pc'[u] \in Holding PROVE lock'[ProcessOf[u]] = u
    <3>1. CASE u = h
      BY <1>1, <1>2, <2>2, <2>3, <3>1
    <3>2. CASE u # h
      <4>1. u # t /\ pc[u] \in Holding
        BY <2>3, <2>5, <3>2 DEF Holding, Settled
      <4>2. lock[ProcessOf[u]] = u /\ lock[p] = t /\ ProcessOf[u] \in Processes
        BY <1>3, <4>1, ChainAssumption
      <4> QED
        BY <1>1, <1>2, <2>3, <4>1, <4>2
    <3> QED
      BY <3>1, <3>2
  <2>6. ASSUME NEW q \in Processes, NEW i \in 1 .. Len(queue'[q])
        PROVE  /\ ProcessOf[queue'[q][i]] = q /\ pc'[queue'[q][i]] = "queued"
               /\ \A j \in 1 .. Len(queue'[q]) : queue'[q][i] = queue'[q][j] => i = j
    <3>1. CASE q = p
      <4>1. queue'[q] = Tail(queue[p])
        BY <1>2, <2>3, <3>1
      <4>2. i + 1 \in 1 .. Len(queue[p]) /\ queue'[q][i] = queue[p][i + 1]
        BY <2>1, <4>1
      <4>3. queue[p][i + 1] \in Tasks /\ queue[p][i + 1] # h /\ pc[queue[p][i + 1]] = "queued"
            /\ ProcessOf[queue[p][i + 1]] = p
        BY <1>1, <1>2, <1>3, <2>1, <4>2
      <4>4. pc'[queue[p][i + 1]] = "queued"
        BY <2>3, <4>3 DEF Holding
      <4>5. ASSUME NEW j \in 1 .. Len(queue'[q]), queue'[q][i] = queue'[q][j] PROVE i = j
        <5>1. j + 1 \in 1 .. Len(queue[p]) /\ queue'[q][j] = queue[p][j + 1]
          BY <2>1, <4>1
        <5>2. queue[p][i + 1] = queue[p][j + 1]
          BY <4>2, <4>5, <5>1
        <5>3. \A k \in 1 .. Len(queue[p]), l \in 1 .. Len(queue[p]) :
                queue[p][k] = queue[p][l] => k = l
          BY <1>1, <1>3
        <5> HIDE DEF p
        <5>4. i + 1 = j + 1
          BY <4>2, <5>1, <5>2, <5>3
        <5> QED
          BY <2>1, <4>1, <5>4
      <4> QED
        BY <3>1, <4>2, <4>3, <4>4, <4>5
    <3>2. CASE q # p
      <4>1. queue'[q] = queue[q]
        BY <1>2, <2>3, <3>2
      <4>2. queue[q][i] \in Tasks /\ ProcessOf[queue[q][i]] = q /\ pc[queue[q][i]] = "queued"
        BY <1>2, <1>3, <4>1
      <4>3. pc'[queue[q][i]] = "queued"
        BY <2>2, <2>3, <3>2, <4>2 DEF Holding
      <4> QED
        BY <1>3, <4>1, <4>2, <4>3
    <3> QED
      BY <3>1, <3>2
  <2>7. LockOK'
    BY <2>5, <2>6 DEF LockOK
  <2> QED
    BY <2>1, <2>2, <2>3, <2>4, <2>7
<1> QED
  BY <1>4, <1>5

-----------------------------------------------------------------------------
(* A step of one task.                                                       *)

\* Of the other tasks one at most gets the lock, and nothing new is in the pool that
\* could take the nonce of one.
OnlyOf(t) ==
  /\ blocks' = blocks
  /\ \A x \in pool' \ pool : x.task = t
  /\ \A u \in Tasks \ {t} :
       /\ pc'[u] = pc[u] \/ (pc[u] = "queued" /\ pc'[u] = "locked")
       /\ pos'[u] = pos[u] /\ nonce'[u] = nonce[u]
       /\ result'[u] = result[u] /\ report'[u] = report[u]
       /\ pool' \subseteq pool \/ (pc[u] = "signing" => ProcessOf[u] # ProcessOf[t])

LEMMA StepInv ==
  ASSUME IInv, NEW t \in Tasks, OnlyOf(t), Typed', LockOK', RaceOK(t)', TaskOK(t)'
  PROVE  IInv'
<1>1. Included' = Included /\ Account' = Account
  BY DEF OnlyOf, Included, Account
<1>2. ASSUME NEW u \in Tasks \ {t} PROVE RaceOK(u)' /\ TaskOK(u)'
  <2>1. /\ pc'[u] = pc[u] \/ (pc[u] = "queued" /\ pc'[u] = "locked")
        /\ pos'[u] = pos[u] /\ nonce'[u] = nonce[u]
        /\ result'[u] = result[u] /\ report'[u] = report[u]
    BY DEF OnlyOf
  <2>2. RaceOK(u) /\ PosOK(u) /\ FlightOK(u) /\ ResultOK(u)
    BY DEF IInv, TaskOK
  <2>3. RaceOK(u)'
    <3> SUFFICES ASSUME pc[u] = "signing" PROVE RaceOK(u)'
      BY <2>1 DEF RaceOK
    <3>1. nonce[u] < Account => ProcessOf[blocks[nonce[u] + 1].task] # ProcessOf[u]
      BY <2>2 DEF RaceOK
    <3>2. ASSUME NEW x \in pool', x.nonce = nonce[u] PROVE ProcessOf[x.task] # ProcessOf[u]
      <4>1. CASE x \in pool
        BY <2>2, <3>2, <4>1 DEF RaceOK
      <4>2. CASE x \notin pool
        BY <4>2 DEF OnlyOf
      <4> QED
        BY <4>1, <4>2
    <3> QED
      BY <1>1, <2>1, <3>1, <3>2 DEF RaceOK, OnlyOf
  <2>4. PosOK(u)'
    BY <2>1, <2>2 DEF PosOK, Holding
  <2>5. FlightOK(u)'
    <3>1. Tx(u)' = Tx(u) /\ ChunkEnd(u, pos[u])' = ChunkEnd(u, pos[u])
      BY <2>1 DEF Tx, ChunkEnd
    <3>2. \A x \in pool' : x.task = u => x \in pool
      BY DEF OnlyOf
    <3> QED
      BY <2>1, <2>2, <3>1, <3>2 DEF FlightOK, ChunkEnd
  <2>6. ResultOK(u)'
    <3>1. Known(u)' = Known(u) /\ (Heard(u)' = Heard(u)) /\ Mine(u)' = Mine(u)
      BY <1>1, <2>1 DEF Known, Heard, Mine, Gained, ChunkEnd
    <3> QED
      BY <2>1, <2>2, <3>1 DEF ResultOK, Past
  <2> QED
    BY <2>3, <2>4, <2>5, <2>6 DEF TaskOK
<1> QED
  BY <1>2 DEF IInv

\* A task that is not told anything more knows what it knew.
LEMMA TaskKept ==
  ASSUME IInv, NEW t \in Tasks, pc[t] \notin {"watching", "lost"},
         pc'[t] # "watching", PosOK(t)', pos'[t] = pos[t], result'[t] = result[t],
         UNCHANGED chainVars
  PROVE  TaskOK(t)'
<1> USE DEF chainVars
<1>1. FlightOK(t) /\ ResultOK(t)
  BY DEF IInv, TaskOK
<1>2. FlightOK(t)'
  BY <1>1 DEF FlightOK
<1>3. Known(t)' = Known(t) /\ Mine(t)' = Mine(t) /\ Heard(t)
  BY DEF Known, Mine, Included, Heard
<1> QED
  BY <1>1, <1>2, <1>3 DEF TaskOK, ResultOK, Past

\* The lock stays where it is.
LEMMA MoveLock ==
  ASSUME IInv, NEW t \in Tasks, pc[t] # "queued", NEW to \in States,
         to \in Holding => pc[t] \in Holding,
         pc' = [pc EXCEPT ![t] = to], UNCHANGED lockVars
  PROVE  LockOK' /\ pc' \in [Tasks -> States] /\ pc'[t] = to
<1> USE DEF lockVars
<1>1. pc \in [Tasks -> States] /\ queue \in [Processes -> Seq(Tasks)]
  BY DEF IInv, Typed
<1>2. pc' \in [Tasks -> States] /\ pc'[t] = to /\ \A u \in Tasks \ {t} : pc'[u] = pc[u]
  BY <1>1
<1>3. \A u \in Tasks : pc'[u] \in Holding => pc[u] \in Holding
  BY <1>2
<1>4. ASSUME NEW p \in Processes, NEW i \in 1 .. Len(queue[p]) PROVE pc'[queue[p][i]] = "queued"
  <2>1. queue[p][i] \in Tasks /\ pc[queue[p][i]] = "queued"
    BY <1>1 DEF IInv, LockOK
  <2> QED
    BY <1>2, <2>1
<1> QED
  BY <1>2, <1>3, <1>4 DEF IInv, LockOK

-----------------------------------------------------------------------------
(* The client's steps.                                                       *)

LEMMA CannotConnectInv == ASSUME IInv, NEW t \in Tasks, CannotConnect(t) PROVE IInv'
<1> USE DEF lockVars, chainVars
<1>1. LockOK' /\ pc' \in [Tasks -> States] /\ pc'[t] = "failed"
  BY MoveLock DEF CannotConnect, States, Settled, Holding
<1>2. Typed'
  BY <1>1 DEF IInv, Typed, CannotConnect
<1>3. OnlyOf(t)
  BY DEF OnlyOf, CannotConnect, IInv, Typed
<1>4. PosOK(t)'
  BY <1>1 DEF PosOK, IInv, TaskOK, CannotConnect, Holding
<1>5. TaskOK(t)' /\ RaceOK(t)'
  BY <1>1, <1>4, TaskKept DEF CannotConnect, RaceOK
<1> QED
  BY <1>1, <1>2, <1>3, <1>5, StepInv

LEMMA NextChunkInv == ASSUME IInv, NEW t \in Tasks, NextChunk(t) PROVE IInv'
<1> USE DEF lockVars, chainVars
<1> DEFINE p == ProcessOf[t]
<1>1. /\ pc[t] \in {"idle", "next"} /\ UNCHANGED <<pos, nonce, result, report, chainVars>>
      /\ p \in Processes /\ NoTask \notin Tasks
  BY ChainAssumption DEF NextChunk
<1>2. pc \in [Tasks -> States] /\ pos[t] \in Nat /\ Size[t] \in Nat
      /\ lock \in [Processes -> Tasks \cup {NoTask}] /\ queue \in [Processes -> Seq(Tasks)]
  BY ChainAssumption DEF IInv, Typed
<1>3. ASSUME NEW to \in {"done", "locked", "queued"}, pc' = [pc EXCEPT ![t] = to],
             lock' \in [Processes -> Tasks \cup {NoTask}], queue' \in [Processes -> Seq(Tasks)],
             LockOK', to = "done" => pos[t] >= Size[t], to # "done" => pos[t] < Size[t]
      PROVE  IInv'
  <2>1. pc' \in [Tasks -> States] /\ pc'[t] = to
    BY <1>2, <1>3 DEF States, Holding, Settled
  <2>2. Typed'
    BY <1>1, <1>3, <2>1 DEF IInv, Typed
  <2>3. OnlyOf(t)
    BY <1>1, <1>2, <1>3 DEF OnlyOf
  <2>4. PosOK(t)'
    BY <1>1, <1>3, <2>1 DEF PosOK, IInv, TaskOK, Holding
  <2>5. TaskOK(t)' /\ RaceOK(t)'
    BY <1>1, <2>1, <2>4, TaskKept DEF RaceOK
  <2> QED
    BY <1>3, <2>2, <2>3, <2>5, StepInv
<1>4. CASE pos[t] >= Size[t] /\ pc' = [pc EXCEPT ![t] = "done"] /\ UNCHANGED lockVars
  <2>1. LockOK'
    BY <1>1, <1>4, MoveLock DEF States, Settled, Holding
  <2> QED
    BY <1>2, <1>3, <1>4, <2>1
<1>5. CASE /\ pos[t] < Size[t] /\ lock[p] = NoTask /\ lock' = [lock EXCEPT ![p] = t]
           /\ pc' = [pc EXCEPT ![t] = "locked"] /\ UNCHANGED queue
  <2>1. ASSUME NEW u \in Tasks, pc'[u] \in Holding PROVE lock'[ProcessOf[u]] = u
    <3>1. CASE u = t
      BY <1>1, <1>2, <1>5, <3>1
    <3>2. CASE u # t
      <4>1. lock[ProcessOf[u]] = u /\ ProcessOf[u] # p
        BY <1>1, <1>2, <1>5, <2>1, <3>2 DEF IInv, LockOK
      <4>2. ProcessOf[u] \in Processes
        BY ChainAssumption
      <4> QED
        BY <1>2, <1>5, <4>1, <4>2
    <3> QED
      BY <3>1, <3>2
  <2>2. ASSUME NEW q \in Processes, NEW i \in 1 .. Len(queue[q]) PROVE pc'[queue[q][i]] = "queued"
    <3>1. queue[q][i] \in Tasks /\ pc[queue[q][i]] = "queued"
      BY <1>2 DEF IInv, LockOK
    <3> QED
      BY <1>1, <1>2, <1>5, <3>1
  <2>3. LockOK'
    BY <1>5, <2>1, <2>2 DEF IInv, LockOK
  <2>4. lock' \in [Processes -> Tasks \cup {NoTask}]
    BY <1>2, <1>5
  <2> QED
    BY <1>2, <1>3, <1>5, <2>3, <2>4
<1>6. CASE /\ pos[t] < Size[t] /\ queue' = [queue EXCEPT ![p] = Append(@, t)]
           /\ pc' = [pc EXCEPT ![t] = "queued"] /\ UNCHANGED lock
  <2>1. queue' \in [Processes -> Seq(Tasks)]
    BY <1>1, <1>2, <1>6
  <2>2. \A u \in Tasks : pc'[u] \in Holding => lock'[ProcessOf[u]] = u
    BY <1>2, <1>6 DEF IInv, LockOK, Holding
  <2>3. ASSUME NEW q \in Processes, NEW i \in 1 .. Len(queue[q])
        PROVE  queue[q][i] \in Tasks /\ pc'[queue[q][i]] = "queued" /\ queue[q][i] # t
    <3>1. queue[q][i] \in Tasks /\ pc[queue[q][i]] = "queued"
      BY <1>2 DEF IInv, LockOK
    <3> QED
      BY <1>1, <1>2, <1>6, <3>1
  <2>4. /\ queue'[p] = Append(queue[p], t) /\ Len(queue'[p]) = Len(queue[p]) + 1
        /\ Len(queue[p]) \in Nat /\ queue'[p][Len(queue[p]) + 1] = t
        /\ \A i \in 1 .. Len(queue[p]) : queue'[p][i] = queue[p][i]
        /\ \A q \in Processes \ {p} : queue'[q] = queue[q]
    BY <1>1, <1>2, <1>6
  <2>5. ASSUME NEW q \in Processes, NEW i \in 1 .. Len(queue'[q])
        PROVE  /\ ProcessOf[queue'[q][i]] = q /\ pc'[queue'[q][i]] = "queued"
               /\ \A j \in 1 .. Len(queue'[q]) : queue'[q][i] = queue'[q][j] => i = j
    <3>1. CASE q # p
      BY <2>3, <2>4, <3>1 DEF IInv, LockOK
    <3>2. CASE q = p
      <4>1. pc'[t] = "queued"
        BY <1>2, <1>6
      <4>2. \A j \in 1 .. Len(queue'[p]) : j \in 1 .. Len(queue[p]) \/ j = Len(queue[p]) + 1
        BY <2>4
      <4>3. \A k \in 1 .. Len(queue[p]) : ProcessOf[queue[p][k]] = p
        BY <1>1 DEF IInv, LockOK
      <4>4. \A k \in 1 .. Len(queue[p]), l \in 1 .. Len(queue[p]) :
              queue[p][k] = queue[p][l] => k = l
        BY <1>1 DEF IInv, LockOK
      <4>5. /\ ProcessOf[queue'[p][i]] = p /\ pc'[queue'[p][i]] = "queued"
        BY <1>1, <2>3, <2>4, <3>2, <4>1, <4>2, <4>3
      <4>6. ASSUME NEW j \in 1 .. Len(queue'[p]), queue'[p][i] = queue'[p][j] PROVE i = j
        BY <1>1, <2>3, <2>4, <3>2, <4>2, <4>4, <4>6
      <4> QED
        BY <3>2, <4>5, <4>6
    <3> QED
      BY <3>1, <3>2
  <2>6. LockOK'
    BY <2>2, <2>5 DEF LockOK
  <2> QED
    BY <1>2, <1>3, <1>6, <2>1, <2>6
<1> QED
  BY <1>4, <1>5, <1>6 DEF NextChunk

\* The nonce the chain gives is neither in a block nor in the pool.
LEMMA ReadNonceInv == ASSUME IInv, NEW t \in Tasks, ReadNonce(t) PROVE IInv'
<1> USE DEF lockVars, chainVars
<1>1. LockOK' /\ pc' \in [Tasks -> States] /\ pc'[t] = "signing"
  BY MoveLock DEF ReadNonce, States, Holding
<1>2. PICK n \in Account..(Account + Cardinality(pool)) :
        IsNextIndex(n) /\ nonce' = [nonce EXCEPT ![t] = n]
  BY DEF ReadNonce
<1>3. n \in Nat
  <2>1. Account \in Nat /\ Cardinality(pool) \in Nat
    BY FS_CardinalityType DEF IInv, Typed, Account
  <2> QED
    BY <2>1
<1>4. nonce \in [Tasks -> Nat] /\ nonce'[t] = n /\ pc \in [Tasks -> States]
  BY <1>2 DEF IInv, Typed
<1>5. Typed'
  BY <1>1, <1>2, <1>3 DEF IInv, Typed, ReadNonce
<1>6. OnlyOf(t)
  BY <1>2, <1>4 DEF OnlyOf, ReadNonce
<1>7. PosOK(t)'
  BY <1>1 DEF PosOK, IInv, TaskOK, ReadNonce, Holding
<1>8. TaskOK(t)'
  BY <1>1, <1>7, TaskKept DEF ReadNonce
<1>9. RaceOK(t)'
  <2>1. ~(n < Account) /\ \A x \in pool : x.nonce # n
    <3>1. Account \in Nat
      BY DEF IInv, Typed, Account
    <3> QED
      BY <1>2, <1>3, <3>1 DEF IsNextIndex, Taken
  <2> QED
    BY <1>4, <2>1 DEF RaceOK, ReadNonce, Account
<1> QED
  BY <1>1, <1>5, <1>6, <1>8, <1>9, StepInv

\* A chunk that has not been submitted ends the call.
LEMMA GiveUpInv ==
  ASSUME IInv, NEW t \in Tasks, pc[t] \in {"locked", "signing"}, Release(t, "failed"),
         UNCHANGED <<pos, nonce, result, report, chainVars>>
  PROVE  IInv'
<1> USE DEF chainVars
<1>1. /\ lock' \in [Processes -> Tasks \cup {NoTask}] /\ queue' \in [Processes -> Seq(Tasks)]
      /\ pc' \in [Tasks -> States] /\ LockOK' /\ pc'[t] = "failed"
      /\ \A u \in Tasks \ {t} : pc'[u] = pc[u] \/ (pc[u] = "queued" /\ pc'[u] = "locked")
  BY ReleaseEffect DEF Holding, Settled
<1>2. Typed'
  BY <1>1 DEF IInv, Typed
<1>3. OnlyOf(t)
  BY <1>1 DEF OnlyOf
<1>4. PosOK(t)'
  BY <1>1 DEF PosOK, IInv, TaskOK, Holding
<1>5. TaskOK(t)' /\ RaceOK(t)'
  BY <1>1, <1>4, TaskKept DEF RaceOK
<1> QED
  BY <1>1, <1>2, <1>3, <1>5, StepInv

\* What is submitted under the lock disturbs no task of the same process.
LEMMA SendAcceptedInv == ASSUME IInv, NEW t \in Tasks, SendAccepted(t) PROVE IInv'
<1>1. /\ pc[t] = "signing" /\ pool' = pool \cup {Tx(t)}
      /\ report' = [report EXCEPT ![t] = NoReport]
      /\ UNCHANGED <<pos, nonce, result, blocks>>
  BY DEF SendAccepted
<1>2. /\ lock' \in [Processes -> Tasks \cup {NoTask}] /\ queue' \in [Processes -> Seq(Tasks)]
      /\ pc' \in [Tasks -> States] /\ LockOK' /\ pc'[t] \in {"watching", "lost"}
      /\ \A u \in Tasks \ {t} : pc'[u] = pc[u] \/ (pc[u] = "queued" /\ pc'[u] = "locked")
  <2>1. CASE pc' = [pc EXCEPT ![t] = "watching"] /\ UNCHANGED lockVars
    <3>1. LockOK' /\ pc' \in [Tasks -> States] /\ pc'[t] = "watching"
      BY <1>1, <2>1, MoveLock DEF States, Holding
    <3> QED
      BY <2>1, <3>1 DEF IInv, Typed, lockVars
  <2>2. CASE Release(t, "lost")
    BY <1>1, <2>2, ReleaseEffect DEF Holding, Settled
  <2> QED
    BY <2>1, <2>2 DEF SendAccepted
<1>3. Tx(t) \in [nonce : Nat, task : Tasks, from : Nat] /\ Tx(t).task = t
  BY DEF IInv, Typed, Tx
<1>4. Typed'
  <2>1. IsFiniteSet(pool')
    BY <1>1, FS_AddElement DEF IInv, Typed
  <2>2. report' \in [Tasks -> Reports] /\ report'[t] = NoReport
    BY <1>1 DEF IInv, Typed, Reports
  <2> QED
    BY <1>1, <1>2, <1>3, <2>1, <2>2 DEF IInv, Typed
<1>5. OnlyOf(t)
  <2>1. ASSUME NEW u \in Tasks \ {t}, pc[u] = "signing" PROVE ProcessOf[u] # ProcessOf[t]
    BY <1>1, <2>1 DEF IInv, LockOK, Holding
  <2>2. \A u \in Tasks \ {t} : report'[u] = report[u]
    BY <1>1 DEF IInv, Typed
  <2> QED
    BY <1>1, <1>2, <1>3, <2>1, <2>2 DEF OnlyOf
<1>6. TaskOK(t)'
  <2>1. PosOK(t) /\ FlightOK(t) /\ ResultOK(t)
    BY DEF IInv, TaskOK
  <2>2. PosOK(t)'
    BY <1>1, <1>2, <2>1 DEF PosOK, Holding
  <2>3. report'[t] = NoReport /\ NoReport.kind = "none" /\ Tx(t)' = Tx(t)
    BY <1>1 DEF IInv, Typed, NoReport, Tx
  <2>4. FlightOK(t)'
    <3>1. \A x \in pool : x.task # t
      BY <1>1, <2>1 DEF FlightOK
    <3> QED
      BY <1>1, <1>2, <2>3, <3>1 DEF FlightOK
  <2>5. ResultOK(t)'
    <3>1. Known(t)' = Known(t) /\ Mine(t)' = Mine(t) /\ Heard(t)
      BY <1>1, <1>2, <2>3 DEF Known, Mine, Included, Heard
    <3> QED
      BY <1>1, <2>1, <3>1 DEF ResultOK, Past
  <2> QED
    BY <2>2, <2>4, <2>5 DEF TaskOK
<1>7. RaceOK(t)'
  BY <1>2 DEF RaceOK
<1> QED
  BY <1>2, <1>4, <1>5, <1>6, <1>7, StepInv

LEMMA FailedInv == ASSUME IInv, NEW t \in Tasks, Failed(t) PROVE IInv'
<1> USE DEF chainVars
<1>1. /\ lock' \in [Processes -> Tasks \cup {NoTask}] /\ queue' \in [Processes -> Seq(Tasks)]
      /\ pc' \in [Tasks -> States] /\ LockOK' /\ pc'[t] = "failed"
      /\ \A u \in Tasks \ {t} : pc'[u] = pc[u] \/ (pc[u] = "queued" /\ pc'[u] = "locked")
  BY ReleaseEffect DEF Failed, Holding, Settled
<1>2. Typed'
  BY <1>1 DEF IInv, Typed, Failed
<1>3. OnlyOf(t)
  BY <1>1 DEF OnlyOf, Failed
<1>4. TaskOK(t)'
  <2>1. PosOK(t) /\ FlightOK(t) /\ ResultOK(t)
    BY DEF IInv, TaskOK
  <2>2. PosOK(t)'
    BY <1>1, <2>1 DEF PosOK, Failed, Holding
  <2>3. report[t] \notin {NoReport, Silence}
    BY DEF Failed, NoReport, Silence
  <2>4. FlightOK(t)'
    BY <1>1, <2>1, <2>3 DEF FlightOK, Failed
  <2>5. ResultOK(t)'
    <3>1. Known(t)' = Known(t) /\ Mine(t)' = Mine(t) /\ Heard(t)
      BY <1>1, <2>3 DEF Known, Mine, Included, Heard, Failed
    <3> QED
      BY <2>1, <3>1 DEF ResultOK, Past, Failed
  <2> QED
    BY <2>2, <2>4, <2>5 DEF TaskOK
<1>5. RaceOK(t)'
  BY <1>1 DEF RaceOK
<1> QED
  BY <1>1, <1>2, <1>3, <1>4, <1>5, StepInv

\* The results of a chunk follow those of the chunks before it.
LEMMA Gains ==
  ASSUME IInv, NEW t \in Tasks, pc[t] = "watching", report[t].kind = "success"
  PROVE  /\ report[t].got \in Nat /\ pos[t] \in Nat /\ Size[t] \in Nat /\ pos[t] < Size[t]
         /\ pos[t] + report[t].got <= ChunkEnd(t, pos[t])
         /\ result[t] \in Seq(Extrinsics(t)) /\ Gained(t) \in Seq(Extrinsics(t))
         /\ Len(Gained(t)) = report[t].got
<1>1. /\ pos[t] \in Nat /\ Size[t] \in Nat /\ pos[t] < Size[t] /\ result[t] \in Seq(Extrinsics(t))
  BY ChainAssumption DEF IInv, Typed, TaskOK, PosOK, Holding
<1>2. report[t] \in Reports /\ report[t].got <= ChunkEnd(t, pos[t]) - pos[t]
  BY DEF IInv, Typed, TaskOK, FlightOK
<1>3. report[t].got \in Nat
  BY <1>2 DEF Reports, NoReport, Silence, Failure
<1>4. ChunkEnd(t, pos[t]) \in Nat /\ ChunkEnd(t, pos[t]) <= Size[t]
  BY <1>1, ChainAssumption DEF ChunkEnd
<1>5. \A j \in 1 .. report[t].got : /\ <<t, pos[t] + j>> \in Extrinsics(t)
                                    /\ <<t, ChunkEnd(t, pos[t])>> \in Extrinsics(t)
  BY <1>1, <1>2, <1>3, <1>4 DEF Extrinsics
<1>6. Gained(t) \in Seq(Extrinsics(t)) /\ Len(Gained(t)) = report[t].got
  <2> DEFINE Result(j) == <<t, IF t \in Cancelling THEN ChunkEnd(t, pos[t]) ELSE pos[t] + j>>
  <2>1. \A j \in 1 .. report[t].got : Result(j) \in Extrinsics(t)
    BY <1>5
  <2>2. Gained(t) = [j \in 1 .. report[t].got |-> Result(j)]
    BY DEF Gained
  <2> HIDE DEF Result
  <2> QED
    BY <1>3, <2>1, <2>2
<1> QED
  BY <1>1, <1>2, <1>3, <1>4, <1>6

LEMMA SucceededInv == ASSUME IInv, NEW t \in Tasks, Succeeded(t) PROVE IInv'
<1> USE DEF chainVars
<1>1. /\ lock' \in [Processes -> Tasks \cup {NoTask}] /\ queue' \in [Processes -> Seq(Tasks)]
      /\ pc' \in [Tasks -> States] /\ LockOK' /\ pc'[t] = "next"
      /\ \A u \in Tasks \ {t} : pc'[u] = pc[u] \/ (pc[u] = "queued" /\ pc'[u] = "locked")
  BY ReleaseEffect DEF Succeeded, Holding
<1>2. /\ report[t].got \in Nat /\ pos[t] \in Nat /\ Size[t] \in Nat /\ pos[t] < Size[t]
      /\ result[t] \in Seq(Extrinsics(t)) /\ Gained(t) \in Seq(Extrinsics(t))
      /\ Len(Gained(t)) = report[t].got
  BY Gains DEF Succeeded
<1>3. BATCH_SIZE \in Nat \ {0}
  BY ChainAssumption
<1>4. /\ pos'[t] = pos[t] + BATCH_SIZE /\ result'[t] = result[t] \o Gained(t)
      /\ pos' \in [Tasks -> Nat] /\ result' = [u \in Tasks |-> result'[u]]
      /\ \A u \in Tasks \ {t} : pos'[u] = pos[u] /\ result'[u] = result[u]
  <2>1. /\ pos' = [pos EXCEPT ![t] = pos[t] + BATCH_SIZE] /\ pos \in [Tasks -> Nat]
        /\ result' = [result EXCEPT ![t] = result[t] \o Gained(t)]
        /\ result = [u \in Tasks |-> result[u]]
    BY DEF Succeeded, IInv, Typed
  <2>2. pos[t] + BATCH_SIZE \in Nat
    BY <1>2, <1>3
  <2>3. pos' \in [Tasks -> Nat] /\ pos'[t] = pos[t] + BATCH_SIZE
        /\ \A u \in Tasks \ {t} : pos'[u] = pos[u]
    BY <2>1, <2>2
  <2> HIDE DEF Gained
  <2>4. /\ result'[t] = result[t] \o Gained(t) /\ result' = [u \in Tasks |-> result'[u]]
        /\ \A u \in Tasks \ {t} : result'[u] = result[u]
    BY <2>1
  <2> QED
    BY <2>3, <2>4
<1>5. Typed'
  <2>1. \A u \in Tasks : result'[u] \in Seq(Extrinsics(u))
    <3>1. result[t] \o Gained(t) \in Seq(Extrinsics(t))
      BY <1>2
    <3>2. \A u \in Tasks : result[u] \in Seq(Extrinsics(u))
      BY DEF IInv, Typed
    <3> QED
      BY <1>4, <3>1, <3>2
  <2> QED
    BY <1>1, <1>4, <2>1 DEF IInv, Typed, Succeeded, Extrinsics
<1>6. OnlyOf(t)
  BY <1>1, <1>4 DEF OnlyOf, Succeeded
<1>7. TaskOK(t)'
  <2>1. PosOK(t) /\ FlightOK(t) /\ ResultOK(t)
    BY DEF IInv, TaskOK
  <2>2. PosOK(t)'
    BY <1>1, <1>2, <1>3, <1>4 DEF PosOK, Holding
  <2>3. report[t] \notin {NoReport, Silence}
    BY DEF Succeeded, NoReport, Silence
  <2>4. FlightOK(t)'
    BY <1>1, <2>1, <2>3 DEF FlightOK, Succeeded
  <2>5. Heard(t) /\ Mine(t)' = Mine(t) /\ Known(t)' = Known(t)
    BY <1>1, <1>4, <2>3 DEF Known, Mine, Included, Heard, Succeeded
  <2>6. ASSUME t \in AllTasks
        PROVE  /\ Len(result'[t]) = Past(t)'
               /\ t \notin Cancelling => result'[t] = [j \in 1 .. Past(t)' |-> <<t, j>>]
    <3>1. /\ Len(result[t]) = pos[t]
          /\ t \notin Cancelling => result[t] = [j \in 1 .. pos[t] |-> <<t, j>>]
      BY <1>2, <2>1, <2>6 DEF ResultOK, Past
    <3>2. report[t].got = ChunkEnd(t, pos[t]) - pos[t]
      BY <2>1, <2>6 DEF FlightOK, Succeeded
    <3>3. ChunkEnd(t, pos[t]) = Past(t)'
      BY <1>4 DEF ChunkEnd, Past
    <3>4. ChunkEnd(t, pos[t]) \in Nat /\ pos[t] <= ChunkEnd(t, pos[t])
      BY <1>2, <1>3 DEF ChunkEnd
    <3> DEFINE r == result[t] \o Gained(t)
    <3>5. Len(result[t]) = pos[t] /\ Len(r) = ChunkEnd(t, pos[t])
      <4>1. Len(r) = Len(result[t]) + Len(Gained(t))
        <5> DEFINE g == Gained(t)
                   S == Extrinsics(t)
        <5>1. result[t] \in Seq(S) /\ g \in Seq(S)
          BY <1>2
        <5> HIDE DEF g, S
        <5>2. Len(result[t] \o g) = Len(result[t]) + Len(g)
          BY <5>1
        <5> QED
          BY <5>2 DEF g
      <4> HIDE DEF r
      <4> QED
        BY <1>2, <3>1, <3>2, <3>4, <4>1
    <3>6. DOMAIN r = 1 .. ChunkEnd(t, pos[t]) /\ r = [j \in DOMAIN r |-> r[j]]
      BY <1>2, <3>5
    <3>7. ASSUME t \notin Cancelling, NEW j \in 1 .. ChunkEnd(t, pos[t]) PROVE r[j] = <<t, j>>
      <4>1. CASE j <= pos[t]
        <5>1. j \in 1 .. pos[t]
          BY <1>2, <3>4, <4>1
        <5>2. r[j] = result[t][j]
          BY <1>2, <3>5, <5>1
        <5>3. result[t][j] = <<t, j>>
          BY <3>1, <3>7, <5>1
        <5> QED
          BY <5>2, <5>3
      <4>2. CASE j > pos[t]
        <5>1. j - pos[t] \in 1 .. report[t].got
          BY <1>2, <3>2, <3>4, <4>2
        <5>2. r[j] = Gained(t)[j - pos[t]]
          BY <1>2, <3>2, <3>4, <3>5, <4>2
        <5>3. Gained(t)[j - pos[t]] = <<t, pos[t] + (j - pos[t])>>
          BY <3>7, <5>1 DEF Gained
        <5> QED
          BY <1>2, <3>4, <5>2, <5>3
      <4>3. j <= pos[t] \/ j > pos[t]
        BY <1>2, <3>4
      <4> QED
        BY <4>1, <4>2, <4>3
    <3> HIDE DEF r
    <3>8. t \notin Cancelling => r = [j \in 1 .. ChunkEnd(t, pos[t]) |-> <<t, j>>]
      BY <3>6, <3>7
    <3> QED
      BY <1>4, <3>3, <3>5, <3>8 DEF r
  <2> QED
    BY <2>1, <2>2, <2>4, <2>5, <2>6 DEF TaskOK, ResultOK, Past
<1>8. RaceOK(t)'
  BY <1>1 DEF RaceOK
<1> QED
  BY <1>1, <1>5, <1>6, <1>7, <1>8, StepInv

-----------------------------------------------------------------------------
(* The chain's steps.                                                        *)

\* A subscription that brings nothing any more.
LEMMA DisconnectInv == ASSUME IInv, NEW t \in Tasks, Disconnect(t) PROVE IInv'
<1> USE DEF lockVars, chainVars
<1>1. /\ pc[t] = "watching" /\ UNCHANGED <<lockVars, pc, pos, nonce, result, chainVars>>
      /\ report' \in [Tasks -> Reports] /\ report'[t] = Silence /\ Silence.kind = "silent"
      /\ \A u \in Tasks \ {t} : report'[u] = report[u]
  BY DEF Disconnect, IInv, Typed, Reports, Silence
<1>2. Typed' /\ LockOK'
  BY <1>1 DEF IInv, Typed, LockOK
<1>3. OnlyOf(t)
  BY <1>1 DEF OnlyOf
<1>4. TaskOK(t)'
  BY <1>1 DEF IInv, TaskOK, PosOK, FlightOK, ResultOK, Past, Heard, Tx
<1> QED
  BY <1>1, <1>2, <1>3, <1>4, StepInv DEF RaceOK

LEMMA DropInv == ASSUME IInv, NEW x \in pool, Drop(x) PROVE IInv'
<1> USE DEF lockVars
<1>1. /\ UNCHANGED <<lockVars, pc, pos, nonce, result, blocks>> /\ pool' = pool \ {x}
      /\ report' = [t \in Tasks |-> IF Watches(t, x) THEN Silence ELSE report[t]]
  BY DEF Drop
<1>2. LockOK'
  BY <1>1 DEF IInv, LockOK
<1>3. Typed'
  <2>1. IsFiniteSet(pool')
    BY <1>1, FS_RemoveElement DEF IInv, Typed
  <2> QED
    BY <1>1, <2>1 DEF IInv, Typed, Reports
<1>4. ASSUME NEW t \in Tasks PROVE RaceOK(t)' /\ TaskOK(t)'
  <2>1. RaceOK(t) /\ PosOK(t) /\ FlightOK(t) /\ ResultOK(t)
    BY DEF IInv, TaskOK
  <2>2. RaceOK(t)' /\ PosOK(t)'
    BY <1>1, <2>1 DEF RaceOK, PosOK, Account
  <2>3. Tx(t)' = Tx(t) /\ ChunkEnd(t, pos[t])' = ChunkEnd(t, pos[t]) /\ Mine(t)' = Mine(t)
    BY <1>1 DEF Tx, ChunkEnd, Mine, Included
  <2>4. CASE Watches(t, x)
    <3>1. pc[t] = "watching" /\ report'[t] = Silence /\ Silence.kind = "silent"
      BY <1>1, <2>4 DEF Watches, Silence
    <3> QED
      BY <1>1, <2>1, <2>2, <2>3, <3>1 DEF TaskOK, FlightOK, ResultOK, Past, Heard
  <2>5. CASE ~Watches(t, x)
    <3>1. report'[t] = report[t]
      BY <1>1, <2>5
    <3>2. FlightOK(t)'
      BY <1>1, <2>1, <2>3, <3>1 DEF FlightOK, ChunkEnd
    <3>3. Known(t)' = Known(t) /\ (Heard(t)' = Heard(t))
      BY <1>1, <3>1 DEF Known, Heard, Gained, ChunkEnd
    <3>4. ResultOK(t)'
      BY <1>1, <2>1, <2>3, <3>3 DEF ResultOK, Past
    <3> QED
      BY <2>2, <3>2, <3>4 DEF TaskOK
  <2> QED
    BY <2>2, <2>4, <2>5
<1> QED
  BY <1>2, <1>3, <1>4 DEF IInv

\* A block brings a task the outcome of the transaction it waits for, and takes a
\* nonce that nobody but its holder could sign with.
LEMMA IncludeInv == ASSUME IInv, NEW x \in pool, Include(x) PROVE IInv'
<1> USE DEF lockVars
<1>1. PICK e \in Effects(x) :
        /\ blocks' = Append(blocks, [task |-> x.task, from |-> x.from, got |-> e.got])
        /\ report' = [t \in Tasks |->
             IF Watches(t, x) /\ report[t] = NoReport THEN e ELSE report[t]]
  BY DEF Include
<1>2. /\ UNCHANGED <<lockVars, pc, pos, nonce, result>> /\ pool' = pool \ {x}
      /\ x.nonce = Account
  BY DEF Include
<1> DEFINE b == [task |-> x.task, from |-> x.from, got |-> e.got]
<1>3. x \in [nonce : Nat, task : Tasks, from : Nat]
      /\ blocks \in Seq([task : Tasks, from : Nat, got : Nat])
  BY DEF IInv, Typed
<1>4. /\ ChunkEnd(x.task, x.from) \in Nat
      /\ \/ e = [kind |-> "success", got |-> e.got] /\ e.got \in 0 .. ChunkEnd(x.task, x.from) - x.from
         \/ e = Failure
      /\ x.task \in AllTasks /\ e # Failure => e.got = ChunkEnd(x.task, x.from) - x.from
  <2>1. ChunkEnd(x.task, x.from) \in Nat /\ x.from \in Nat
    BY <1>3, ChainAssumption DEF ChunkEnd
  <2>2. x.from <= ChunkEnd(x.task, x.from)
    <3>1. x.from = pos[x.task] /\ pos[x.task] < Size[x.task]
      BY <1>3 DEF IInv, TaskOK, FlightOK, PosOK, Tx, Holding
    <3>2. BATCH_SIZE \in Nat /\ Size[x.task] \in Nat
      BY <1>3, ChainAssumption
    <3> QED
      BY <2>1, <3>1, <3>2 DEF ChunkEnd
  <2>3. CASE x.task \in AllTasks
    BY <2>1, <2>2, <2>3 DEF Effects, Failure
  <2>4. CASE x.task \notin AllTasks
    BY <2>1, <2>2, <2>4 DEF Effects, Failure
  <2> QED
    BY <2>1, <2>3, <2>4
<1>5. e \in Reports /\ e.got \in Nat /\ e \notin {NoReport, Silence}
  <2>1. CASE e = Failure
    BY <2>1 DEF Reports, Failure, NoReport, Silence
  <2>2. CASE e = [kind |-> "success", got |-> e.got] /\ e.got \in 0 .. ChunkEnd(x.task, x.from) - x.from
    <3>1. e.got \in Nat /\ e.kind = "success"
      BY <1>3, <1>4, <2>2
    <3> QED
      BY <2>2, <3>1 DEF Reports, NoReport, Silence
  <2> QED
    BY <1>4, <2>1, <2>2
<1>6. /\ b \in [task : Tasks, from : Nat, got : Nat]
      /\ blocks' \in Seq([task : Tasks, from : Nat, got : Nat])
      /\ Account \in Nat /\ Account' = Account + 1 /\ blocks'[Account + 1] = b
      /\ \A i \in 1 .. Account : blocks'[i] = blocks[i]
  BY <1>1, <1>3, <1>5 DEF Account
<1>7. Range(blocks') = Range(blocks) \cup {b}
  <2>1. DOMAIN blocks = 1 .. Account /\ DOMAIN blocks' = (1 .. Account) \cup {Account + 1}
    BY <1>3, <1>6 DEF Account
  <2> HIDE DEF b
  <2> QED
    BY <1>6, <2>1 DEF Range
<1>8. Included' = Included \cup {<<x.task, x.from + j>> : j \in 1 .. e.got}
  <2>1. b.task = x.task /\ b.from = x.from /\ b.got = e.got
    OBVIOUS
  <2> DEFINE Of(c) == {<<c.task, c.from + j>> : j \in 1 .. c.got}
  <2>2. Included = UNION {Of(c) : c \in Range(blocks)}
        /\ Included' = UNION {Of(c) : c \in Range(blocks')}
    BY DEF Included
  <2>3. Of(b) = {<<x.task, x.from + j>> : j \in 1 .. e.got}
    BY <2>1
  <2> HIDE DEF b, Of
  <2> QED
    BY <1>7, <2>2, <2>3
<1>9. LockOK' /\ Typed'
  <2>1. IsFiniteSet(pool')
    BY <1>2, FS_RemoveElement DEF IInv, Typed
  <2>2. report' \in [Tasks -> Reports]
    BY <1>1, <1>5 DEF IInv, Typed
  <2> QED
    BY <1>2, <1>6, <2>1, <2>2 DEF IInv, LockOK, Typed
<1> HIDE DEF b
<1>10. ASSUME NEW t \in Tasks PROVE RaceOK(t)' /\ TaskOK(t)'
  <2>1. RaceOK(t) /\ PosOK(t) /\ FlightOK(t) /\ ResultOK(t) /\ nonce[t] \in Nat
    BY DEF IInv, TaskOK, Typed
  <2>2. RaceOK(t)'
    <3> SUFFICES ASSUME pc[t] = "signing", nonce[t] < Account + 1
                 PROVE  ProcessOf[blocks'[nonce[t] + 1].task] # ProcessOf[t]
      BY <1>2, <1>6, <2>1 DEF RaceOK
    <3>1. CASE nonce[t] = Account
      BY <1>2, <1>6, <2>1, <3>1 DEF RaceOK, b
    <3>2. CASE nonce[t] < Account
      <4>1. nonce[t] + 1 \in 1 .. Account
        BY <1>6, <2>1, <3>2
      <4> QED
        BY <1>6, <2>1, <3>2, <4>1 DEF RaceOK
    <3> QED
      BY <1>6, <2>1, <3>1, <3>2
  <2>3. PosOK(t)'
    BY <1>2, <2>1 DEF PosOK
  <2>4. Tx(t)' = Tx(t) /\ ChunkEnd(t, pos[t])' = ChunkEnd(t, pos[t])
    BY <1>2 DEF Tx, ChunkEnd
  <2>5. CASE x.task # t
    <3>1. report'[t] = report[t]
      BY <1>1, <2>5 DEF Watches, Tx
    <3>2. FlightOK(t)'
      BY <1>2, <2>1, <2>4, <3>1 DEF FlightOK, ChunkEnd
    <3>3. Mine(t)' = Mine(t)
      BY <1>8, <2>5 DEF Mine
    <3>4. Known(t)' = Known(t) /\ (Heard(t)' = Heard(t))
      BY <1>2, <3>1 DEF Known, Heard, Gained, ChunkEnd
    <3>5. ResultOK(t)'
      BY <1>2, <2>1, <3>3, <3>4 DEF ResultOK, Past
    <3> QED
      BY <2>2, <2>3, <3>2, <3>5 DEF TaskOK
  <2>6. CASE x.task = t
    <3>1. /\ x = Tx(t) /\ x.from = pos[t] /\ pc[t] \in {"watching", "lost"}
          /\ pc[t] = "watching" => report[t] \in {NoReport, Silence}
          /\ \A y \in pool' : y.task # t
      BY <1>2, <2>1, <2>6 DEF FlightOK, Tx
    <3>2. CASE pc[t] = "lost" \/ report[t] = Silence
      <4>1. report'[t] = report[t]
        BY <1>1, <3>1, <3>2 DEF Watches, NoReport, Silence
      <4>2. pc[t] = "watching" => report[t].kind # "success"
        BY <3>2, <3>1 DEF Silence
      <4>3. FlightOK(t)'
        BY <1>2, <3>1, <4>1, <4>2 DEF FlightOK
      <4>4. ~Heard(t)'
        BY <1>2, <3>1, <3>2, <4>1 DEF Heard
      <4> QED
        BY <1>2, <2>1, <2>2, <2>3, <4>3, <4>4 DEF TaskOK, ResultOK, Past
    <3>3. CASE pc[t] = "watching" /\ report[t] = NoReport
      <4>1. report'[t] = e
        BY <1>1, <3>1, <3>3 DEF Watches
      <4>2. FlightOK(t)'
        BY <1>2, <1>4, <2>4, <2>6, <3>1, <4>1 DEF FlightOK, Failure
      <4>3. /\ Heard(t) /\ (t \notin Cancelling => Mine(t) = Range(result[t]))
            /\ result[t] = <<>> => Mine(t) = {}
        BY <2>1, <3>3 DEF ResultOK, Heard, Known, NoReport, Silence
      <4>4. Mine(t)' = Mine(t) \cup {<<t, pos[t] + j>> : j \in 1 .. e.got}
        BY <1>8, <2>6, <3>1 DEF Mine
      <4>5. t \notin Cancelling => Mine(t)' = Range(Known(t)')
        <5> SUFFICES ASSUME t \notin Cancelling PROVE Mine(t)' = Range(Known(t)')
          OBVIOUS
        <5>1. CASE e = Failure
          <6>1. Known(t)' = result[t] /\ e.got = 0
            BY <1>2, <4>1, <5>1 DEF Known, Failure
          <6> QED
            BY <4>3, <4>4, <6>1
        <5>2. CASE e.kind = "success"
          <6>1. Known(t)' = result[t] \o [j \in 1 .. e.got |-> <<t, pos[t] + j>>]
            BY <1>2, <3>3, <4>1, <5>2 DEF Known, Gained, ChunkEnd
          <6>2. [j \in 1 .. e.got |-> <<t, pos[t] + j>>] \in Seq({<<t, pos[t] + j>> : j \in 1 .. e.got})
            <7> DEFINE Result(j) == <<t, pos[t] + j>>
                       S == {<<t, pos[t] + j>> : j \in 1 .. e.got}
            <7>1. \A j \in 1 .. e.got : Result(j) \in S
              OBVIOUS
            <7> HIDE DEF Result, S
            <7>2. [j \in 1 .. e.got |-> Result(j)] \in Seq(S)
              BY <1>5, <7>1
            <7> QED
              BY <7>2 DEF Result, S
          <6>3. result[t] \in Seq(Extrinsics(t))
            BY DEF IInv, Typed
          <6>4. Range([j \in 1 .. e.got |-> <<t, pos[t] + j>>]) = {<<t, pos[t] + j>> : j \in 1 .. e.got}
            BY DEF Range
          <6>5. Range(result[t] \o [j \in 1 .. e.got |-> <<t, pos[t] + j>>])
                  = Range(result[t]) \cup Range([j \in 1 .. e.got |-> <<t, pos[t] + j>>])
            <7> DEFINE g == [j \in 1 .. e.got |-> <<t, pos[t] + j>>]
                       S == Extrinsics(t) \cup {<<t, pos[t] + j>> : j \in 1 .. e.got}
            <7>1. result[t] \in Seq(S) /\ g \in Seq(S)
              BY <6>2, <6>3
            <7> HIDE DEF g, S
            <7>2. Range(result[t] \o g) = Range(result[t]) \cup Range(g)
              BY <7>1, RangeConcatenation
            <7> QED
              BY <7>2 DEF g
          <6> QED
            BY <4>3, <4>4, <6>1, <6>4, <6>5
        <5> QED
          BY <1>4, <5>1, <5>2
      <4>6. ASSUME Known(t)' = <<>> PROVE Mine(t)' = {}
        <5>1. CASE e = Failure
          <6>1. Known(t)' = result[t] /\ e.got = 0
            BY <1>2, <4>1, <5>1 DEF Known, Failure
          <6> QED
            BY <4>3, <4>4, <4>6, <6>1
        <5>2. CASE e.kind = "success"
          <6>1. Known(t)' = result[t] \o Gained(t)' /\ report'[t].got = e.got
            BY <1>2, <3>3, <4>1, <5>2 DEF Known
          <6>2. /\ Gained(t)' \in Seq({Gained(t)'[j] : j \in 1 .. e.got})
                /\ Len(Gained(t)') = e.got /\ e.got \in Nat
            <7> DEFINE Result(j) == <<t, IF t \in Cancelling THEN ChunkEnd(t, pos[t])' ELSE pos'[t] + j>>
            <7>1. Gained(t)' = [j \in 1 .. e.got |-> Result(j)]
              BY <6>1 DEF Gained
            <7> HIDE DEF Result
            <7> QED
              BY <1>5, <7>1
          <6>3. result[t] \in Seq(Extrinsics(t))
            BY DEF IInv, Typed
          <6>4. Len(result[t]) = 0 /\ e.got = 0
            <7> DEFINE S == Extrinsics(t) \cup {Gained(t)'[j] : j \in 1 .. e.got}
                       g == Gained(t)'
            <7>1. result[t] \in Seq(S) /\ g \in Seq(S) /\ Len(g) = e.got
              BY <6>2, <6>3
            <7>2. result[t] \o g = <<>>
              BY <4>6, <6>1
            <7> HIDE DEF S, g
            <7>3. Len(result[t] \o g) = Len(result[t]) + Len(g) /\ Len(result[t]) \in Nat /\ Len(g) \in Nat
              BY <7>1
            <7>4. Len(result[t] \o g) = 0
              BY <7>2
            <7> QED
              BY <7>1, <7>3, <7>4
          <6>5. result[t] = <<>>
            BY <6>3, <6>4
          <6> QED
            BY <4>3, <4>4, <6>4, <6>5
        <5> QED
          BY <1>4, <5>1, <5>2
      <4> QED
        BY <1>2, <2>1, <2>2, <2>3, <4>2, <4>5, <4>6 DEF TaskOK, ResultOK, Past
    <3> QED
      BY <3>1, <3>2, <3>3
  <2> QED
    BY <2>5, <2>6
<1> QED
  BY <1>9, <1>10 DEF IInv

-----------------------------------------------------------------------------
(* The theorems.                                                             *)

LEMMA NextInv == IInv /\ [Next]_vars => IInv'
<1> SUFFICES ASSUME IInv, [Next]_vars PROVE IInv'
  OBVIOUS
<1>1. ASSUME NEW t \in Tasks, Continue(t) PROVE IInv'
  <2>1. ASSUME Refuse(t) \/ SendRejected(t) PROVE IInv'
    BY <2>1, GiveUpInv DEF Refuse, SendRejected
  <2> QED
    BY <1>1, <2>1, NextChunkInv, ReadNonceInv, SendAcceptedInv, SucceededInv, FailedInv
       DEF Continue
<1>2. ASSUME NEW t \in Tasks, CannotConnect(t) \/ NextChunk(t) \/ Disconnect(t) PROVE IInv'
  BY <1>2, CannotConnectInv, NextChunkInv, DisconnectInv
<1>3. ASSUME NEW x \in pool, Include(x) \/ Drop(x) PROVE IInv'
  BY <1>3, IncludeInv, DropInv
<1> QED
  BY <1>1, <1>2, <1>3, StutterInv DEF Next

LEMMA Invariance == Spec => []IInv
BY InitInv, NextInv, PTL DEF Spec

\* The types of the client and the chain: in particular the results a call has
\* gathered are of its own extrinsics, and no chunk goes past the last of them
\* (client.ts:332-406, utility.ts:13-47).
THEOREM TypesHold == Spec => []TypeOK
<1>1. IInv => TypeOK
  <2> SUFFICES ASSUME IInv PROVE TypeOK
    OBVIOUS
  <2>1. ASSUME NEW t \in Tasks
        PROVE  report[t].kind \in {"none", "success", "failed", "silent"} /\ report[t].got \in Nat
    BY DEF IInv, Typed, Reports, NoReport, Silence, Failure
  <2>2. \A x \in pool : x.nonce \in Nat /\ x.task \in Tasks /\ x.from \in Nat
    BY DEF IInv, Typed
  <2> QED
    BY <2>1, <2>2 DEF IInv, Typed, TypeOK, States, Holding
<1> QED
  BY <1>1, Invariance, PTL

\* The static lock keeps the tasks of a process from competing for a nonce, whatever
\* has become of the transactions before (client.ts:374-376, 396-403).
THEOREM NonceHeld == Spec => []NoNonceRace
<1>1. IInv => NoNonceRace
  <2> SUFFICES ASSUME IInv, NEW t \in Tasks, pc[t] = "signing", ~Usable(nonce[t])
               PROVE  \E u \in Tasks :
                        /\ ProcessOf[u] # ProcessOf[t]
                        /\ \/ \E x \in pool : x.task = u /\ x.nonce = nonce[t]
                           \/ nonce[t] < Account /\ blocks[nonce[t] + 1].task = u
    BY DEF NoNonceRace
  <2>1. nonce[t] \in Nat /\ Account \in Nat
    BY DEF IInv, Typed, Account
  <2>2. CASE nonce[t] < Account
    <3>1. nonce[t] + 1 \in 1 .. Account
      BY <2>1, <2>2
    <3>2. blocks[nonce[t] + 1].task \in Tasks
      <4>1. blocks \in Seq([task : Tasks, from : Nat, got : Nat])
        BY DEF IInv, Typed
      <4>2. blocks[nonce[t] + 1] \in [task : Tasks, from : Nat, got : Nat]
        BY <3>1, <4>1, ElementOfSeq DEF Account
      <4> QED
        BY <4>2
    <3> QED
      BY <2>2, <3>2 DEF IInv, RaceOK
  <2>3. CASE nonce[t] \in Taken
    <3>1. PICK x \in pool : x.nonce = nonce[t]
      BY <2>3 DEF Taken
    <3> QED
      BY <3>1 DEF IInv, Typed, RaceOK
  <2> QED
    BY <2>1, <2>2, <2>3 DEF Usable
<1> QED
  BY <1>1, Invariance, PTL

\* batch and batchAll return the results of the extrinsics that took effect, those of
\* batchAll all of them in order, however many chunks there are (utility.ts:13-47); of
\* cancellations batchAll returns as many results as there are (client.ts:361-368).
THEOREM ResultsAreExact == Spec => []ReturnsWhatWasApplied
<1>1. IInv => ReturnsWhatWasApplied
  <2> SUFFICES ASSUME IInv, NEW t \in Tasks, pc[t] = "done"
               PROVE  /\ t \in AllTasks => Len(result[t]) = Size[t]
                      /\ t \notin Cancelling =>
                           /\ Range(result[t]) = Extrinsics(t) \cap Included
                           /\ t \in AllTasks => result[t] = [j \in 1..Size[t] |-> <<t, j>>]
    BY DEF ReturnsWhatWasApplied
  <2>1. PosOK(t) /\ ResultOK(t) /\ result[t] \in Seq(Extrinsics(t)) /\ pos[t] \in Nat /\ Size[t] \in Nat
    BY ChainAssumption DEF IInv, TaskOK, Typed
  <2>2. t \notin Cancelling => Mine(t) = Range(result[t])
    BY <2>1 DEF ResultOK, Heard, Known
  <2>3. Range(result[t]) \subseteq Extrinsics(t)
    BY <2>1, RangeOfSeq
  <2>4. Extrinsics(t) \cap Included \subseteq Mine(t) /\ Mine(t) \subseteq Included
    BY DEF Extrinsics, Mine
  <2>5. Past(t) = Size[t]
    BY <2>1 DEF PosOK, Past
  <2>6. t \in AllTasks =>
          /\ Len(result[t]) = Size[t]
          /\ t \notin Cancelling => result[t] = [j \in 1..Size[t] |-> <<t, j>>]
    BY <2>1, <2>5 DEF ResultOK
  <2> QED
    BY <2>2, <2>3, <2>4, <2>6
<1> QED
  BY <1>1, Invariance, PTL

\* batchAll of no more extrinsics than fit one chunk has applied none when it throws:
\* there is no chunk before the one that failed (utility.ts:31-47).
THEOREM OneChunkRollsBack == Spec => []BatchAllRollsBack
<1>1. IInv => BatchAllRollsBack
  <2> SUFFICES ASSUME IInv, NEW t \in AllTasks, pc[t] = "failed", Size[t] <= BATCH_SIZE
               PROVE  Extrinsics(t) \cap Included = {}
    BY DEF BatchAllRollsBack
  <2>1. t \in Tasks /\ Size[t] \in Nat /\ BATCH_SIZE \in Nat \ {0} /\ pos[t] \in Nat
    BY ChainAssumption DEF IInv, Typed
  <2>2. PosOK(t) /\ ResultOK(t)
    BY <2>1 DEF IInv, TaskOK
  <2>3. pos[t] = 0
    BY <2>1, <2>2 DEF PosOK
  <2>4. result[t] = <<>>
    <3>1. Len(result[t]) = 0 /\ result[t] \in Seq(Extrinsics(t))
      BY <2>1, <2>2, <2>3 DEF ResultOK, Past, IInv, Typed
    <3> QED
      BY <3>1
  <2>5. Mine(t) = {}
    BY <2>2, <2>4 DEF ResultOK, Heard, Known
  <2> QED
    BY <2>5 DEF Mine, Extrinsics
<1> QED
  BY <1>1, Invariance, PTL
=============================================================================
