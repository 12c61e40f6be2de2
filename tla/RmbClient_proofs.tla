------------------------- MODULE RmbClient_proofs -------------------------
(***************************************************************************)
(* Theorems of RmbClient, for any set of calls and of ping rounds.         *)
(***************************************************************************)
EXTENDS RmbClient, TLAPS

-----------------------------------------------------------------------------
(* The inductive invariant.                                                  *)

States == {"idle", "opening", "waiting", "reading", "hung", "dropped"} \cup Over
Unsent == {"idle", "opening", "waiting"}
Unanswered == {"absent", "request", "ping"}

\* A call that has not been sent has no entry, the relay knows nothing of it and
\* its retries are not used up.  The relay answers a call once.  An entry is of
\* a call that is being read, or whose answer does not decode.
CallOK(i) ==
  /\ i \in Requests => entry[i] \in {"absent", "request"} \cup Answers
  /\ i \in Pings => entry[i] \in {"absent", "ping", "pong"}
  /\ pc[i] \in States
  /\ tries[i] \in 0..RetriesOf[i]
  /\ pc[i] \in Unsent =>
       entry[i] = "absent" /\ i \notin asked /\ tries[i] < RetriesOf[i]
  /\ entry[i] \notin Unanswered \/ pc[i] = "hung" => i \notin asked
  /\ entry[i] # "absent" =>
       pc[i] = "reading" \/ (pc[i] = "hung" /\ entry[i] \in {"garbled", "void"})

CallsOK ==
  /\ entry = [i \in Ids |-> entry[i]]
  /\ tries = [i \in Ids |-> tries[i]]
  /\ pc = [i \in Ids |-> pc[i]]
  /\ \A i \in Ids : CallOK(i)

RestOK ==
  /\ con \in {"none", "connecting", "open", "closed"}
  /\ alive \in BOOLEAN /\ deaf \in BOOLEAN
  /\ asked \subseteq Ids /\ overCon \subseteq Pings /\ timers \subseteq Pings
  /\ connector \in {"free", "fetching", "opening", "updating"}
  /\ queued \in Nat /\ connects \in 0..MaxConnects
  /\ handle \in Pings \cup {NoPing}
  /\ closer \in [Closers -> {"idle", "awaiting", "draining", "closing", "finished"}]

IInv == CallsOK /\ RestOK

USE DEF Ids

LEMMA InvTyped == IInv => TypeOK /\ NoOrphans
<1> SUFFICES ASSUME IInv PROVE TypeOK /\ NoOrphans
  OBVIOUS
<1>1. pc \in [Ids -> States]
  BY DEF IInv, CallsOK, CallOK
<1>2. \A i \in Requests : entry[i] \in {"absent", "request"} \cup Answers
  BY DEF IInv, CallsOK, CallOK
<1>3. \A p \in Pings : entry[p] \in {"absent", "ping", "pong"}
  BY DEF IInv, CallsOK, CallOK
<1>4. \A i \in Ids : tries[i] \in 0..RetriesOf[i]
  BY DEF IInv, CallsOK, CallOK
<1>5. TypeOK
  BY <1>1, <1>2, <1>3, <1>4 DEF IInv, RestOK, TypeOK, States
<1>6. NoOrphans
  BY DEF IInv, CallsOK, CallOK, NoOrphans
<1> QED
  BY <1>5, <1>6

LEMMA InitInv == Init => IInv
<1> SUFFICES ASSUME Init PROVE IInv
  OBVIOUS
<1>1. \A i \in Ids : RetriesOf[i] \in Nat /\ RetriesOf[i] > 0
  BY RmbAssumption
<1>2. ASSUME NEW i \in Ids PROVE CallOK(i)
  <2>1. tries[i] = 0 /\ tries[i] \in 0..RetriesOf[i] /\ tries[i] < RetriesOf[i]
    BY <1>1 DEF Init
  <2>2. entry[i] = "absent" /\ pc[i] = "idle" /\ i \notin asked
    BY DEF Init
  <2> QED
    BY <2>1, <2>2 DEF CallOK, Unanswered, States
<1>3. CallsOK
  BY <1>2 DEF Init, CallsOK
<1>4. MaxConnects \in Nat
  BY RmbAssumption
<1>5. 0 \in 0..MaxConnects
  BY <1>4
<1>6. RestOK
  BY <1>5 DEF Init, RestOK, Closers
<1> QED
  BY <1>3, <1>6 DEF IInv

-----------------------------------------------------------------------------
(* What a step may do to the calls.                                          *)

LEMMA CallsUntouched ==
  ASSUME CallsOK, UNCHANGED <<entry, pc, tries, asked>>
  PROVE  CallsOK'
BY DEF CallsOK, CallOK

\* One call is changed; others the relay may only forget.
OnlyAt(f, g, i) == g = [j \in Ids |-> IF j = i THEN g[i] ELSE f[j]]

LEMMA OneCall ==
  ASSUME CallsOK, NEW i \in Ids, CallOK(i)', asked' \subseteq asked \cup {i},
         OnlyAt(entry, entry', i), OnlyAt(pc, pc', i), OnlyAt(tries, tries', i)
  PROVE  CallsOK'
<1>1. ASSUME NEW j \in Ids \ {i} PROVE CallOK(j)'
  <2>1. entry'[j] = entry[j] /\ pc'[j] = pc[j] /\ tries'[j] = tries[j]
    BY DEF OnlyAt
  <2>2. CallOK(j) /\ (j \in asked' => j \in asked)
    BY DEF CallsOK
  <2> QED
    BY <2>1, <2>2 DEF CallOK
<1>2. /\ entry' = [j \in Ids |-> entry'[j]]
      /\ pc' = [j \in Ids |-> pc'[j]]
      /\ tries' = [j \in Ids |-> tries'[j]]
  BY DEF OnlyAt
<1> QED
  BY <1>1, <1>2 DEF CallsOK

\* What an assignment at i, or none, does.
LEMMA Assigned ==
  ASSUME NEW f, f = [j \in Ids |-> f[j]], NEW i \in Ids, NEW x
  PROVE  /\ [f EXCEPT ![i] = x][i] = x
         /\ OnlyAt(f, [f EXCEPT ![i] = x], i)
         /\ OnlyAt(f, f, i)
BY DEF OnlyAt

LEMMA Kept == ASSUME CallsOK, NEW i \in Ids
              PROVE  /\ CallOK(i)
                     /\ OnlyAt(entry, entry, i) /\ OnlyAt(pc, pc, i)
                     /\ OnlyAt(tries, tries, i)
BY Assigned DEF CallsOK

-----------------------------------------------------------------------------
(* Steps that leave the calls alone.                                         *)

LEMMA StutterInv == ASSUME IInv, UNCHANGED vars PROVE IInv'
BY CallsUntouched DEF IInv, RestOK, vars

LEMMA SocketInv == ASSUME IInv, Socket PROVE IInv'
BY CallsUntouched DEF IInv, RestOK, Socket, callVars, connectVars, pingVars

LEMMA ConnectInv ==
  ASSUME IInv, Connect \/ Admit \/ Fetched \/ Connected
  PROVE  IInv'
<1>1. CallsOK'
  BY CallsUntouched DEF IInv, Connect, Admit, Fetched, Connected, callVars
<1>2. CASE Connect
  <2>1. connects' \in 0..MaxConnects
    BY <1>2, RmbAssumption DEF Connect, IInv, RestOK
  <2> QED
    BY <1>1, <1>2, <2>1 DEF IInv, RestOK, Connect, pingVars
<1>3. CASE Admit
  BY <1>1, <1>3 DEF IInv, RestOK, Admit, pingVars
<1>4. CASE Fetched
  BY <1>1, <1>4 DEF IInv, RestOK, Fetched, CreateConnection, pingVars
<1>5. CASE Connected
  BY <1>1, <1>5 DEF IInv, RestOK, Connected, pingVars
<1> QED
  BY <1>2, <1>3, <1>4, <1>5

LEMMA ClosersInv ==
  ASSUME IInv, NEW d \in Closers,
         Disconnect \/ ConnectFailed \/ Awaited(d) \/ Close(d)
  PROVE  IInv'
<1>1. CallsOK'
  BY CallsUntouched DEF IInv, Disconnect, ConnectFailed, Awaited, Close, callVars
<1> USE <1>1 DEF IInv, RestOK
<1>2. CASE Disconnect
  BY <1>2 DEF Disconnect, Begin, Quiet, connectVars, Closers
<1>3. CASE ConnectFailed
  BY <1>3 DEF ConnectFailed, Begin, Quiet, Closers
<1>4. CASE Awaited(d)
  BY <1>4 DEF Awaited, Quiet, connectVars
<1>5. CASE Close(d)
  BY <1>5 DEF Close, connectVars, pingVars
<1> QED
  BY <1>2, <1>3, <1>4, <1>5

-----------------------------------------------------------------------------
(* The relay.                                                                *)

LEMMA LoseInv == ASSUME IInv, NEW i \in Ids, Lose(i) PROVE IInv'
<1>1. CallOK(i)'
  BY Kept DEF IInv, Lose, CallOK, callVars
<1>2. OnlyAt(entry, entry', i) /\ OnlyAt(pc, pc', i) /\ OnlyAt(tries, tries', i)
  BY Kept DEF IInv, Lose, callVars
<1>3. CallsOK'
  BY <1>1, <1>2, OneCall DEF IInv, Lose
<1> QED
  BY <1>3 DEF IInv, RestOK, Lose, connectVars, pingVars

\* The answer to a call goes to its entry, if there is one.
LEMMA ReceiveInv == ASSUME IInv, NEW i \in Ids, Receive(i) PROVE IInv'
<1>1. PICK a : /\ i \in Pings => a = "pong"
               /\ i \notin Pings => a \in Answers
               /\ entry' = [entry EXCEPT ![i] = IF entry[i] = "absent"
                                                THEN "absent" ELSE a]
  BY DEF Receive, Store
<1>2. /\ i \in asked /\ i \notin asked' /\ asked' \subseteq asked
      /\ UNCHANGED <<pc, tries>>
  BY DEF Receive
<1>3. CallOK(i) /\ (i \in Requests <=> i \notin Pings)
  BY Kept, RmbAssumption DEF IInv
<1>4. /\ entry'[i] = IF entry[i] = "absent" THEN "absent" ELSE a
      /\ OnlyAt(entry, entry', i) /\ OnlyAt(pc, pc', i) /\ OnlyAt(tries, tries', i)
  BY <1>1, <1>2, Assigned, Kept DEF IInv, CallsOK
<1>5. CallOK(i)'
  BY <1>1, <1>2, <1>3, <1>4 DEF CallOK, Answers, Unanswered
<1>6. CallsOK'
  BY <1>2, <1>4, <1>5, OneCall DEF IInv
<1> QED
  BY <1>6 DEF IInv, RestOK, Receive, connectVars, pingVars

-----------------------------------------------------------------------------
(* The calls.                                                                *)

LEMMA SendingInv ==
  ASSUME IInv, NEW i \in Ids, Call(i) \/ AwaitOpen(i) \/ Transmit(i)
  PROVE  IInv'
<1>1. CallOK(i)
  BY Kept DEF IInv
<1>2. CASE Call(i)
  <2>1. PICK p \in {"opening", "rejected"} : pc' = [pc EXCEPT ![i] = p]
    BY <1>2 DEF Call
  <2>2. pc[i] = "idle" /\ UNCHANGED <<entry, tries, asked>>
    BY <1>2 DEF Call
  <2>3. /\ pc'[i] = p
        /\ OnlyAt(entry, entry', i) /\ OnlyAt(pc, pc', i) /\ OnlyAt(tries, tries', i)
    BY <2>1, <2>2, Assigned, Kept DEF IInv, CallsOK
  <2>4. CallOK(i)'
    BY <1>1, <2>2, <2>3 DEF CallOK, Unsent, States, Over
  <2>5. CallsOK'
    BY <2>2, <2>3, <2>4, OneCall DEF IInv
  <2> QED
    BY <1>2, <2>5 DEF Call, IInv, RestOK, connectVars, pingVars
<1>3. CASE AwaitOpen(i)
  <2>1. PICK p \in {"waiting", "rejected"} : pc' = [pc EXCEPT ![i] = p]
    BY <1>3 DEF AwaitOpen
  <2>2. pc[i] = "opening" /\ UNCHANGED <<entry, tries, asked>>
    BY <1>3 DEF AwaitOpen
  <2>3. /\ pc'[i] = p
        /\ OnlyAt(entry, entry', i) /\ OnlyAt(pc, pc', i) /\ OnlyAt(tries, tries', i)
    BY <2>1, <2>2, Assigned, Kept DEF IInv, CallsOK
  <2>4. CallOK(i)'
    BY <1>1, <2>2, <2>3 DEF CallOK, Unsent, States, Over
  <2>5. CallsOK'
    BY <2>2, <2>3, <2>4, OneCall DEF IInv
  <2> QED
    BY <1>3, <2>5 DEF AwaitOpen, IInv, RestOK, connectVars, pingVars
<1>4. CASE Transmit(i)
  <2>1. PICK e : /\ i \in Pings => e = "ping"
                 /\ i \notin Pings => e = "request"
                 /\ entry' = [entry EXCEPT ![i] = e]
    BY <1>4 DEF Transmit
  <2>2. /\ pc' = [pc EXCEPT ![i] = "reading"]
        /\ tries' = tries /\ asked' \subseteq asked \cup {i}
    BY <1>4 DEF Transmit
  <2>3. /\ entry'[i] = e /\ pc'[i] = "reading"
        /\ OnlyAt(entry, entry', i) /\ OnlyAt(pc, pc', i) /\ OnlyAt(tries, tries', i)
    BY <2>1, <2>2, Assigned, Kept DEF IInv, CallsOK
  <2>4. pc[i] \in Unsent /\ (i \in Requests <=> i \notin Pings)
    BY <1>4, RmbAssumption DEF Transmit, Unsent
  <2>5. CallOK(i)'
    BY <1>1, <2>1, <2>2, <2>3, <2>4 DEF CallOK, Unsent, Unanswered, States
  <2>6. CallsOK'
    BY <2>2, <2>3, <2>5, OneCall DEF IInv
  <2>7. asked' \subseteq Ids /\ overCon' \subseteq Pings
    BY <1>4 DEF Transmit, IInv, RestOK
  <2> QED
    BY <1>4, <2>6, <2>7 DEF Transmit, IInv, RestOK, connectVars, pingVars
<1> QED
  BY <1>2, <1>3, <1>4

\* The retries are counted up to their number, and no further.
LEMMA WaitFailedInv == ASSUME IInv, NEW i \in Ids, WaitFailed(i) PROVE IInv'
<1>1. CallOK(i) /\ pc[i] = "waiting"
  BY Kept DEF IInv, WaitFailed
<1>2. tries[i] \in Nat /\ tries[i] < RetriesOf[i] /\ RetriesOf[i] \in Nat
  BY <1>1, RmbAssumption DEF CallOK, Unsent
<1>0. pc = [pc EXCEPT ![i] = "waiting"]
  BY <1>1 DEF IInv, CallsOK
<1>3. PICK p : /\ pc' = [pc EXCEPT ![i] = p]
               /\ \/ p = "rejected" /\ tries[i] + 1 = RetriesOf[i]
                  \/ p = "waiting" /\ tries[i] + 1 < RetriesOf[i]
  BY <1>0 DEF WaitFailed
<1>4. tries' = [tries EXCEPT ![i] = tries[i] + 1] /\ UNCHANGED <<entry, asked>>
  BY DEF WaitFailed
<1>5. /\ pc'[i] = p /\ tries'[i] = tries[i] + 1
      /\ OnlyAt(entry, entry', i) /\ OnlyAt(pc, pc', i) /\ OnlyAt(tries, tries', i)
  BY <1>3, <1>4, Assigned, Kept DEF IInv, CallsOK
<1>6. CallOK(i)'
  BY <1>1, <1>2, <1>3, <1>4, <1>5 DEF CallOK, Unsent, States, Over
<1>7. CallsOK'
  BY <1>4, <1>5, <1>6, OneCall DEF IInv
<1> QED
  BY <1>7 DEF WaitFailed, CreateConnection, IInv, RestOK, connectVars, pingVars

\* A call that is being read settles.
LEMMA SettleInv ==
  ASSUME IInv, NEW i \in Ids, NEW end \in Over, pc[i] = "reading", Settle(i, end)
  PROVE  IInv'
<1>1. CallOK(i)
  BY Kept DEF IInv
<1>2. /\ entry' = [entry EXCEPT ![i] = "absent"]
      /\ pc' = [pc EXCEPT ![i] = end] /\ UNCHANGED <<tries, asked>>
  BY DEF Settle
<1>3. /\ entry'[i] = "absent" /\ pc'[i] = end
      /\ OnlyAt(entry, entry', i) /\ OnlyAt(pc, pc', i) /\ OnlyAt(tries, tries', i)
  BY <1>2, Assigned, Kept DEF IInv, CallsOK
<1>4. CallOK(i)'
  BY <1>1, <1>2, <1>3 DEF CallOK, Unsent, Unanswered, States, Over
<1>5. CallsOK'
  BY <1>2, <1>3, <1>4, OneCall DEF IInv
<1> QED
  BY <1>5 DEF Settle, IInv, RestOK

LEMMA ReadingInv ==
  ASSUME IInv, NEW i \in Ids, Poll(i) \/ Hang(i) \/ Expire(i)
  PROVE  IInv'
<1>1. CASE Poll(i)
  BY <1>1, SettleInv DEF Poll, Over
<1>2. CASE Hang(i)
  <2>1. CallOK(i)
    BY Kept DEF IInv
  <2>2. PICK p \in {"hung", "dropped"} :
          /\ pc' = [pc EXCEPT ![i] = p]
          /\ p = "hung" => entry[i] \in {"garbled", "void"}
          /\ p = "dropped" => entry[i] = "absent"
    BY <1>2 DEF Hang
  <2>3. UNCHANGED <<entry, tries, asked>>
    BY <1>2 DEF Hang
  <2>4. /\ pc'[i] = p /\ pc[i] = "reading"
        /\ OnlyAt(entry, entry', i) /\ OnlyAt(pc, pc', i) /\ OnlyAt(tries, tries', i)
    BY <1>2, <2>2, <2>3, Assigned, Kept DEF IInv, CallsOK, Hang
  <2>5. CallOK(i)'
    BY <2>1, <2>2, <2>3, <2>4 DEF CallOK, Unsent, Unanswered, States
  <2>6. CallsOK'
    BY <2>3, <2>4, <2>5, OneCall DEF IInv
  <2> QED
    BY <1>2, <2>6 DEF Hang, IInv, RestOK, connectVars, pingVars
<1>3. CASE Expire(i)
  BY <1>3, SettleInv DEF Expire, Over
<1> QED
  BY <1>1, <1>2, <1>3

-----------------------------------------------------------------------------
(* The ping loop and the end.                                                *)

\* A new round is one that was idle.
LEMMA LaunchInv ==
  ASSUME CallsOK, NEW pending \in SUBSET Pings, Launch(pending),
         UNCHANGED <<entry, tries, asked>>
  PROVE  timers' \subseteq Pings /\ CallsOK'
<1>1. CASE Unused = {}
  BY <1>1, CallsUntouched DEF Launch
<1>2. CASE Unused # {}
  <2>1. PICK p \in Unused : pc' = [pc EXCEPT ![p] = "opening"]
    BY <1>2 DEF Launch
  <2>2. p \in Pings /\ pc[p] = "idle"
    BY DEF Unused
  <2>3. /\ pc'[p] = "opening" /\ CallOK(p)
        /\ OnlyAt(entry, entry', p) /\ OnlyAt(pc, pc', p) /\ OnlyAt(tries, tries', p)
    BY <2>1, <2>2, Assigned, Kept DEF CallsOK
  <2>4. CallOK(p)'
    BY <2>2, <2>3 DEF CallOK, Unsent, States
  <2>5. CallsOK'
    BY <2>2, <2>3, <2>4, OneCall
  <2> QED
    BY <2>5 DEF Launch
<1> QED
  BY <1>1, <1>2

LEMMA OpenedInv == ASSUME IInv, Opened PROVE IInv'
<1>1. timers \in SUBSET Pings
  BY DEF IInv, RestOK
<1>2. timers' \subseteq Pings /\ CallsOK'
  BY <1>1, LaunchInv DEF IInv, Opened
<1> QED
  BY <1>2 DEF IInv, RestOK, Opened

LEMMA RestedInv == ASSUME IInv, NEW p \in Pings, Rested(p) PROVE IInv'
<1>1. timers \ {p} \in SUBSET Pings
  BY DEF IInv, RestOK
<1>2. timers' \subseteq Pings /\ CallsOK'
  BY <1>1, LaunchInv, CallsUntouched DEF IInv, Rested
<1> QED
  BY <1>2 DEF IInv, RestOK, Rested, connectVars

\* Draining only takes entries out of the map.
LEMMA DrainInv == ASSUME IInv, NEW d \in Closers, Drain(d) PROVE IInv'
<1>1. /\ entry' = [i \in Ids |-> entry'[i]]
      /\ \A i \in Ids : entry'[i] \in {entry[i], "absent"}
  BY DEF Drain
<1>2. UNCHANGED <<pc, tries, asked>>
  BY DEF Drain
<1>3. ASSUME NEW i \in Ids PROVE CallOK(i)'
  BY <1>1, <1>2, Kept DEF CallOK, Unanswered, IInv
<1>4. CallsOK'
  BY <1>1, <1>2, <1>3 DEF CallsOK, IInv
<1>5. closer' \in [Closers -> {"idle", "awaiting", "draining", "closing", "finished"}]
  BY DEF Drain, IInv, RestOK
<1> QED
  BY <1>4, <1>5 DEF Drain, IInv, RestOK, connectVars, pingVars

LEMMA NextInv == IInv /\ [Next]_vars => IInv'
BY StutterInv, SocketInv, ConnectInv, ClosersInv, LoseInv, ReceiveInv, SendingInv,
   WaitFailedInv, ReadingInv, OpenedInv, RestedInv, DrainInv
   DEF Next, CallStep, Closers

LEMMA Invariance == Spec => []IInv
BY InitInv, NextInv, PTL DEF Spec

\* The types of client.ts: in particular no call makes more attempts than its
\* retries allow (client.ts:259-274).
THEOREM TypesHold == Spec => []TypeOK
BY Invariance, InvTyped, PTL

\* No entry stays in the map that nobody removes: a late answer, or one to a call
\* that has expired or was given up by a disconnect, finds no entry to replace
\* (client.ts:108-111, 366-401).
THEOREM MapHasNoOrphans == Spec => []NoOrphans
BY Invariance, InvTyped, PTL
=============================================================================
