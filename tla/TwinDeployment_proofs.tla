----------------------- MODULE TwinDeployment_proofs -----------------------
(***************************************************************************)
(* Theorems of TwinDeployment, for any set of calls, of requests and of    *)
(* contracts that exist beforehand.                                        *)
(***************************************************************************)
EXTENDS TwinDeployment, DeploymentUpdate_proofs, TLAPS

-----------------------------------------------------------------------------
(* The inductive invariant.                                                  *)

Working == {"send", "sendUpdate", "await", "wait", "rollback"}
Cleared == {"resend", "awaitRestore", "failed", "unrestored"}

\* A call works on a list of operations that never names a contract of its own
\* making, except through the ids its batch returned.
OpsOK ==
  /\ ops = [c \in Calls |-> ops[c]]
  /\ \A c \in Calls :
    /\ \E n \in Nat : Positions(c) = 1..n
    /\ \A i \in Positions(c) :
         /\ DOMAIN ops[c][i] = {"verb", "id", "name", "dep"}
         /\ ops[c][i].verb \in Verbs
         /\ ops[c][i].verb # "deploy" => ops[c][i].id \in ContractIds \ MadeBy(c)
    /\ pc[c] = "idle" => ops[c] = <<>> /\ pos[c] = 1 /\ updated[c] = <<>>
    /\ pc[c] = "sendUpdate" => pos[c] \in Updates(c)

\* contracts.updated lists the contracts of the updates prepared so far, and
\* the deletions were collected before the call had contracts of its own.
PreparedOK ==
  \A c \in Calls :
    /\ UpdatedIds(c) \cap MadeBy(c) = {}
    /\ doomed[c] \cap MadeBy(c) = {}
    /\ pc[c] = "prepare" =>
         /\ 1..(pos[c] - 1) \subseteq Positions(c)
         /\ \A i \in Updates(c) : i \in 1..(pos[c] - 1) => ops[c][i].id \in UpdatedIds(c)

\* Before its batch a call has no contract.
Unopened ==
  \A c \in Calls : pc[c] \in {"idle", "prepare"} =>
    MadeBy(c) \cap (Live \cup cancelled \cup DOMAIN node) = {}

\* From its batch to the end of its rollback it knows every contract it has.
Accounted ==
  \A c \in Calls :
    /\ created[c] \subseteq MadeBy(c)
    /\ pc[c] \in Working => Live \cap MadeBy(c) \subseteq created[c]

\* After its rollback it has none.
Gone ==
  \A c \in Calls : pc[c] \in Cleared => Live \cap MadeBy(c) = {}

IInv == TypeOK /\ OpsOK /\ PreparedOK /\ Unopened /\ Accounted /\ Gone

-----------------------------------------------------------------------------
(* Elementary facts.                                                         *)

\* No two calls can make the same contract, and none makes one that was there.
LEMMA OwnersDiffer ==
  ASSUME NEW c \in Calls, NEW d \in Calls \cup {NoCall}, c # d
  PROVE  MadeBy(c) \cap MadeBy(d) = {}
BY DEF MadeBy

LEMMA MadeByTyped == \A c \in Calls \cup {NoCall} : MadeBy(c) \subseteq ContractIds
BY DEF MadeBy, ContractIds

LEMMA RangeOfAppend ==
  ASSUME NEW S, NEW s \in Seq(S), NEW x
  PROVE  Range(Append(s, x)) = Range(s) \cup {x}
<1>1. /\ Len(Append(s, x)) = Len(s) + 1 /\ Len(s) \in Nat
      /\ DOMAIN Append(s, x) = 1..(Len(s) + 1) /\ DOMAIN s = 1..Len(s)
      /\ \A k \in 1..Len(s) : Append(s, x)[k] = s[k]
      /\ Append(s, x)[Len(s) + 1] = x
  OBVIOUS
<1>2. 1..(Len(s) + 1) = (1..Len(s)) \cup {Len(s) + 1}
  BY <1>1
<1> QED
  BY <1>1, <1>2 DEF Range

LEMMA InitInv == Init => IInv
<1> SUFFICES ASSUME Init PROVE IInv
  OBVIOUS
<1> USE TwinAssumption DEF Init, Live
<1>1. TypeOK
  BY MadeByTyped DEF TypeOK, Terminal
<1>2. OpsOK
  <2>1. \A c \in Calls : Positions(c) = 1..0 /\ Positions(c) = {}
    BY DEF Positions
  <2>2. \A c \in Calls : \E n \in Nat : Positions(c) = 1..n
    <3>1. 0 \in Nat
      OBVIOUS
    <3> QED
      BY <2>1, <3>1
  <2>3. \A c \in Calls : pc[c] = "idle" /\ ops[c] = <<>> /\ pos[c] = 1 /\ updated[c] = <<>>
    OBVIOUS
  <2>4. ops = [c \in Calls |-> ops[c]]
    OBVIOUS
  <2> QED
    BY <2>1, <2>2, <2>3, <2>4 DEF OpsOK
<1>3. PreparedOK
  BY DEF PreparedOK, UpdatedIds, Range, Updates, Positions
<1>4. Unopened
  BY OwnersDiffer DEF Unopened
<1>5. Accounted /\ Gone
  BY DEF Accounted, Gone, Working, Cleared
<1> QED
  BY <1>1, <1>2, <1>3, <1>4, <1>5 DEF IInv

\* What a call does before its batch.
LEMMA SubmitInv == ASSUME IInv, NEW c \in Calls, Submit(c) PROVE IInv'
<1> USE DEF IInv, Live
<1>1. TypeOK'
  BY DEF TypeOK, Submit, CheckOutcomes, chainVars, nodeVars, Terminal
<1>2. OpsOK'
  <2>1. PICK r \in Requests : /\ \A i \in DOMAIN r : Needed(r[i])
                              /\ ops' = [ops EXCEPT ![c] = [i \in DOMAIN r |-> Resolve(r[i])]]
    BY DEF Submit
  <2>2. r \in Seq(Operation)
    BY <2>1, TwinAssumption
  <2>3. \A i \in DOMAIN r : r[i] \in Operation /\ i \in Nat \ {0}
    BY <2>2
  <2>4. \A i \in DOMAIN r : r[i].verb # "deploy" => r[i].target \in ContractIds \ MadeBy(c)
    BY <2>1 DEF Needed, Unopened, Submit, TypeOK
  <2>5. \A i \in DOMAIN r :
          /\ Resolve(r[i]).verb = r[i].verb /\ Resolve(r[i]).id = r[i].target
          /\ DOMAIN Resolve(r[i]) = {"verb", "id", "name", "dep"}
          /\ r[i].verb \in Verbs
    BY <2>3 DEF Resolve, Operation
  <2>6. ops'[c] = [i \in DOMAIN r |-> Resolve(r[i])]
    BY <2>1 DEF OpsOK
  <2>7. /\ ops' = [d \in Calls |-> ops'[d]]
        /\ \A d \in Calls : d # c => ops'[d] = ops[d] /\ pc'[d] = pc[d]
        /\ pc'[c] \in CheckOutcomes /\ pos' = pos /\ updated' = updated
    BY <2>1 DEF OpsOK, Submit, TypeOK, CheckOutcomes
  <2>8. ASSUME NEW d \in Calls, d # c PROVE OpsOK!2!(d)'
    BY <2>7, <2>8 DEF OpsOK, Positions, Updates
  <2>9. OpsOK!2!(c)'
    <3>1. Positions(c)' = 1..Len(r) /\ Len(r) \in Nat
      BY <2>2, <2>6 DEF Positions
    <3> QED
      BY <3>1, <2>3, <2>4, <2>5, <2>6, <2>7 DEF Positions, Updates, CheckOutcomes
  <2> QED
    BY <2>7, <2>8, <2>9 DEF OpsOK
<1>3. PreparedOK'
  BY DEF PreparedOK, OpsOK, Submit, CheckOutcomes, chainVars, UpdatedIds, Range, Updates, Positions
<1>4. Unopened' /\ Accounted' /\ Gone'
  BY DEF Unopened, Accounted, Gone, Working, Cleared, Submit, CheckOutcomes, chainVars, nodeVars, TypeOK
<1> QED
  BY <1>1, <1>2, <1>3, <1>4

LEMMA PrepareInv == ASSUME IInv, NEW c \in Calls, Prepare(c) PROVE IInv'
<1> USE DEF IInv, Live
<1> DEFINE o == ops[c][pos[c]]
<1>1. /\ pc[c] = "prepare" /\ pos[c] \in Positions(c)
      /\ o.verb \in Verbs
      /\ o.verb # "deploy" => o.id \in ContractIds \ MadeBy(c)
      /\ MadeBy(c) \cap Live = {}
  BY DEF Prepare, OpsOK, Unopened
<1>2. updated'[c] = IF o.verb = "update" THEN Append(updated[c], o.id) ELSE updated[c]
  BY DEF Prepare, TypeOK
<1>3. updated[c] \in Seq(ContractIds)
  BY DEF TypeOK
<1>4. UpdatedIds(c)' = IF o.verb = "update" THEN UpdatedIds(c) \cup {o.id} ELSE UpdatedIds(c)
  BY <1>2, <1>3, RangeOfAppend DEF UpdatedIds
<1>5. doomed'[c] \subseteq (ContractIds \ MadeBy(c)) \cup doomed[c]
  BY <1>1 DEF Prepare, TypeOK
<1>6. TypeOK'
  <2>1. updated' \in [Calls -> Seq(ContractIds)]
    BY <1>1, <1>3 DEF Prepare, TypeOK
  <2>2. doomed' \in [Calls -> SUBSET ContractIds]
    BY <1>5 DEF Prepare, TypeOK
  <2> QED
    BY <2>1, <2>2 DEF TypeOK, Prepare, chainVars, nodeVars
<1>7. OpsOK'
  BY <1>1 DEF OpsOK, Prepare, Positions, Updates, TypeOK
<1>8. PreparedOK'
  <2>1. ASSUME NEW d \in Calls, d # c PROVE PreparedOK!(d)'
    BY <2>1 DEF PreparedOK, Prepare, TypeOK, UpdatedIds, Updates, Positions
  <2>2. PreparedOK!(c)'
    <3>1. UpdatedIds(c)' \cap MadeBy(c) = {} /\ doomed'[c] \cap MadeBy(c) = {}
      BY <1>1, <1>4, <1>5 DEF PreparedOK
    <3>2. /\ 1..(pos'[c] - 1) \subseteq Positions(c)'
          /\ \A i \in Updates(c)' : i \in 1..(pos'[c] - 1) => ops'[c][i].id \in UpdatedIds(c)'
      BY <1>1, <1>4 DEF PreparedOK, Prepare, TypeOK, Updates, Positions
    <3> QED
      BY <3>1, <3>2
  <2> QED
    BY <2>1, <2>2 DEF PreparedOK
<1>9. Unopened' /\ Accounted' /\ Gone'
  BY DEF Unopened, Accounted, Gone, Prepare, chainVars, nodeVars
<1> QED
  BY <1>6, <1>7, <1>8, <1>9

-----------------------------------------------------------------------------
\* A step of call c that leaves the chain and its own bookkeeping alone keeps
\* the invariant, provided it goes forward.
LEMMA QuietInv ==
  ASSUME IInv, TypeOK', NEW c \in Calls, NEW p,
         UNCHANGED <<contracts, cancelled, ops, created, updated, doomed>>,
         DOMAIN node' \subseteq DOMAIN node \cup Live,
         pc' = [pc EXCEPT ![c] = p],
         \A d \in Calls : d # c => pos'[d] = pos[d],
         p \notin {"idle", "prepare"},
         p = "sendUpdate" => pos'[c] \in Updates(c),
         p \in Working => pc[c] \in Working,
         p \in Cleared => pc[c] \in Cleared \cup {"prepare"}
  PROVE  IInv'
<1> USE DEF IInv, Live
<1>1. pc'[c] = p /\ \A d \in Calls : d # c => pc'[d] = pc[d]
  BY DEF TypeOK
<1>2. OpsOK'
  BY <1>1 DEF OpsOK, Positions, Updates
<1>3. PreparedOK'
  BY <1>1 DEF PreparedOK, UpdatedIds, Updates, Positions
<1>4. Unopened'
  BY <1>1 DEF Unopened
<1>5. Accounted' /\ Gone'
  BY <1>1 DEF Accounted, Gone, Unopened
<1> QED
  BY <1>2, <1>3, <1>4, <1>5

\* A call that is refused before its batch.
LEMMA RefuseInv == ASSUME IInv, NEW c \in Calls, Refuse(c) PROVE IInv'
<1> DEFINE p == "failed"
<1>1. TypeOK'
  BY DEF IInv, Refuse, TypeOK, Live, chainVars, nodeVars, Terminal
<1>2. /\ UNCHANGED <<contracts, cancelled, node, ops, created, updated, doomed>>
      /\ pc' = [pc EXCEPT ![c] = p]
      /\ \A d \in Calls : d # c => pos'[d] = pos[d]
  BY DEF IInv, Refuse, TypeOK, chainVars, nodeVars
<1>3. /\ p \notin {"idle", "prepare"}
      /\ p \in Working => pc[c] \in Working
      /\ p \in Cleared => pc[c] \in Cleared \cup {"prepare"}
  BY DEF Refuse, Working, Cleared
<1> QED
  BY <1>1, <1>2, <1>3, QuietInv

\* The try block.
LEMMA ReadOriginalInv == ASSUME IInv, NEW c \in Calls, ReadOriginal(c) PROVE IInv'
<1> DEFINE p == "sendUpdate"
<1>1. TypeOK'
  BY DEF IInv, ReadOriginal, TypeOK, Live, chainVars, nodeVars, Terminal
<1>2. /\ UNCHANGED <<contracts, cancelled, node, ops, created, updated, doomed>>
      /\ pc' = [pc EXCEPT ![c] = p]
      /\ \A d \in Calls : d # c => pos'[d] = pos[d]
      /\ pos'[c] \in Updates(c)
  BY DEF IInv, ReadOriginal, TypeOK, chainVars, nodeVars
<1>3. /\ p \notin {"idle", "prepare"}
      /\ p \in Working => pc[c] \in Working
      /\ p \in Cleared => pc[c] \in Cleared \cup {"prepare"}
  BY DEF ReadOriginal, Working, Cleared
<1> QED
  BY <1>1, <1>2, <1>3, QuietInv

LEMMA AnsweredInv == ASSUME IInv, NEW c \in Calls, Answered(c) PROVE IInv'
<1> DEFINE p == "send"
<1>1. TypeOK'
  BY DEF IInv, Answered, TypeOK, Live, chainVars, nodeVars, Terminal
<1>2. /\ UNCHANGED <<contracts, cancelled, node, ops, created, updated, doomed>>
      /\ pc' = [pc EXCEPT ![c] = p]
      /\ \A d \in Calls : d # c => pos'[d] = pos[d]
  BY DEF IInv, Answered, TypeOK, chainVars, nodeVars
<1>3. /\ p \notin {"idle", "prepare"}
      /\ p \in Working => pc[c] \in Working
      /\ p \in Cleared => pc[c] \in Cleared \cup {"prepare"}
  BY DEF Answered, Working, Cleared
<1> QED
  BY <1>1, <1>2, <1>3, QuietInv

LEMMA FinishInv == ASSUME IInv, NEW c \in Calls, Finish(c) PROVE IInv'
<1> DEFINE p == "done"
<1>1. TypeOK'
  BY DEF IInv, Finish, TypeOK, Live, chainVars, nodeVars, Terminal
<1>2. /\ UNCHANGED <<contracts, cancelled, node, ops, created, updated, doomed>>
      /\ pc' = [pc EXCEPT ![c] = p]
      /\ \A d \in Calls : d # c => pos'[d] = pos[d]
  BY DEF IInv, Finish, TypeOK, chainVars, nodeVars
<1>3. /\ p \notin {"idle", "prepare"}
      /\ p \in Working => pc[c] \in Working
      /\ p \in Cleared => pc[c] \in Cleared \cup {"prepare"}
  BY DEF Finish, Working, Cleared
<1> QED
  BY <1>1, <1>2, <1>3, QuietInv

LEMMA ThrowInv == ASSUME IInv, NEW c \in Calls, Throw(c) PROVE IInv'
<1> DEFINE p == "rollback"
<1>1. TypeOK'
  BY DEF IInv, Throw, TypeOK, Live, chainVars, nodeVars, Terminal
<1>2. /\ UNCHANGED <<contracts, cancelled, node, ops, created, updated, doomed>>
      /\ pc' = [pc EXCEPT ![c] = p]
      /\ \A d \in Calls : d # c => pos'[d] = pos[d]
  BY DEF IInv, Throw, TypeOK, chainVars, nodeVars
<1>3. /\ p \notin {"idle", "prepare"}
      /\ p \in Working => pc[c] \in Working
      /\ p \in Cleared => pc[c] \in Cleared \cup {"prepare"}
  BY DEF Throw, Working, Cleared
<1> QED
  BY <1>1, <1>2, <1>3, QuietInv

\* The rollback.
LEMMA ResendInv == ASSUME IInv, NEW c \in Calls, Resend(c) PROVE IInv'
<1> DEFINE p == "awaitRestore"
<1>1. TypeOK'
  BY DEF IInv, Resend, TypeOK, Live, chainVars, nodeVars, Terminal, Message
<1>2. /\ UNCHANGED <<contracts, cancelled, node, ops, created, updated, doomed>>
      /\ pc' = [pc EXCEPT ![c] = p]
      /\ \A d \in Calls : d # c => pos'[d] = pos[d]
  BY DEF IInv, Resend, TypeOK, chainVars, nodeVars
<1>3. /\ p \notin {"idle", "prepare"}
      /\ p \in Working => pc[c] \in Working
      /\ p \in Cleared => pc[c] \in Cleared \cup {"prepare"}
  BY DEF Resend, Working, Cleared
<1> QED
  BY <1>1, <1>2, <1>3, QuietInv

LEMMA RestoredInv == ASSUME IInv, NEW c \in Calls, Restored(c) PROVE IInv'
<1> DEFINE p == "resend"
<1>1. TypeOK'
  BY DEF IInv, Restored, TypeOK, Live, chainVars, nodeVars, Terminal
<1>2. /\ UNCHANGED <<contracts, cancelled, node, ops, created, updated, doomed>>
      /\ pc' = [pc EXCEPT ![c] = p]
      /\ \A d \in Calls : d # c => pos'[d] = pos[d]
  BY DEF IInv, Restored, TypeOK, chainVars, nodeVars
<1>3. /\ p \notin {"idle", "prepare"}
      /\ p \in Working => pc[c] \in Working
      /\ p \in Cleared => pc[c] \in Cleared \cup {"prepare"}
  BY DEF Restored, Working, Cleared
<1> QED
  BY <1>1, <1>2, <1>3, QuietInv

LEMMA RolledBackInv == ASSUME IInv, NEW c \in Calls, RolledBack(c) PROVE IInv'
<1> DEFINE p == "failed"
<1>1. TypeOK'
  BY DEF IInv, RolledBack, TypeOK, Live, chainVars, nodeVars, Terminal
<1>2. /\ UNCHANGED <<contracts, cancelled, node, ops, created, updated, doomed>>
      /\ pc' = [pc EXCEPT ![c] = p]
      /\ \A d \in Calls : d # c => pos'[d] = pos[d]
  BY DEF IInv, RolledBack, TypeOK, chainVars, nodeVars
<1>3. /\ p \notin {"idle", "prepare"}
      /\ p \in Working => pc[c] \in Working
      /\ p \in Cleared => pc[c] \in Cleared \cup {"prepare"}
  BY DEF RolledBack, Working, Cleared
<1> QED
  BY <1>1, <1>2, <1>3, QuietInv

LEMMA AbandonInv == ASSUME IInv, NEW c \in Calls, Abandon(c) PROVE IInv'
<1> DEFINE p == IF pc[c] = "rollback" THEN "stuck" ELSE "unrestored"
<1>1. TypeOK'
  BY DEF IInv, Abandon, TypeOK, Live, chainVars, nodeVars, Terminal
<1>2. /\ UNCHANGED <<contracts, cancelled, node, ops, created, updated, doomed>>
      /\ pc' = [pc EXCEPT ![c] = p]
      /\ \A d \in Calls : d # c => pos'[d] = pos[d]
  BY DEF IInv, Abandon, TypeOK, chainVars, nodeVars
<1>3. /\ p \notin {"idle", "prepare"}
      /\ p \in Working => pc[c] \in Working
      /\ p \in Cleared => pc[c] \in Cleared \cup {"prepare"}
  BY DEF Abandon, Working, Cleared
<1> QED
  BY <1>1, <1>2, <1>3, QuietInv

LEMMA HangInv == ASSUME IInv, NEW c \in Calls, Hang(c) PROVE IInv'
<1> DEFINE p == "hung"
<1>1. TypeOK'
  BY DEF IInv, Hang, TypeOK, Live, chainVars, nodeVars, Terminal
<1>2. /\ UNCHANGED <<contracts, cancelled, node, ops, created, updated, doomed>>
      /\ pc' = [pc EXCEPT ![c] = p]
      /\ \A d \in Calls : d # c => pos'[d] = pos[d]
  BY DEF IInv, Hang, TypeOK, chainVars, nodeVars
<1>3. /\ p \notin {"idle", "prepare"}
      /\ p \in Working => pc[c] \in Working
      /\ p \in Cleared => pc[c] \in Cleared \cup {"prepare"}
  BY DEF Hang, Working, Cleared
<1> QED
  BY <1>1, <1>2, <1>3, QuietInv

LEMMA SilenceInv == ASSUME IInv, NEW c \in Calls, Silence(c) PROVE IInv'
<1> DEFINE p == "mute"
<1>1. TypeOK'
  BY DEF IInv, Silence, TypeOK, Live, chainVars, nodeVars, Terminal
<1>2. /\ UNCHANGED <<contracts, cancelled, node, ops, created, updated, doomed>>
      /\ pc' = [pc EXCEPT ![c] = p]
      /\ \A d \in Calls : d # c => pos'[d] = pos[d]
  BY DEF IInv, Silence, TypeOK, chainVars, nodeVars
<1>3. /\ p \notin {"idle", "prepare"}
      /\ p \in Working => pc[c] \in Working
      /\ p \in Cleared => pc[c] \in Cleared \cup {"prepare"}
  BY DEF Silence, Working, Cleared
<1> QED
  BY <1>1, <1>2, <1>3, QuietInv

-----------------------------------------------------------------------------
\* Sending a deployment writes the id of its contract into the operation.
LEMMA SendInv == ASSUME IInv, NEW c \in Calls, Send(c) PROVE IInv'
<1> USE DEF IInv, Live
<1> DEFINE i == pos[c]
           o == ops[c][i]
           id == IF o.verb = "deploy" THEN ResultFor(c, i) ELSE o.id
<1>1. /\ i \in Sent(c)
      /\ o.verb \in {"deploy", "update"}
      /\ pc[c] \in {"send", "sendUpdate"}
  BY DEF Send, OpsOK, Sent, Creates, Updates
<1>2. /\ ops' = [ops EXCEPT ![c][i].id = id]
      /\ pc' = [pc EXCEPT ![c] = "await"]
      /\ inflight' = inflight \cup {Message(c, o.verb, id, o.dep)}
      /\ reply' = [reply EXCEPT ![c] = "none"]
      /\ UNCHANGED <<contracts, cancelled, node, originals, pos, created, updated, doomed,
                     ready, restores>>
  BY DEF Send, chainVars
<1>3. /\ ops' = [d \in Calls |-> ops'[d]]
      /\ \A d \in Calls : d # c => ops'[d] = ops[d] /\ pc'[d] = pc[d]
      /\ ops'[c] = [ops[c] EXCEPT ![i].id = id]
      /\ pc'[c] = "await"
  BY <1>2 DEF OpsOK, TypeOK
<1>4. /\ DOMAIN ops'[c] = DOMAIN ops[c]
      /\ \A j \in Positions(c) :
           /\ DOMAIN ops'[c][j] = {"verb", "id", "name", "dep"}
           /\ ops'[c][j].verb = ops[c][j].verb
           /\ ops[c][j].verb # "deploy" => ops'[c][j].id = ops[c][j].id
  <2>1. DOMAIN o = {"verb", "id", "name", "dep"} /\ i \in Positions(c)
    BY <1>1 DEF OpsOK, Sent, Creates, Updates
  <2>2. DOMAIN ops'[c] = DOMAIN ops[c] /\ \A j \in Positions(c) \ {i} : ops'[c][j] = ops[c][j]
    BY <1>3 DEF Positions
  <2>3. ops'[c][i] = [o EXCEPT !.id = id]
    BY <1>3, <2>1 DEF Positions
  <2>4. /\ DOMAIN ops'[c][i] = {"verb", "id", "name", "dep"}
        /\ ops'[c][i].verb = o.verb /\ ops'[c][i].id = id
    BY <2>1, <2>3
  <2> QED
    BY <2>1, <2>2, <2>4 DEF OpsOK
<1>5. TypeOK'
  <2>1. \A m \in inflight' : m.from \in Calls /\ m.verb \in {"deploy", "update"}
    BY <1>1, <1>2 DEF TypeOK, Message
  <2> QED
    BY <1>2, <2>1 DEF TypeOK
<1>6. OpsOK'
  <2>1. ASSUME NEW d \in Calls, d # c PROVE OpsOK!2!(d)'
    <3>1. Positions(d)' = Positions(d) /\ Updates(d)' = Updates(d)
      BY <1>3, <2>1 DEF Positions, Updates
    <3>2. pc'[d] = pc[d] /\ ops'[d] = ops[d] /\ pos'[d] = pos[d] /\ updated'[d] = updated[d]
      BY <1>2, <1>3, <2>1
    <3>3. OpsOK!2!(d)
      BY DEF OpsOK
    <3> QED
      BY <3>1, <3>2, <3>3
  <2>2. OpsOK!2!(c)'
    BY <1>2, <1>3, <1>4 DEF OpsOK, Positions, Updates
  <2> QED
    BY <1>3, <2>1, <2>2 DEF OpsOK
<1>7. PreparedOK'
  <2>1. UpdatedIds(c)' = UpdatedIds(c) /\ \A d \in Calls : UpdatedIds(d)' = UpdatedIds(d)
    BY <1>2 DEF UpdatedIds, Range
  <2> QED
    BY <1>2, <1>3, <2>1 DEF PreparedOK, Updates, Positions
<1>8. Unopened' /\ Accounted' /\ Gone'
  BY <1>1, <1>2, <1>3 DEF Unopened, Accounted, Gone, Working, Cleared
<1> QED
  BY <1>5, <1>6, <1>7, <1>8

\* A poll that succeeds, a reading of the rollback and a step of the nodes
\* leave every call where it is.
LEMMA StillInv ==
  ASSUME IInv, TypeOK',
         UNCHANGED <<contracts, cancelled, pc, ops, created, updated, doomed>>,
         DOMAIN node' \subseteq DOMAIN node \cup Live,
         \A d \in Calls : pos'[d] # pos[d] => pc[d] = "rollback"
  PROVE  IInv'
<1> USE DEF IInv, Live
<1>1. OpsOK'
  BY DEF OpsOK, Positions, Updates
<1>2. PreparedOK'
  BY DEF PreparedOK, UpdatedIds, Range, Updates, Positions
<1>3. Unopened' /\ Accounted' /\ Gone'
  BY DEF Unopened, Accounted, Gone
<1> QED
  BY <1>1, <1>2, <1>3

LEMMA BecomeReadyInv ==
  ASSUME IInv, NEW c \in Calls, NEW i \in Positions(c), BecomeReady(c, i) PROVE IInv'
<1>1. i \in Nat
  BY DEF IInv, OpsOK
<1>2. TypeOK'
  BY <1>1 DEF IInv, BecomeReady, TypeOK, Live, chainVars, nodeVars
<1> QED
  BY <1>2, StillInv DEF BecomeReady, chainVars, nodeVars

LEMMA ReadBackInv == ASSUME IInv, NEW c \in Calls, ReadBack(c) PROVE IInv'
<1>1. TypeOK'
  BY DEF IInv, ReadBack, TypeOK, Live, chainVars, nodeVars
<1>2. \A d \in Calls : pos'[d] # pos[d] => pc[d] = "rollback"
  BY DEF IInv, ReadBack, TypeOK
<1> QED
  BY <1>1, <1>2, StillInv DEF ReadBack, chainVars, nodeVars

\* What has dropped out of created is no longer on the chain.
LEMMA LookUpInv == ASSUME IInv, NEW c \in Calls, LookUp(c) PROVE IInv'
<1> USE DEF IInv, Live
<1>1. PICK k \in created[c] \ Live : created' = [created EXCEPT ![c] = @ \ {k}]
  BY DEF LookUp
<1>2. UNCHANGED <<contracts, cancelled, node, inflight, originals, pc, ops, pos, updated, doomed,
                  ready, restores, reply>>
  BY DEF LookUp, chainVars, nodeVars
<1>3. TypeOK'
  BY <1>1, <1>2 DEF TypeOK
<1>4. OpsOK'
  BY <1>2 DEF OpsOK, Positions, Updates
<1>5. PreparedOK'
  BY <1>2 DEF PreparedOK, UpdatedIds, Range, Updates, Positions
<1>6. Accounted'
  BY <1>1, <1>2 DEF Accounted, TypeOK
<1>7. Unopened' /\ Gone'
  BY <1>2 DEF Unopened, Gone
<1> QED
  BY <1>3, <1>4, <1>5, <1>6, <1>7

LEMMA NodeAcceptsInv == ASSUME IInv, NEW m \in inflight, NodeAccepts(m) PROVE IInv'
<1>1. m.id \in Live /\ DOMAIN node' = DOMAIN node \cup {m.id}
  BY DEF NodeAccepts
<1>2. \A k \in DOMAIN node' : /\ DOMAIN node'[k] = {"dep", "state"}
                            /\ node'[k].state \in {"init", "ok", "error"}
  BY DEF NodeAccepts, IInv, TypeOK
<1>3. reply' \in [Calls -> {"none", "ok"}]
  BY DEF NodeAccepts, IInv, TypeOK
<1>4. TypeOK'
  BY <1>1, <1>2, <1>3 DEF IInv, NodeAccepts, TypeOK, Live, chainVars
<1> QED
  BY <1>1, <1>4, StillInv DEF NodeAccepts, chainVars

LEMMA NodeRunsInv == ASSUME IInv, NEW k \in DOMAIN node, NodeRuns(k) PROVE IInv'
<1>1. PICK s \in {"ok", "error"} : node' = [node EXCEPT ![k].state = s]
  BY DEF NodeRuns
<1>2. DOMAIN node' = DOMAIN node
  BY <1>1
<1>3. \A j \in DOMAIN node' : /\ DOMAIN node'[j] = {"dep", "state"}
                            /\ node'[j].state \in {"init", "ok", "error"}
  <2>1. \A j \in DOMAIN node \ {k} : node'[j] = node[j]
    BY <1>1
  <2>2. node'[k] = [node[k] EXCEPT !.state = s]
    BY <1>1
  <2>3. DOMAIN node[k] = {"dep", "state"}
    BY DEF IInv, TypeOK
  <2> QED
    BY <1>2, <2>1, <2>2, <2>3 DEF IInv, TypeOK
<1>4. TypeOK'
  BY <1>2, <1>3 DEF IInv, NodeRuns, TypeOK, Live, chainVars
<1> QED
  BY <1>2, <1>4, StillInv DEF NodeRuns, chainVars

LEMMA NodeDropsInv == ASSUME IInv, NEW k \in DOMAIN node, NodeDrops(k) PROVE IInv'
<1>1. DOMAIN node' = DOMAIN node \ {k} /\ \A j \in DOMAIN node' : node'[j] = node[j]
  BY DEF NodeDrops, Without
<1>2. TypeOK'
  BY <1>1 DEF IInv, NodeDrops, TypeOK, Live, chainVars
<1> QED
  BY <1>1, <1>2, StillInv DEF NodeDrops, chainVars

-----------------------------------------------------------------------------
(* The three batches.                                                        *)

\* Every update has been prepared when the batch goes out, so that what its
\* results hold beside the updated contracts is what the call makes.
LEMMA CreatedIsFresh ==
  ASSUME IInv, NEW c \in Calls, pc[c] = "prepare", pos[c] \notin Positions(c)
  PROVE  CreatedContracts(c) = Fresh(c) /\ Fresh(c) \subseteq MadeBy(c)
<1>1. Positions(c) \subseteq 1..(pos[c] - 1)
  BY DEF IInv, OpsOK, PreparedOK, TypeOK
<1>2. {ops[c][i].id : i \in Updates(c)} \subseteq UpdatedIds(c)
  BY <1>1 DEF IInv, PreparedOK, Updates
<1>3. Fresh(c) \subseteq MadeBy(c)
  BY DEF Fresh, MadeBy, NodeContract, NameContract, Creates, Naming, Sent, Updates, IInv, OpsOK
<1>4. Fresh(c) \cap UpdatedIds(c) = {}
  BY <1>3 DEF IInv, PreparedOK
<1> QED
  BY <1>2, <1>3, <1>4 DEF CreatedContracts, ResultIds

LEMMA ReserveInv == ASSUME IInv, NEW c \in Calls, Reserve(c) PROVE IInv'
<1> USE DEF IInv, Live
<1>1. pc[c] = "prepare" /\ pos[c] \notin Positions(c)
  BY DEF Reserve
<1>2. Fresh(c) \subseteq MadeBy(c) /\ CreatedContracts(c) = Fresh(c)
  BY <1>1, CreatedIsFresh
<1>3. /\ DOMAIN contracts' = Live \cup Fresh(c)
      /\ \A k \in DOMAIN contracts' : DOMAIN contracts'[k] = {"dep", "name"}
  BY DEF Reserve, FreshContract, TypeOK
<1>4. /\ UNCHANGED <<cancelled, node, inflight, originals, ops, updated, doomed, ready,
                     restores, reply>>
      /\ pos' = [pos EXCEPT ![c] = 1]
      /\ \A d \in Calls : d # c => pc'[d] = pc[d] /\ created'[d] = created[d] /\ pos'[d] = pos[d]
      /\ \/ pc'[c] = "send" /\ created'[c] = Fresh(c)
         \/ pc'[c] \in {"hung", "lost"} /\ created'[c] = created[c]
      /\ pc' \in [Calls -> {"idle", "prepare", "send", "sendUpdate", "await", "wait",
                           "rollback", "resend", "awaitRestore"} \cup Terminal]
  BY <1>2 DEF Reserve, TypeOK, nodeVars, Terminal
<1>5. TypeOK'
  <2>1. Fresh(c) \subseteq ContractIds
    BY <1>2, MadeByTyped
  <2>2. created' \in [Calls -> SUBSET ContractIds]
    <3>1. CASE created' = [created EXCEPT ![c] = CreatedContracts(c)]
      BY <1>2, <2>1, <3>1 DEF TypeOK
    <3>2. CASE UNCHANGED created
      BY <3>2 DEF TypeOK
    <3> QED
      BY <3>1, <3>2 DEF Reserve
  <2>3. Live' \subseteq ContractIds
    BY <1>3, <2>1 DEF TypeOK
  <2>4. pos' \in [Calls -> Nat \ {0}]
    BY <1>4 DEF TypeOK
  <2> QED
    BY <1>3, <1>4, <2>2, <2>3, <2>4 DEF TypeOK
<1>6. OpsOK'
  BY <1>4 DEF OpsOK, Positions, Updates
<1>7. PreparedOK'
  BY <1>4 DEF PreparedOK, UpdatedIds, Range, Updates, Positions
<1>8. \A d \in Calls : d # c => MadeBy(d) \cap DOMAIN contracts' = MadeBy(d) \cap Live
  BY <1>2, <1>3, OwnersDiffer
<1>9. Unopened'
  BY <1>4, <1>8 DEF Unopened
<1>10. Accounted'
  <2>1. MadeBy(c) \cap Live = {}
    BY <1>1 DEF Unopened
  <2> QED
    BY <1>2, <1>3, <1>4, <1>8, <2>1 DEF Accounted, Working
<1>11. Gone'
  BY <1>4, <1>8 DEF Gone, Cleared
<1> QED
  BY <1>5, <1>6, <1>7, <1>9, <1>10, <1>11

LEMMA CancelDoomedInv == ASSUME IInv, NEW c \in Calls, CancelDoomed(c) PROVE IInv'
<1> USE DEF IInv, Live
<1>1. PICK p \in {"wait", "hung", "rollback"} : pc' = [pc EXCEPT ![c] = p]
  BY DEF CancelDoomed
<1>2. /\ pc[c] = "send" /\ pc'[c] = p
      /\ \A d \in Calls : d # c => pc'[d] = pc[d] /\ pos'[d] = pos[d]
      /\ pos' \in [Calls -> Nat \ {0}]
      /\ UNCHANGED <<node, inflight, originals, ops, created, updated, doomed, ready,
                     restores, reply>>
  <2>1. CASE UNCHANGED pos
    BY <1>1, <2>1 DEF CancelDoomed, TypeOK, nodeVars
  <2>2. CASE pos' = [pos EXCEPT ![c] = 1]
    BY <1>1, <2>2 DEF CancelDoomed, TypeOK, nodeVars
  <2> QED
    BY <2>1, <2>2 DEF CancelDoomed
<1>3. /\ doomed[c] \subseteq Live
      /\ DOMAIN contracts' = Live \ doomed[c]
      /\ \A k \in DOMAIN contracts' : contracts'[k] = contracts[k]
      /\ cancelled' = cancelled \cup doomed[c]
  BY DEF CancelDoomed, Without
<1>4. TypeOK'
  BY <1>1, <1>2, <1>3 DEF TypeOK, Terminal
<1>5. OpsOK'
  BY <1>2 DEF OpsOK, Positions, Updates
<1>6. PreparedOK'
  BY <1>2 DEF PreparedOK, UpdatedIds, Range, Updates, Positions
<1>7. Unopened' /\ Accounted' /\ Gone'
  BY <1>2, <1>3 DEF Unopened, Accounted, Gone, Working, Cleared
<1> QED
  BY <1>4, <1>5, <1>6, <1>7

LEMMA RevertInv == ASSUME IInv, NEW c \in Calls, Revert(c) PROVE IInv'
<1> USE DEF IInv, Live
<1>1. PICK p \in {"resend", "hung", "stuck"} : pc' = [pc EXCEPT ![c] = p]
  BY DEF Revert
<1>2. /\ pc[c] = "rollback" /\ pc'[c] = p
      /\ \A d \in Calls : d # c => pc'[d] = pc[d] /\ pos'[d] = pos[d]
      /\ pos' = [pos EXCEPT ![c] = 1]
      /\ UNCHANGED <<node, inflight, originals, ops, created, updated, doomed, ready,
                     restores, reply>>
  BY <1>1 DEF Revert, TypeOK, nodeVars
<1>3. /\ created[c] \subseteq Live
      /\ DOMAIN contracts' = Live \ created[c]
      /\ \A k \in DOMAIN contracts' : DOMAIN contracts'[k] = {"dep", "name"}
      /\ cancelled' = cancelled \cup created[c]
  BY DEF Revert, TypeOK
<1>4. TypeOK'
  BY <1>1, <1>2, <1>3 DEF TypeOK, Terminal
<1>5. OpsOK'
  BY <1>2 DEF OpsOK, Positions, Updates
<1>6. PreparedOK'
  BY <1>2 DEF PreparedOK, UpdatedIds, Range, Updates, Positions
<1>7. Unopened' /\ Accounted' /\ Gone'
  BY <1>2, <1>3 DEF Unopened, Accounted, Gone, Working, Cleared
<1> QED
  BY <1>4, <1>5, <1>6, <1>7

-----------------------------------------------------------------------------
LEMMA NextInv == IInv /\ [Next]_vars => IInv'
<1> SUFFICES ASSUME IInv, [Next]_vars PROVE IInv'
  OBVIOUS
<1>1. ASSUME NEW c \in Calls, Submit(c) PROVE IInv'
  BY <1>1, SubmitInv
<1>2. ASSUME NEW c \in Calls, Step(c) PROVE IInv'
  <2>1. CASE Prepare(c) \/ Reserve(c) \/ Refuse(c)
    BY <2>1, PrepareInv, ReserveInv, RefuseInv
  <2>2. CASE ReadOriginal(c) \/ Send(c) \/ Answered(c) \/ CancelDoomed(c)
    BY <2>2, ReadOriginalInv, SendInv, AnsweredInv, CancelDoomedInv
  <2>3. CASE \E i \in Positions(c) : BecomeReady(c, i)
    BY <2>3, BecomeReadyInv
  <2>4. CASE Finish(c) \/ Throw(c) \/ LookUp(c)
    BY <2>4, FinishInv, ThrowInv, LookUpInv
  <2>5. CASE \/ ReadBack(c) \/ Revert(c) \/ Resend(c)
             \/ Restored(c) \/ RolledBack(c) \/ Abandon(c) \/ Hang(c)
    BY <2>5, ReadBackInv, RevertInv, ResendInv, RestoredInv, RolledBackInv, AbandonInv, HangInv
  <2> QED
    BY <1>2, <2>1, <2>2, <2>3, <2>4, <2>5 DEF Step
<1>3. CASE NodeStep
  BY <1>3, NodeAcceptsInv, NodeRunsInv, NodeDropsInv DEF NodeStep
<1>4. ASSUME NEW c \in Calls, Silence(c) PROVE IInv'
  BY <1>4, SilenceInv
<1>5. CASE UNCHANGED vars
  BY <1>5, StillInv DEF vars, IInv, TypeOK, Live
<1> QED
  BY <1>1, <1>2, <1>3, <1>4, <1>5 DEF Next

LEMMA Invariance == Spec => []IInv
BY InitInv, NextInv, PTL DEF Spec

\* The variables keep the shape the handler, the chain and the nodes give them.
THEOREM TypeCorrect == Spec => []TypeOK
<1>1. IInv => TypeOK
  BY DEF IInv
<1> QED
  BY <1>1, Invariance, PTL

\* A call of handle() that fails, before its batch or after its rollback,
\* leaves none of the contracts it made on the chain.
THEOREM FailedCallsLeaveNothing == Spec => []FailureLeavesNothing
<1>1. IInv => FailureLeavesNothing
  BY DEF IInv, Gone, Cleared, FailureLeavesNothing
<1> QED
  BY <1>1, Invariance, PTL

\* Steps that leave the chain's contracts alone.
LEMMA ChainUntouched ==
  ASSUME NEW c \in Calls, Step(c)
  PROVE  Reserve(c) \/ CancelDoomed(c) \/ Revert(c) \/ UNCHANGED contracts
<1> USE DEF chainVars
<1>1. Prepare(c) \/ Refuse(c) \/ ReadOriginal(c) \/ Send(c) \/ Answered(c) => UNCHANGED contracts
  BY DEF Prepare, Refuse, ReadOriginal, Send, Answered
<1>2. (\E i \in Positions(c) : BecomeReady(c, i)) \/ Finish(c) \/ Throw(c) => UNCHANGED contracts
  BY DEF BecomeReady, Finish, Throw
<1>3. \/ ReadBack(c) \/ Resend(c) \/ Restored(c) \/ RolledBack(c) \/ Abandon(c) \/ Hang(c) \/ LookUp(c)
      => UNCHANGED contracts
  BY DEF ReadBack, Resend, Restored, RolledBack, Abandon, Hang, LookUp, Silence
<1> QED
  BY <1>1, <1>2, <1>3 DEF Step

-----------------------------------------------------------------------------
(* The refinement of AtomicProvisioning.                                     *)

LEMMA PhaseMoves ==
  ASSUME NEW c \in Calls, NEW p, DOMAIN pc = Calls, pc' = [pc EXCEPT ![c] = p]
  PROVE  Phase' = [Phase EXCEPT ![c] = PhaseOf(p)] /\ Phase[c] = PhaseOf(pc[c])
BY DEF Phase

LEMMA PhaseStays ==
  ASSUME NEW c \in Calls, NEW p, DOMAIN pc = Calls, pc' = [pc EXCEPT ![c] = p],
         PhaseOf(p) = PhaseOf(pc[c])
  PROVE  Phase' = Phase
<1>1. Phase' = [Phase EXCEPT ![c] = PhaseOf(p)] /\ Phase[c] = PhaseOf(pc[c])
  BY PhaseMoves
<1> QED
  BY <1>1 DEF Phase

LEMMA InitAtomic == Init => Atomic!Init
BY DEF Init, Atomic!Init, Live, Phase, PhaseOf

\* Each step of a call is a step of its transaction or hidden.
LEMMA StepAtomic ==
  ASSUME IInv, NEW c \in Calls, Submit(c) \/ Step(c) \/ Silence(c)
  PROVE  Atomic!Next \/ (Live' = Live /\ Phase' = Phase)
<1> USE DEF IInv, Live
<1>1. DOMAIN pc = Calls
  BY DEF TypeOK, Terminal
<1>2. ASSUME pc' = pc, contracts' = contracts PROVE Live' = Live /\ Phase' = Phase
  BY <1>2 DEF Phase
<1>3. CASE Submit(c)
  <2>1. PICK p \in CheckOutcomes : pc' = [pc EXCEPT ![c] = p]
    BY <1>3 DEF Submit
  <2>2. Phase' = [Phase EXCEPT ![c] = PhaseOf(p)] /\ Phase[c] = PhaseOf(pc[c])
    BY <1>1, <2>1, PhaseMoves
  <2>3. contracts' = contracts /\ Phase[c] = "idle"
    BY <1>3, <2>2 DEF Submit, chainVars, PhaseOf
  <2>4. CASE p = "prepare"
    BY <1>1, <1>3, <2>1, <2>3, <2>4, PhaseStays DEF Submit, PhaseOf
  <2>5. CASE p = "failed"
    BY <2>2, <2>3, <2>5 DEF PhaseOf, Atomic!Next, Atomic!GiveUp, Atomic!Become
  <2>6. CASE p = "mute"
    BY <2>2, <2>3, <2>6 DEF PhaseOf, Atomic!Next, Atomic!Hang, Atomic!Become
  <2> QED
    BY <2>4, <2>5, <2>6 DEF CheckOutcomes
<1>4. CASE \/ Prepare(c) \/ (\E i \in Positions(c) : BecomeReady(c, i))
          \/ LookUp(c) \/ ReadBack(c)
  BY <1>2, <1>4 DEF Prepare, BecomeReady, LookUp, ReadBack, chainVars
<1>5. CASE Reserve(c)
  <2>1. PICK p \in {"send", "hung", "lost"} : pc' = [pc EXCEPT ![c] = p]
    BY <1>5 DEF Reserve
  <2>2. Phase' = [Phase EXCEPT ![c] = PhaseOf(p)] /\ Phase[c] = PhaseOf(pc[c])
    BY <1>1, <2>1, PhaseMoves
  <2>3. PhaseOf(p) \in {"open", "hung", "lost"} /\ Phase[c] = "idle"
    BY <1>5, <2>2 DEF Reserve, PhaseOf
  <2>4. Fresh(c) \subseteq MadeBy(c) /\ DOMAIN contracts' = DOMAIN contracts \cup Fresh(c)
    BY <1>5, CreatedIsFresh DEF Reserve
  <2>5. Atomic!Open(c)
    BY <2>2, <2>3, <2>4 DEF Atomic!Open, Atomic!Become
  <2> QED
    BY <2>5 DEF Atomic!Next
<1>6. CASE Refuse(c)
  <2>1. pc' = [pc EXCEPT ![c] = "failed"] /\ pc[c] = "prepare" /\ contracts' = contracts
    BY <1>6 DEF Refuse, chainVars
  <2>2. Phase' = [Phase EXCEPT ![c] = PhaseOf("failed")] /\ Phase[c] = PhaseOf(pc[c])
    BY <1>1, <2>1, PhaseMoves
  <2> QED
    BY <2>1, <2>2 DEF PhaseOf, Atomic!Next, Atomic!GiveUp, Atomic!Become
<1>7. CASE ReadOriginal(c)
  BY <1>1, <1>7, PhaseStays DEF ReadOriginal, PhaseOf, chainVars
<1>8. CASE Send(c)
  BY <1>1, <1>8, PhaseStays DEF Send, PhaseOf, chainVars
<1>9. CASE Answered(c)
  BY <1>1, <1>9, PhaseStays DEF Answered, PhaseOf, chainVars
<1>10. CASE CancelDoomed(c)
  <2>1. PICK p \in {"wait", "hung", "rollback"} : pc' = [pc EXCEPT ![c] = p]
    BY <1>10 DEF CancelDoomed
  <2>2. Phase' = [Phase EXCEPT ![c] = PhaseOf(p)] /\ Phase[c] = PhaseOf(pc[c])
    BY <1>1, <2>1, PhaseMoves
  <2>3. PhaseOf(p) \in {"sealed", "hung", "retreating"} /\ Phase[c] = "open"
    BY <1>10, <2>2 DEF CancelDoomed, PhaseOf
  <2>4. DOMAIN contracts' = DOMAIN contracts \ doomed[c] /\ doomed[c] \cap MadeBy(c) = {}
    BY <1>10 DEF CancelDoomed, Without, PreparedOK
  <2>5. Atomic!Seal(c)
    BY <2>2, <2>3, <2>4 DEF Atomic!Seal, Atomic!Become
  <2> QED
    BY <2>5 DEF Atomic!Next
<1>11. CASE Finish(c)
  <2>1. pc' = [pc EXCEPT ![c] = "done"] /\ pc[c] = "wait" /\ contracts' = contracts
    BY <1>11 DEF Finish, chainVars
  <2>2. Phase' = [Phase EXCEPT ![c] = PhaseOf("done")] /\ Phase[c] = PhaseOf(pc[c])
    BY <1>1, <2>1, PhaseMoves
  <2> QED
    BY <2>1, <2>2 DEF PhaseOf, Atomic!Next, Atomic!Commit, Atomic!Become
<1>12. CASE Throw(c)
  <2>1. /\ pc' = [pc EXCEPT ![c] = "rollback"] /\ contracts' = contracts
        /\ pc[c] \in {"send", "sendUpdate", "await", "wait"}
    BY <1>12 DEF Throw, chainVars
  <2>2. Phase' = [Phase EXCEPT ![c] = PhaseOf("rollback")] /\ Phase[c] = PhaseOf(pc[c])
    BY <1>1, <2>1, PhaseMoves
  <2> QED
    BY <2>1, <2>2 DEF PhaseOf, Atomic!Next, Atomic!Retreat, Atomic!Become
<1>13. CASE Revert(c)
  <2>1. PICK p \in {"resend", "hung", "stuck"} : pc' = [pc EXCEPT ![c] = p]
    BY <1>13 DEF Revert
  <2>2. Phase' = [Phase EXCEPT ![c] = PhaseOf(p)] /\ Phase[c] = PhaseOf(pc[c])
    BY <1>1, <2>1, PhaseMoves
  <2>3. PhaseOf(p) \in {"aborted", "hung", "stuck"} /\ Phase[c] = "retreating"
    BY <1>13, <2>2 DEF Revert, PhaseOf
  <2>4. DOMAIN contracts' = DOMAIN contracts \ MadeBy(c)
    BY <1>13 DEF Revert, Accounted, Working
  <2>5. Atomic!Abort(c)
    BY <2>2, <2>3, <2>4 DEF Atomic!Abort, Atomic!Become
  <2> QED
    BY <2>5 DEF Atomic!Next
<1>14. CASE Resend(c)
  BY <1>1, <1>14, PhaseStays DEF Resend, PhaseOf, chainVars
<1>15. CASE Restored(c)
  BY <1>1, <1>15, PhaseStays DEF Restored, PhaseOf, chainVars
<1>16. CASE RolledBack(c)
  BY <1>1, <1>16, PhaseStays DEF RolledBack, PhaseOf, chainVars
<1>17. CASE Abandon(c)
  <2>1. CASE pc[c] = "rollback"
    <3>1. pc' = [pc EXCEPT ![c] = "stuck"] /\ contracts' = contracts
      BY <1>17, <1>1, <2>1 DEF Abandon, chainVars
    <3>2. Phase' = [Phase EXCEPT ![c] = PhaseOf("stuck")] /\ Phase[c] = PhaseOf(pc[c])
      BY <1>1, <3>1, PhaseMoves
    <3> QED
      BY <2>1, <3>1, <3>2 DEF PhaseOf, Atomic!Next, Atomic!Break, Atomic!Become
  <2>2. CASE pc[c] # "rollback"
    <3>1. pc' = [pc EXCEPT ![c] = "unrestored"] /\ contracts' = contracts
      BY <1>17, <1>1, <2>2 DEF Abandon, chainVars
    <3> QED
      BY <1>1, <1>17, <2>2, <3>1, PhaseStays DEF Abandon, PhaseOf
  <2> QED
    BY <2>1, <2>2
<1>18. CASE Hang(c)
  <2>1. /\ pc' = [pc EXCEPT ![c] = "hung"] /\ contracts' = contracts
        /\ pc[c] \in {"prepare", "send", "rollback"}
    BY <1>18 DEF Hang, AtBatch, chainVars
  <2>2. Phase' = [Phase EXCEPT ![c] = PhaseOf("hung")] /\ Phase[c] = PhaseOf(pc[c])
    BY <1>1, <2>1, PhaseMoves
  <2> QED
    BY <2>1, <2>2 DEF PhaseOf, Atomic!Next, Atomic!Hang, Atomic!Become
<1>19. CASE Silence(c)
  <2>1. /\ pc' = [pc EXCEPT ![c] = "mute"] /\ contracts' = contracts
        /\ pc[c] \in {"send", "rollback", "wait", "await", "awaitRestore"}
    BY <1>19 DEF Silence, Asking, chainVars
  <2>2. Phase' = [Phase EXCEPT ![c] = PhaseOf("mute")] /\ Phase[c] = PhaseOf(pc[c])
    BY <1>1, <2>1, PhaseMoves
  <2> QED
    BY <2>1, <2>2 DEF PhaseOf, Atomic!Next, Atomic!Hang, Atomic!Become
<1> QED
  BY <1>3, <1>4, <1>5, <1>6, <1>7, <1>8, <1>9, <1>10, <1>11, <1>12, <1>13, <1>14, <1>15,
     <1>16, <1>17, <1>18, <1>19 DEF Step

\* On the chain handle() is an atomic transaction: its contracts appear in one
\* step and, if it rolls back, disappear in one, and its deletions, in one step
\* too, never touch what it made.
THEOREM HandleIsAtomic == Spec => AllOrNothing
<1>1. Init => Atomic!Init
  BY InitAtomic
<1>2. IInv /\ [Next]_vars => [Atomic!Next]_<<Live, Phase>>
  <2> SUFFICES ASSUME IInv, [Next]_vars PROVE Atomic!Next \/ (Live' = Live /\ Phase' = Phase)
    OBVIOUS
  <2>1. CASE \E c \in Calls : Submit(c) \/ Step(c) \/ Silence(c)
    BY <2>1, StepAtomic
  <2>2. CASE NodeStep
    BY <2>2 DEF NodeStep, NodeAccepts, NodeRuns, NodeDrops, chainVars, Live, Phase
  <2>3. CASE UNCHANGED vars
    BY <2>3 DEF vars, Live, Phase
  <2> QED
    BY <2>1, <2>2, <2>3 DEF Next
<1> QED
  BY <1>1, <1>2, Invariance, PTL DEF Spec, AllOrNothing, Atomic!Spec

-----------------------------------------------------------------------------
(* What a call has been told is on a node stays there.                       *)

\* Versions are numbers; a node takes the first one from a creation.
VersionsOK ==
  /\ \A k \in DOMAIN node : node[k].dep.version \in Nat
  /\ \A m \in inflight : m.verb = "deploy" => m.dep.version \in Nat
  /\ \A c \in Calls : \A i \in Sent(c) : ops[c][i].dep.version \in Nat

\* The deletions come last, as merge() leaves them.
RankedOK == \A c \in Calls : \A i, j \in Positions(c) : i < j /\ j \in Sent(c) => i \in Sent(c)

Settled(c, i) ==
  \/ ops[c][i].id \in cancelled
  \/ /\ ops[c][i].id \in DOMAIN node
     /\ node[ops[c][i].id].dep.version >= ops[c][i].dep.version

\* The loop has had the answer of the node for every operation behind it.
SettledOK(c) ==
  /\ pc[c] \in {"send", "sendUpdate", "await"} =>
       \A i \in Sent(c) : i < pos[c] => Settled(c, i)
  /\ pc[c] = "await" => pos[c] \in Sent(c) /\ (reply[c] = "ok" => Settled(c, pos[c]))
  /\ pc[c] \in {"wait", "done"} => \A i \in Sent(c) : Settled(c, i)

Placed == VersionsOK /\ RankedOK /\ \A c \in Calls : SettledOK(c)

\* A call changes neither what the nodes hold nor where another call is.
LEMMA CallsApart ==
  ASSUME IInv, NEW c \in Calls, Submit(c) \/ Step(c) \/ Silence(c)
  PROVE  /\ node' = node /\ cancelled \subseteq cancelled'
         /\ \A d \in Calls : d # c => /\ pc'[d] = pc[d] /\ pos'[d] = pos[d]
                                      /\ ops'[d] = ops[d] /\ reply'[d] = reply[d]
<1> USE DEF chainVars, nodeVars
<1>0. DOMAIN pc = Calls /\ DOMAIN pos = Calls /\ DOMAIN ops = Calls /\ DOMAIN reply = Calls
  BY DEF IInv, TypeOK, OpsOK
<1>1. CASE Submit(c)
  BY <1>0, <1>1 DEF Submit
<1>2. CASE Prepare(c) \/ Reserve(c) \/ Refuse(c)
  BY <1>0, <1>2 DEF Prepare, Reserve, Refuse
<1>3. CASE ReadOriginal(c) \/ Send(c) \/ Answered(c)
  BY <1>0, <1>3 DEF ReadOriginal, Send, Answered
<1>4. CASE CancelDoomed(c)
  BY <1>0, <1>4 DEF CancelDoomed
<1>5. CASE (\E i \in Positions(c) : BecomeReady(c, i)) \/ Finish(c) \/ Throw(c)
  BY <1>0, <1>5 DEF BecomeReady, Finish, Throw
<1>6. CASE ReadBack(c) \/ Resend(c) \/ Restored(c) \/ RolledBack(c)
  BY <1>0, <1>6 DEF ReadBack, Resend, Restored, RolledBack
<1>7. CASE Revert(c)
  BY <1>0, <1>7 DEF Revert
<1>8. CASE Abandon(c) \/ Hang(c) \/ LookUp(c) \/ Silence(c)
  BY <1>0, <1>8 DEF Abandon, Hang, LookUp, Silence
<1> QED
  BY <1>1, <1>2, <1>3, <1>4, <1>5, <1>6, <1>7, <1>8 DEF Step

\* A deployment leaves its node only when its contract is cancelled, and its
\* version only grows.
LEMMA NodesOnlyGrow ==
  ASSUME VersionsOK, NodeStep
  PROVE  /\ cancelled' = cancelled
         /\ \A k \in DOMAIN node' : node'[k].dep.version \in Nat
         /\ \A k \in DOMAIN node \ cancelled :
              k \in DOMAIN node' /\ node'[k].dep.version >= node[k].dep.version
<1>1. ASSUME NEW m \in inflight, NodeAccepts(m)
      PROVE  /\ cancelled' = cancelled
             /\ \A k \in DOMAIN node' : node'[k].dep.version \in Nat
             /\ \A k \in DOMAIN node \ cancelled :
                  k \in DOMAIN node' /\ node'[k].dep.version >= node[k].dep.version
  <2>1. /\ DOMAIN node' = DOMAIN node \cup {m.id}
        /\ node'[m.id].dep = m.dep
        /\ \A k \in DOMAIN node : k # m.id => node'[k] = node[k]
        /\ cancelled' = cancelled
    BY <1>1 DEF NodeAccepts, chainVars
  <2>2. CASE m.verb = "deploy"
    BY <1>1, <2>1, <2>2 DEF NodeAccepts, VersionsOK
  <2>3. CASE m.verb # "deploy"
    <3>1. m.id \in DOMAIN node /\ node[m.id].dep.version + 1 = m.dep.version
      BY <1>1, <2>3 DEF NodeAccepts
    <3>2. node[m.id].dep.version \in Nat
      BY <3>1 DEF VersionsOK
    <3>3. m.dep.version \in Nat /\ m.dep.version >= node[m.id].dep.version
      BY <3>1, <3>2
    <3> QED
      BY <2>1, <3>3 DEF VersionsOK
  <2> QED
    BY <2>2, <2>3
<1>2. ASSUME NEW k \in DOMAIN node, NodeRuns(k)
      PROVE  /\ cancelled' = cancelled /\ DOMAIN node' = DOMAIN node
             /\ \A j \in DOMAIN node : node'[j].dep = node[j].dep
  BY <1>2 DEF NodeRuns, chainVars
<1>3. ASSUME NEW k \in DOMAIN node, NodeDrops(k)
      PROVE  /\ cancelled' = cancelled /\ k \in cancelled /\ DOMAIN node' = DOMAIN node \ {k}
             /\ \A j \in DOMAIN node \ {k} : node'[j] = node[j]
  BY <1>3 DEF NodeDrops, Without, chainVars
<1>4. CASE \E m \in inflight : NodeAccepts(m)
  BY <1>1, <1>4
<1>5. CASE \E k \in DOMAIN node : NodeRuns(k)
  BY <1>2, <1>5 DEF VersionsOK
<1>6. CASE \E k \in DOMAIN node : NodeDrops(k)
  <2>1. PICK k \in DOMAIN node : NodeDrops(k)
    BY <1>6
  <2>2. /\ cancelled' = cancelled /\ k \in cancelled /\ DOMAIN node' = DOMAIN node \ {k}
        /\ \A j \in DOMAIN node \ {k} : node'[j] = node[j]
    BY <1>3, <2>1
  <2>3. \A j \in DOMAIN node \ {k} : node'[j].dep.version \in Nat
    BY <2>2 DEF VersionsOK
  <2>4. \A j \in DOMAIN node \ cancelled :
          j \in DOMAIN node' /\ node'[j].dep.version = node[j].dep.version
    BY <2>2
  <2> QED
    BY <2>2, <2>3, <2>4 DEF VersionsOK
<1> QED
  BY <1>4, <1>5, <1>6 DEF NodeStep

\* What is settled stays settled while its call leaves the operation alone.
LEMMA SettledStays ==
  ASSUME VersionsOK, NEW c \in Calls, NEW i, Settled(c, i), ops'[c][i] = ops[c][i],
         cancelled \subseteq cancelled', node' = node \/ NodeStep,
         ops[c][i].dep.version \in Nat
  PROVE  Settled(c, i)'
<1> DEFINE o == ops[c][i]
<1>1. CASE o.id \in cancelled
  BY <1>1 DEF Settled
<1>2. CASE o.id \notin cancelled
  <2>1. /\ o.id \in DOMAIN node /\ node[o.id].dep.version >= o.dep.version
        /\ node[o.id].dep.version \in Nat
    BY <1>2 DEF Settled, VersionsOK
  <2>2. CASE node' = node
    BY <2>1, <2>2 DEF Settled
  <2>3. CASE NodeStep
    <3>1. /\ o.id \in DOMAIN node' /\ node'[o.id].dep.version >= node[o.id].dep.version
          /\ node'[o.id].dep.version \in Nat
      BY <1>2, <2>1, <2>3, NodesOnlyGrow
    <3>2. node'[o.id].dep.version >= o.dep.version
      BY <2>1, <3>1
    <3> QED
      BY <3>1, <3>2 DEF Settled
  <2> QED
    BY <2>2, <2>3
<1> QED
  BY <1>1, <1>2

LEMMA PlacedInit == Init => Placed
<1> SUFFICES ASSUME Init PROVE Placed
  OBVIOUS
<1>1. \A c \in Calls : Positions(c) = {} /\ pc[c] = "idle"
  BY DEF Init, Positions
<1>2. VersionsOK
  BY <1>1 DEF Init, VersionsOK, Sent, Creates, Updates
<1> QED
  BY <1>1, <1>2 DEF Placed, RankedOK, SettledOK

\* The list of a new call: creations at version 0, updates one version after
\* what the node holds, deletions last.
LEMMA SubmitPlaced ==
  ASSUME IInv, Placed, NEW c \in Calls, Submit(c)
  PROVE  /\ \A i \in Sent(c)' : ops'[c][i].dep.version \in Nat
         /\ \A i, j \in Positions(c)' : i < j /\ j \in Sent(c)' => i \in Sent(c)'
<1>1. PICK r \in Requests : /\ \A i \in DOMAIN r : Needed(r[i])
                            /\ ops' = [ops EXCEPT ![c] = [i \in DOMAIN r |-> Resolve(r[i])]]
  BY DEF Submit
<1>2. ops'[c] = [i \in DOMAIN r |-> Resolve(r[i])]
  BY <1>1 DEF IInv, OpsOK
<1>3. Positions(c)' = DOMAIN r /\ \A i \in DOMAIN r : ops'[c][i] = Resolve(r[i])
  BY <1>2 DEF Positions
<1>4. \A i \in DOMAIN r : Resolve(r[i]).verb = r[i].verb
  BY DEF Resolve
<1>5. Sent(c)' = {i \in DOMAIN r : r[i].verb \in {"deploy", "update"}}
  BY <1>3, <1>4 DEF Sent, Creates, Updates
<1>6. ASSUME NEW i \in DOMAIN r, r[i].verb = "deploy"
      PROVE  Resolve(r[i]).dep.version \in Nat
  BY <1>6 DEF Resolve
<1>7. ASSUME NEW i \in DOMAIN r, r[i].verb = "update"
      PROVE  Resolve(r[i]).dep.version \in Nat
  <2>1. node[r[i].target].dep.version \in Nat
    BY <1>1, <1>7 DEF Needed, Placed, VersionsOK
  <2> QED
    BY <1>7, <2>1 DEF Resolve
<1>8. \A i, j \in DOMAIN r : i < j /\ r[j].verb \in {"deploy", "update"}
                              => r[i].verb \in {"deploy", "update"}
  BY TwinAssumption DEF Ranked
<1> QED
  BY <1>3, <1>5, <1>6, <1>7, <1>8

\* Only Submit gives a call its list; sending fills in an id.
LEMMA ListKept ==
  ASSUME IInv, NEW c \in Calls, Step(c) \/ Silence(c)
  PROVE  /\ Positions(c)' = Positions(c) /\ Sent(c)' = Sent(c)
         /\ \A i \in Positions(c) : ops'[c][i].dep = ops[c][i].dep
         /\ \A i \in Positions(c) : i # pos[c] => ops'[c][i] = ops[c][i]
         /\ ~Send(c) => ops' = ops
<1> USE DEF chainVars, nodeVars
<1>1. CASE Send(c)
  <2>1. PICK id : ops' = [ops EXCEPT ![c][pos[c]].id = id]
    BY <1>1 DEF Send
  <2>2. c \in DOMAIN ops
    BY DEF IInv, OpsOK
  <2>3. /\ DOMAIN ops'[c] = DOMAIN ops[c]
        /\ \A i \in Positions(c) : ops'[c][i] = IF i = pos[c] THEN [ops[c][i] EXCEPT !.id = id]
                                                ELSE ops[c][i]
    BY <2>1, <2>2 DEF Positions
  <2>4. \A i \in Positions(c) : DOMAIN ops[c][i] = {"verb", "id", "name", "dep"}
    BY DEF IInv, OpsOK
  <2>5. \A i \in Positions(c) : ops'[c][i].dep = ops[c][i].dep /\ ops'[c][i].verb = ops[c][i].verb
    BY <2>3, <2>4
  <2> QED
    BY <1>1, <2>3, <2>5 DEF Positions, Sent, Creates, Updates
<1>2. CASE Prepare(c) \/ Reserve(c) \/ Refuse(c) \/ ReadOriginal(c) \/ Answered(c) \/ CancelDoomed(c)
  BY <1>2 DEF Prepare, Reserve, Refuse, ReadOriginal, Answered, CancelDoomed, Positions,
              Sent, Creates, Updates
<1>3. CASE (\E i \in Positions(c) : BecomeReady(c, i)) \/ Finish(c) \/ Throw(c)
  BY <1>3 DEF BecomeReady, Finish, Throw, Positions, Sent, Creates, Updates
<1>4. CASE \/ ReadBack(c) \/ Revert(c) \/ Resend(c) \/ Restored(c) \/ RolledBack(c)
           \/ Abandon(c) \/ Hang(c) \/ LookUp(c) \/ Silence(c)
  BY <1>4 DEF ReadBack, Revert, Resend, Restored, RolledBack, Abandon, Hang, LookUp, Silence,
              Positions, Sent, Creates, Updates
<1> QED
  BY <1>1, <1>2, <1>3, <1>4 DEF Step

LEMMA VersionsKept == ASSUME IInv, Placed, Next PROVE VersionsOK'
<1> USE DEF chainVars, nodeVars
<1>1. ASSUME NEW c \in Calls, Submit(c) \/ Step(c) \/ Silence(c), NEW m \in inflight' \ inflight,
             m.verb = "deploy"
      PROVE  m.dep.version \in Nat
  <2>1. Send(c) \/ Resend(c)
    BY <1>1 DEF Step, Submit, Prepare, Reserve, Refuse, ReadOriginal, Answered, CancelDoomed,
                BecomeReady, Finish, Throw, ReadBack, Revert, Restored, RolledBack, Abandon, Hang, LookUp, Silence
  <2>2. Send(c) /\ m.dep = ops[c][pos[c]].dep /\ m.verb = ops[c][pos[c]].verb
    BY <1>1, <2>1 DEF Send, Resend, Message
  <2>3. pos[c] \in Sent(c)
    BY <2>2 DEF Send, IInv, OpsOK, Sent
  <2> QED
    BY <2>2, <2>3 DEF Placed, VersionsOK
<1>2. ASSUME NEW c \in Calls, Submit(c) \/ Step(c) \/ Silence(c) PROVE VersionsOK'
  <2>1. node' = node /\ \A m \in inflight' : m.verb = "deploy" => m.dep.version \in Nat
    BY <1>1, <1>2, CallsApart DEF Placed, VersionsOK
  <2>2. \A i \in Sent(c)' : ops'[c][i].dep.version \in Nat
    <3>1. CASE Submit(c)
      BY <3>1, SubmitPlaced
    <3>2. CASE Step(c) \/ Silence(c)
      BY <3>2, ListKept DEF Placed, VersionsOK, Sent, Creates, Updates
    <3> QED
      BY <1>2, <3>1, <3>2
  <2>3. \A d \in Calls : d # c => Sent(d)' = Sent(d) /\ ops'[d] = ops[d]
    BY <1>2, CallsApart DEF Sent, Creates, Updates, Positions
  <2> QED
    BY <2>1, <2>2, <2>3 DEF Placed, VersionsOK
<1>3. CASE NodeStep
  <2>1. \A k \in DOMAIN node' : node'[k].dep.version \in Nat
    BY <1>3, NodesOnlyGrow DEF Placed
  <2>2. inflight' \subseteq inflight /\ ops' = ops
    BY <1>3 DEF NodeStep, NodeAccepts, NodeRuns, NodeDrops
  <2> QED
    BY <2>1, <2>2 DEF Placed, VersionsOK, Sent, Creates, Updates, Positions
<1> QED
  BY <1>2, <1>3 DEF Next

LEMMA RanksKept == ASSUME IInv, Placed, Next PROVE RankedOK'
<1>1. ASSUME NEW c \in Calls, Submit(c) \/ Step(c) \/ Silence(c) PROVE RankedOK'
  <2>1. \A i, j \in Positions(c)' : i < j /\ j \in Sent(c)' => i \in Sent(c)'
    <3>1. CASE Submit(c)
      BY <3>1, SubmitPlaced
    <3>2. CASE Step(c) \/ Silence(c)
      BY <3>2, ListKept DEF Placed, RankedOK
    <3> QED
      BY <1>1, <3>1, <3>2
  <2>2. \A d \in Calls : d # c => Sent(d)' = Sent(d) /\ Positions(d)' = Positions(d)
    BY <1>1, CallsApart DEF Sent, Creates, Updates, Positions
  <2> QED
    BY <2>1, <2>2 DEF Placed, RankedOK
<1>2. CASE NodeStep
  BY <1>2 DEF NodeStep, NodeAccepts, NodeRuns, NodeDrops, Placed, RankedOK, Sent, Creates,
              Updates, Positions
<1> QED
  BY <1>1, <1>2 DEF Next

\* A call that is left where it is.
LEMMA SettledElsewhere ==
  ASSUME IInv, Placed, NEW d \in Calls, node' = node \/ NodeStep, cancelled \subseteq cancelled',
         pc'[d] = pc[d], pos'[d] = pos[d], ops'[d] = ops[d], reply'[d] = reply[d]
  PROVE  SettledOK(d)'
<1>1. Sent(d)' = Sent(d)
  BY DEF Sent, Creates, Updates, Positions
<1>2. \A i \in Sent(d) : Settled(d, i) => Settled(d, i)'
  BY SettledStays DEF Placed, VersionsOK
<1> QED
  BY <1>1, <1>2 DEF Placed, SettledOK

\* The node's answer settles the operation it answers.
LEMMA AnswerSettles ==
  ASSUME IInv, Placed, NodeStep, NEW d \in Calls PROVE SettledOK(d)'
<1>1. /\ pc' = pc /\ pos' = pos /\ ops' = ops /\ cancelled' = cancelled
  BY DEF NodeStep, NodeAccepts, NodeRuns, NodeDrops, chainVars
<1>2. CASE reply'[d] = reply[d]
  BY <1>1, <1>2, SettledElsewhere
<1>3. CASE reply'[d] # reply[d]
  <2>1. PICK m \in inflight : NodeAccepts(m) /\ Awaits(d, m)
    <3>1. ~ \E k \in DOMAIN node : NodeRuns(k) \/ NodeDrops(k)
      BY <1>3 DEF NodeRuns, NodeDrops
    <3>2. PICK m \in inflight : NodeAccepts(m)
      BY <3>1 DEF NodeStep
    <3>3. reply' = [c \in Calls |-> IF c = m.from /\ Awaits(c, m) THEN "ok" ELSE reply[c]]
      BY <3>2 DEF NodeAccepts
    <3>4. Awaits(d, m)
      BY <1>3, <3>3 DEF IInv, TypeOK
    <3> QED
      BY <3>2, <3>4
  <2>2. \A i \in Sent(d) : Settled(d, i) => Settled(d, i)'
    BY <1>1, SettledStays DEF Placed, VersionsOK
  <2>3. Sent(d)' = Sent(d)
    BY <1>1 DEF Sent, Creates, Updates, Positions
  <2>4. CASE pc[d] = "await"
    <3>1. m.id = ops[d][pos[d]].id /\ m.dep = ops[d][pos[d]].dep
      BY <2>1, <2>4 DEF Awaits, Message
    <3>2. m.id \in DOMAIN node' /\ node'[m.id].dep = m.dep
      BY <2>1 DEF NodeAccepts
    <3>3. pos[d] \in Sent(d) /\ ops[d][pos[d]].dep.version \in Nat
      BY <2>4 DEF Placed, SettledOK, VersionsOK
    <3>4. Settled(d, pos[d])'
      BY <1>1, <3>1, <3>2, <3>3 DEF Settled
    <3> QED
      BY <1>1, <2>2, <2>3, <2>4, <3>3, <3>4 DEF Placed, SettledOK
  <2>5. CASE pc[d] # "await"
    BY <1>1, <2>2, <2>3, <2>5 DEF Placed, SettledOK
  <2> QED
    BY <2>4, <2>5
<1> QED
  BY <1>2, <1>3

\* A step of the call itself: it moves past an operation only once it is settled.
LEMMA StepSettles ==
  ASSUME IInv, Placed, NEW c \in Calls, Submit(c) \/ Step(c) \/ Silence(c) PROVE SettledOK(c)'
<1> USE DEF chainVars, nodeVars
<1>1. node' = node /\ cancelled \subseteq cancelled'
  BY CallsApart
<1>2. pc' = [pc EXCEPT ![c] = pc'[c]] /\ c \in DOMAIN pc /\ c \in DOMAIN pos /\ c \in DOMAIN reply
  BY DEF IInv, TypeOK, Step, Submit, Prepare, Reserve, Refuse, ReadOriginal, Send, Answered,
         CancelDoomed, BecomeReady, Finish, Throw, ReadBack, Revert, Resend, Restored,
         RolledBack, Abandon, Hang, LookUp, Silence
<1>3. \A i \in Sent(c) : i \in Nat \ {0}
  BY DEF IInv, OpsOK, Sent, Creates, Updates
<1>4. pos[c] \in Nat \ {0}
  BY DEF IInv, TypeOK
<1>5. CASE pc'[c] \notin {"send", "sendUpdate", "await", "wait", "done"}
  BY <1>5 DEF SettledOK
<1>6. ASSUME Step(c), NEW i \in Sent(c), i # pos[c] \/ ~Send(c), Settled(c, i)
      PROVE  Settled(c, i)'
  <2>1. ops'[c][i] = ops[c][i]
    BY <1>6, ListKept DEF Sent, Creates, Updates
  <2>2. ops[c][i].dep.version \in Nat
    BY DEF Placed, VersionsOK
  <2> QED
    BY <1>1, <1>6, <2>1, <2>2, SettledStays DEF Placed
<1>7. Step(c) => Sent(c)' = Sent(c)
  BY ListKept
<1>8. CASE Reserve(c)
  <2>1. pos'[c] = 1 /\ pc'[c] \in {"send", "hung", "lost"}
    BY <1>2, <1>8 DEF Reserve
  <2>2. \A i \in Sent(c)' : ~(i < 1)
    BY <1>3, <1>7, <1>8 DEF Step
  <2> QED
    BY <2>1, <2>2 DEF SettledOK
<1>9. CASE ReadOriginal(c)
  <2>1. pos' = pos /\ pc[c] = "send" /\ pc'[c] = "sendUpdate"
    BY <1>2, <1>9 DEF ReadOriginal
  <2>2. Step(c) /\ ~Send(c)
    BY <1>9, <2>1 DEF Step, Send, ReadOriginal, Creates, Updates
  <2> QED
    BY <1>6, <1>7, <2>1, <2>2 DEF Placed, SettledOK
<1>10. CASE Send(c)
  <2>1. /\ pos' = pos /\ pc[c] \in {"send", "sendUpdate"} /\ pc'[c] = "await"
        /\ reply'[c] = "none" /\ pos[c] \in Sent(c)
    BY <1>2, <1>10 DEF Send, IInv, OpsOK, Sent
  <2>2. Step(c)
    BY <1>10 DEF Step
  <2>3. \A i \in Sent(c) : i < pos[c] => Settled(c, i)'
    BY <1>3, <1>4, <1>6, <2>1, <2>2 DEF Placed, SettledOK
  <2> QED
    BY <1>7, <2>1, <2>2, <2>3 DEF SettledOK
<1>11. CASE Answered(c)
  <2>1. /\ pos'[c] = pos[c] + 1 /\ pc[c] = "await" /\ reply[c] = "ok" /\ pc'[c] = "send"
    BY <1>2, <1>11 DEF Answered
  <2>2. Step(c) /\ ~Send(c)
    BY <1>11, <2>1 DEF Step, Send
  <2>3. \A i \in Sent(c) : i < pos[c] + 1 => Settled(c, i)
    BY <1>3, <1>4, <2>1 DEF Placed, SettledOK
  <2> QED
    BY <1>6, <1>7, <2>1, <2>2, <2>3 DEF SettledOK
<1>12. CASE CancelDoomed(c)
  <2>1. pc[c] = "send" /\ pos[c] \notin Sent(c)
    BY <1>12 DEF CancelDoomed
  <2>2. Step(c) /\ ~Send(c)
    BY <1>12, <2>1 DEF Step, Send, Sent, Creates, Updates
  <2>3. ASSUME NEW i \in Sent(c) PROVE i < pos[c]
    <3>1. PICK n \in Nat : Positions(c) = 1..n
      BY DEF IInv, OpsOK
    <3>2. i \in Positions(c)
      BY DEF Sent, Creates, Updates
    <3>3. ASSUME pos[c] < i PROVE FALSE
      <4>1. pos[c] \in Positions(c)
        BY <1>4, <3>1, <3>2, <3>3
      <4> QED
        BY <2>1, <3>2, <3>3, <4>1 DEF Placed, RankedOK
    <3> QED
      BY <1>3, <1>4, <2>1, <3>3
  <2>4. \A i \in Sent(c) : Settled(c, i)'
    BY <1>6, <2>1, <2>2, <2>3 DEF Placed, SettledOK
  <2>5. pc'[c] \in {"wait", "hung", "rollback"}
    BY <1>2, <1>12 DEF CancelDoomed
  <2> QED
    BY <1>7, <2>2, <2>4, <2>5 DEF SettledOK
<1>13. CASE (\E i \in Positions(c) : BecomeReady(c, i)) \/ Finish(c)
  <2>1. pc[c] = "wait" /\ pc'[c] \in {"wait", "done"}
    BY <1>2, <1>13 DEF BecomeReady, Finish
  <2>2. Step(c) /\ ~Send(c)
    BY <1>13, <2>1 DEF Step, Send
  <2> QED
    BY <1>6, <1>7, <2>1, <2>2 DEF Placed, SettledOK
<1>14. CASE Submit(c)
  BY <1>2, <1>5, <1>14 DEF Submit, CheckOutcomes
<1>15. CASE \/ Prepare(c) \/ Refuse(c) \/ Throw(c) \/ ReadBack(c) \/ Revert(c) \/ Resend(c)
            \/ Restored(c) \/ RolledBack(c) \/ Abandon(c) \/ Hang(c) \/ LookUp(c) \/ Silence(c)
  BY <1>2, <1>5, <1>15 DEF Prepare, Refuse, Throw, ReadBack, Revert, Resend, Restored,
                           RolledBack, Abandon, Hang, LookUp, Silence
<1> QED
  BY <1>8, <1>9, <1>10, <1>11, <1>12, <1>13, <1>14, <1>15 DEF Step

LEMMA PlacedNext == IInv /\ Placed /\ [Next]_vars => Placed'
<1> SUFFICES ASSUME IInv, Placed, [Next]_vars PROVE Placed'
  OBVIOUS
<1>1. CASE Next
  <2>1. VersionsOK' /\ RankedOK'
    BY <1>1, VersionsKept, RanksKept
  <2>2. ASSUME NEW d \in Calls PROVE SettledOK(d)'
    <3>1. ASSUME NEW c \in Calls, Submit(c) \/ Step(c) \/ Silence(c) PROVE SettledOK(d)'
      <4>1. CASE d = c
        BY <3>1, <4>1, StepSettles
      <4>2. CASE d # c
        BY <3>1, <4>2, CallsApart, SettledElsewhere
      <4> QED
        BY <4>1, <4>2
    <3>2. CASE NodeStep
      BY <3>2, AnswerSettles
    <3> QED
      BY <1>1, <3>1, <3>2 DEF Next
  <2> QED
    BY <2>1, <2>2 DEF Placed
<1>2. CASE UNCHANGED vars
  BY <1>2 DEF vars, Placed, VersionsOK, RankedOK, SettledOK, Settled, Sent, Creates, Updates,
              Positions
<1> QED
  BY <1>1, <1>2

\* A call cancels what it was asked to delete, and reports success, only with
\* every deployment and update it sent on its node, at that version or a later
\* one, unless its contract has been cancelled since.
THEOREM DeletionsComeLast == Spec => []NothingDeletedEarly
<1>1. Placed => NothingDeletedEarly
  BY DEF Placed, SettledOK, Settled, NothingDeletedEarly
<1>2. Spec => []Placed
  BY PlacedInit, PlacedNext, Invariance, PTL DEF Spec
<1> QED
  BY <1>1, <1>2, PTL

-----------------------------------------------------------------------------
(* What a contract's deployment ran before it was updated.                   *)

\* The call that made a contract still knows what it deployed there.
Known(k) == k.by \in Calls => k.op \in Positions(k.by)

\* Creations start at version 0; updates are of contracts that a node has had; no
\* contract is active after it was cancelled.
Tracked ==
  /\ DOMAIN restores = Calls
  /\ Live \cap cancelled = {}
  /\ \A k \in Live \cup cancelled \cup DOMAIN node : Known(k)
  /\ \A c \in Calls : \A i \in Creates(c) :
       /\ ops[c][i].dep.workloads \in Seq(Workload)
       /\ ops[c][i].dep = [workloads |-> ops[c][i].dep.workloads, version |-> 0]
  /\ \A c \in Calls : \A i \in Updates(c) : ops[c][i].id \in DOMAIN node \cup cancelled

\* What a call works on stays what it is, but for the ids of its creations.
LEMMA OpsStay ==
  ASSUME IInv, Next
  PROVE  \A d \in Calls : \A i \in Positions(d) :
           /\ i \in Positions(d)' /\ ops'[d][i].verb = ops[d][i].verb
           /\ ops'[d][i].dep = ops[d][i].dep
           /\ ops[d][i].verb # "deploy" => ops'[d][i].id = ops[d][i].id
           /\ ops'[d][i].name = ops[d][i].name
<1> SUFFICES ASSUME NEW d \in Calls, NEW i \in Positions(d)
             PROVE  /\ i \in Positions(d)' /\ ops'[d][i].verb = ops[d][i].verb
                    /\ ops'[d][i].dep = ops[d][i].dep
                    /\ ops[d][i].verb # "deploy" => ops'[d][i].id = ops[d][i].id
                    /\ ops'[d][i].name = ops[d][i].name
  OBVIOUS
<1>1. ASSUME NEW c \in Calls, Submit(c) \/ Step(c) \/ Silence(c), d # c PROVE ops'[d] = ops[d]
  BY <1>1, CallsApart
<1>2. ~Submit(d)
  BY DEF Submit, IInv, OpsOK, Positions
<1>3. CASE Send(d)
  <2>1. PICK id : /\ ops' = [ops EXCEPT ![d][pos[d]].id = id]
                  /\ ops[d][pos[d]].verb # "deploy" => id = ops[d][pos[d]].id
    BY <1>3 DEF Send
  <2>2. d \in DOMAIN ops
    BY DEF IInv, OpsOK
  <2>3. /\ DOMAIN ops'[d] = DOMAIN ops[d]
        /\ \A j \in Positions(d) : ops'[d][j] = IF j = pos[d] THEN [ops[d][j] EXCEPT !.id = id]
                                                ELSE ops[d][j]
    BY <2>1, <2>2 DEF Positions
  <2>4. DOMAIN ops[d][i] = {"verb", "id", "name", "dep"}
    BY DEF IInv, OpsOK
  <2>5. ops'[d][i] = IF i = pos[d] THEN [ops[d][i] EXCEPT !.id = id] ELSE ops[d][i]
    BY <2>3
  <2>6. i \in Positions(d)'
    BY <2>3 DEF Positions
  <2> QED
    BY <2>1, <2>4, <2>5, <2>6
<1>4. CASE (Step(d) \/ Silence(d)) /\ ~Send(d)
  BY <1>4, ListKept DEF Positions
<1>5. CASE \E c \in Calls : c # d /\ (Submit(c) \/ Step(c) \/ Silence(c))
  BY <1>1, <1>5 DEF Positions
<1>6. CASE NodeStep
  BY <1>6 DEF NodeStep, NodeAccepts, NodeRuns, NodeDrops, Positions
<1> QED
  BY <1>2, <1>3, <1>4, <1>5, <1>6 DEF Next

\* Only Submit gives a call operations.
LEMMA OpsAreThere ==
  ASSUME IInv, Next, NEW d \in Calls, ~Submit(d) PROVE Positions(d)' = Positions(d)
<1>1. ASSUME NEW c \in Calls, Submit(c) \/ Step(c) \/ Silence(c), d # c PROVE ops'[d] = ops[d]
  BY <1>1, CallsApart
<1>2. CASE \E c \in Calls : c # d /\ (Submit(c) \/ Step(c) \/ Silence(c))
  BY <1>1, <1>2 DEF Positions
<1>3. CASE Step(d) \/ Silence(d)
  BY <1>3, ListKept
<1>4. CASE NodeStep
  BY <1>4 DEF NodeStep, NodeAccepts, NodeRuns, NodeDrops, Positions
<1> QED
  BY <1>2, <1>3, <1>4 DEF Next

LEMMA UpdatesStay ==
  ASSUME IInv, Next, NEW d \in Calls
  PROVE  /\ Updates(d) \subseteq Updates(d)' /\ Creates(d) \subseteq Creates(d)'
         /\ ~Submit(d) => Updates(d)' = Updates(d) /\ Creates(d)' = Creates(d)
<1>1. Updates(d) \subseteq Updates(d)' /\ Creates(d) \subseteq Creates(d)'
  BY OpsStay DEF Updates, Creates
<1>2. ASSUME ~Submit(d) PROVE Updates(d)' \subseteq Updates(d) /\ Creates(d)' \subseteq Creates(d)
  <2>1. Positions(d)' = Positions(d)
    BY <1>2, OpsAreThere
  <2>2. \A i \in Positions(d) : ops'[d][i].verb = ops[d][i].verb
    BY OpsStay
  <2> QED
    BY <2>1, <2>2 DEF Updates, Creates
<1> QED
  BY <1>1, <1>2

LEMMA OriginalStays ==
  ASSUME IInv, Next, NEW k, Known(k) PROVE Known(k)' /\ Original(k)' = Original(k)
<1>1. CASE k.by \in Calls
  <2>1. k.op \in Positions(k.by)
    BY <1>1 DEF Known
  <2>2. k.op \in Positions(k.by)' /\ ops'[k.by][k.op].dep = ops[k.by][k.op].dep
    BY <1>1, <2>1, OpsStay
  <2> QED
    BY <1>1, <2>2 DEF Known, Original
<1>2. CASE k.by \notin Calls
  BY <1>2 DEF Known, Original
<1> QED
  BY <1>1, <1>2

\* What a module makes of an operation.
LEMMA ResolveFacts ==
  ASSUME NEW o
  PROVE  /\ Resolve(o).verb = o.verb /\ Resolve(o).id = o.target
         /\ o.verb = "deploy" => Resolve(o).dep = [workloads |-> o.workloads, version |-> 0]
         /\ o.verb = "update" => Resolve(o).dep = [workloads |-> Merged(o).workloads,
                                                  version |-> node[o.target].dep.version + 1]
<1> DEFINE new == [workloads |-> o.workloads, version |-> 0]
           next == [workloads |-> Merged(o).workloads, version |-> node[o.target].dep.version + 1]
           held == node[o.target].dep
           dep == CASE o.verb = "deploy" -> new [] o.verb = "update" -> next [] OTHER -> held
<1>1. Resolve(o) = [verb |-> o.verb, id |-> o.target, name |-> o.name, dep |-> dep]
  BY DEF Resolve
<1>2. (o.verb = "deploy" => dep = new) /\ (o.verb = "update" => dep = next)
  <2> HIDE DEF new, next, held
  <2> QED
    OBVIOUS
<1> HIDE DEF dep
<1>3. Resolve(o).verb = o.verb /\ Resolve(o).id = o.target /\ Resolve(o).dep = dep
  BY <1>1
<1> QED
  BY <1>2, <1>3

\* The list of a new call, operation by operation.
LEMMA SubmitFacts ==
  ASSUME IInv, NEW c \in Calls, Submit(c)
  PROVE  /\ Positions(c) = {}
         /\ UNCHANGED <<contracts, cancelled, node, inflight, originals, pos, updated,
                        restores, reply>>
         /\ pc[c] = "idle" /\ pc'[c] \in CheckOutcomes /\ \A d \in Calls \ {c} : pc'[d] = pc[d]
         /\ \E r \in Requests :
              /\ Positions(c)' = DOMAIN r
              /\ \A i \in DOMAIN r : r[i] \in Operation /\ Needed(r[i])
                                     /\ ops'[c][i] = Resolve(r[i])
<1>1. PICK r \in Requests : /\ \A i \in DOMAIN r : Needed(r[i])
                            /\ ops' = [ops EXCEPT ![c] = [i \in DOMAIN r |-> Resolve(r[i])]]
  BY DEF Submit
<1>2. ops'[c] = [i \in DOMAIN r |-> Resolve(r[i])]
  BY <1>1 DEF IInv, OpsOK
<1>3. Positions(c)' = DOMAIN r /\ \A i \in DOMAIN r : ops'[c][i] = Resolve(r[i])
  BY <1>2 DEF Positions
<1>4. r \in Seq(Operation)
  BY TwinAssumption
<1>5. \A i \in DOMAIN r : r[i] \in Operation
  BY <1>4
<1>6. Positions(c) = {}
  BY DEF IInv, OpsOK, Positions, Submit
<1>7. pc[c] = "idle" /\ pc'[c] \in CheckOutcomes /\ \A d \in Calls \ {c} : pc'[d] = pc[d]
  BY DEF Submit, IInv, TypeOK
<1>8. UNCHANGED <<contracts, cancelled, node, inflight, originals, pos, updated, restores, reply>>
  BY DEF Submit, chainVars, nodeVars
<1> QED
  BY <1>1, <1>3, <1>5, <1>6, <1>7, <1>8

LEMMA TrackedInit == Init => Tracked
<1> SUFFICES ASSUME Init PROVE Tracked
  OBVIOUS
<1>1. \A c \in Calls : Positions(c) = {}
  BY DEF Init, Positions
<1>2. \A k \in Preexisting : k.by \notin Calls
  BY TwinAssumption DEF MadeBy
<1>3. Live = Preexisting /\ cancelled = {} /\ DOMAIN node \subseteq Preexisting
  BY DEF Init, Live
<1>4. \A k \in Live \cup cancelled \cup DOMAIN node : Known(k)
  BY <1>2, <1>3 DEF Known
<1>5. DOMAIN restores = Calls
  BY DEF Init
<1> QED
  BY <1>1, <1>3, <1>4, <1>5 DEF Tracked, Creates, Updates

\* Where contracts come from and where they go.
LEMMA ContractsMove ==
  ASSUME IInv, Tracked, Next
  PROVE  /\ Live' \cap cancelled' = {}
         /\ cancelled \subseteq cancelled' /\ cancelled' \subseteq Live \cup cancelled
         /\ \A k \in Live' : Known(k)'
<1>0. \A k \in Live : Known(k)'
  BY OriginalStays DEF Tracked
<1>1. CASE UNCHANGED <<contracts, cancelled>>
  BY <1>0, <1>1 DEF Tracked, Live
<1>2. ASSUME NEW c \in Calls, Reserve(c)
      PROVE  /\ Live' \cap cancelled' = {} /\ cancelled' = cancelled
             /\ \A k \in Live' : Known(k)'
  <2>1. Live' = Live \cup Fresh(c) /\ cancelled' = cancelled /\ ops' = ops
    BY <1>2 DEF Reserve, Live
  <2>2. Fresh(c) \cap cancelled = {}
    <3>1. pc[c] = "prepare" /\ pos[c] \notin Positions(c)
      BY <1>2 DEF Reserve
    <3> QED
      BY <3>1, CreatedIsFresh DEF IInv, Unopened
  <2>3. ASSUME NEW k \in Fresh(c) PROVE Known(k)'
    <3>1. k.by = c /\ k.op \in Positions(c)
      BY DEF Fresh, NodeContract, NameContract, Creates, Naming, Sent, Updates
    <3> QED
      BY <2>1, <3>1 DEF Known, Positions
  <2> QED
    BY <1>0, <2>1, <2>2, <2>3 DEF Tracked
<1>3. ASSUME NEW c \in Calls, CancelDoomed(c)
      PROVE  /\ doomed[c] \subseteq Live /\ Live' = Live \ doomed[c]
             /\ cancelled' = cancelled \cup doomed[c]
  BY <1>3 DEF CancelDoomed, Without, Live
<1>4. ASSUME NEW c \in Calls, Revert(c)
      PROVE  /\ created[c] \subseteq Live /\ Live' = Live \ created[c]
             /\ cancelled' = cancelled \cup created[c]
  BY <1>4 DEF Revert, Live
<1>5. ASSUME NEW c \in Calls, Step(c) \/ Silence(c), ~Reserve(c), ~CancelDoomed(c), ~Revert(c)
      PROVE  UNCHANGED <<contracts, cancelled>>
  BY <1>5 DEF Step, Prepare, Refuse, ReadOriginal, Send, Answered, BecomeReady, Finish, Throw,
              ReadBack, Resend, Restored, RolledBack, Abandon, Hang, LookUp, Silence, chainVars
<1>6. ASSUME NEW c \in Calls, Submit(c) PROVE UNCHANGED <<contracts, cancelled>>
  BY <1>6 DEF Submit, chainVars
<1>7. NodeStep => UNCHANGED <<contracts, cancelled>>
  BY DEF NodeStep, NodeAccepts, NodeRuns, NodeDrops, chainVars
<1>8. CASE \E c \in Calls : Reserve(c)
  BY <1>2, <1>8
<1>9. CASE \E c \in Calls : CancelDoomed(c)
  BY <1>0, <1>3, <1>9 DEF Tracked
<1>10. CASE \E c \in Calls : Revert(c)
  BY <1>0, <1>4, <1>10 DEF Tracked
<1> QED
  BY <1>1, <1>5, <1>6, <1>7, <1>8, <1>9, <1>10 DEF Next

\* Nodes hold only what was sent for an active contract, and let go of nothing else
\* than what was cancelled.
LEMMA NodesMove ==
  ASSUME IInv, Next
  PROVE  /\ DOMAIN node' \subseteq DOMAIN node \cup Live
         /\ DOMAIN node \subseteq DOMAIN node' \cup cancelled
<1>1. CASE \E c \in Calls : Submit(c) \/ Step(c) \/ Silence(c)
  BY <1>1, CallsApart
<1>2. CASE \E m \in inflight : NodeAccepts(m)
  BY <1>2 DEF NodeAccepts
<1>3. CASE \E k \in DOMAIN node : NodeRuns(k)
  BY <1>3 DEF NodeRuns
<1>4. CASE \E k \in DOMAIN node : NodeDrops(k)
  BY <1>4 DEF NodeDrops, Without
<1> QED
  BY <1>1, <1>2, <1>3, <1>4 DEF Next, NodeStep

LEMMA TrackedNext == IInv /\ Tracked /\ [Next]_vars => Tracked'
<1> SUFFICES ASSUME IInv, Tracked, Next PROVE Tracked'
  BY DEF vars, Tracked, Known, Live, Creates, Updates, Positions
<1>1. DOMAIN restores' = Calls
  BY DEF Tracked, Next, NodeStep, NodeAccepts, NodeRuns, NodeDrops, Submit, Step, Prepare, Reserve,
         Refuse, ReadOriginal, Send, Answered, CancelDoomed, BecomeReady, Finish, Throw, ReadBack,
         Revert, Resend, Restored, RolledBack, Abandon, Hang, LookUp, Silence
<1>2. Live' \cap cancelled' = {} /\ cancelled \subseteq cancelled'
  BY ContractsMove
<1>3. \A k \in Live' \cup cancelled' \cup DOMAIN node' : Known(k)'
  BY ContractsMove, NodesMove, OriginalStays DEF Tracked
<1>4. ASSUME NEW c \in Calls
      PROVE  /\ \A i \in Creates(c)' :
                  /\ ops'[c][i].dep.workloads \in Seq(Workload)
                  /\ ops'[c][i].dep = [workloads |-> ops'[c][i].dep.workloads, version |-> 0]
             /\ \A i \in Updates(c)' : ops'[c][i].id \in DOMAIN node' \cup cancelled'
  <2>1. CASE Submit(c)
    <3>1. PICK r \in Requests :
            /\ Positions(c)' = DOMAIN r
            /\ \A i \in DOMAIN r : r[i] \in Operation /\ Needed(r[i]) /\ ops'[c][i] = Resolve(r[i])
      BY <2>1, SubmitFacts
    <3>2. \A i \in DOMAIN r : ops'[c][i].verb = r[i].verb /\ ops'[c][i].id = r[i].target
      BY <3>1, ResolveFacts
    <3>3. ASSUME NEW i \in Creates(c)'
          PROVE  /\ ops'[c][i].dep.workloads \in Seq(Workload)
                 /\ ops'[c][i].dep = [workloads |-> ops'[c][i].dep.workloads, version |-> 0]
      <4>1. i \in DOMAIN r /\ r[i].verb = "deploy"
        BY <3>1, <3>2, <3>3 DEF Creates
      <4>2. ops'[c][i].dep = [workloads |-> r[i].workloads, version |-> 0]
        BY <3>1, <4>1, ResolveFacts
      <4> QED
        BY <3>1, <4>1, <4>2 DEF Operation
    <3>4. ASSUME NEW i \in Updates(c)' PROVE ops'[c][i].id \in DOMAIN node' \cup cancelled'
      <4>1. i \in DOMAIN r /\ r[i].verb = "update"
        BY <3>1, <3>2, <3>4 DEF Updates
      <4>2. r[i].target \in DOMAIN node
        BY <3>1, <4>1 DEF Needed
      <4> QED
        BY <3>2, <4>1, <4>2, <2>1, SubmitFacts
    <3> QED
      BY <3>3, <3>4
  <2>2. CASE ~Submit(c)
    <3>1. Creates(c)' = Creates(c) /\ Updates(c)' = Updates(c)
      BY <2>2, UpdatesStay
    <3>2. /\ \A i \in Creates(c) : ops'[c][i].dep = ops[c][i].dep
          /\ \A i \in Updates(c) : ops'[c][i].id = ops[c][i].id
      BY OpsStay DEF Creates, Updates
    <3> QED
      BY <1>2, <3>1, <3>2, NodesMove DEF Tracked
  <2> QED
    BY <2>1, <2>2
<1> QED
  BY <1>1, <1>2, <1>3, <1>4 DEF Tracked

-----------------------------------------------------------------------------
(* What a rollback puts back, while a handler serves one update that is      *)
(* undoable.                                                                 *)

Single ==
  /\ OneUpdate
  /\ \A c \in Calls : \A i \in Updates(c) :
       Undoable(Original(ops[c][i].id), ops[c][i].dep.workloads)

\* The three things a deployment may be: what it was first, the update, or the
\* update undone.
Pristine(k, dep) ==
  /\ Known(k) /\ Original(k) \in Seq(Workload)
  /\ dep = [workloads |-> Original(k), version |-> 0]

\* The call has read the original of its update, and may have sent the update.
Begun(c, i) ==
  /\ pc[c] \notin {"idle", "prepare"}
  /\ pc[c] = "send" => i < pos[c]
  /\ pc[c] \in {"sendUpdate", "await"} => i <= pos[c]

UpdateOf(c, i, k, dep) ==
  ops[c][i].id = k /\ dep = ops[c][i].dep /\ Begun(c, i) /\ pc[c] # "sendUpdate"
RestoreOf(c, k, dep) == restores[c] = <<[id |-> k, dep |-> dep]>>
Later(k, dep) ==
  \E c \in Calls : (\E i \in Updates(c) : UpdateOf(c, i, k, dep)) \/ RestoreOf(c, k, dep)

HeldOK == \A k \in DOMAIN node : Pristine(k, node[k].dep) \/ Later(k, node[k].dep)

MessagesOK == \A m \in inflight :
  \/ m.verb = "deploy" /\ Pristine(m.id, m.dep)
  \/ m.verb = "update" /\ Later(m.id, m.dep)

\* An update is what UpdateDeployment made of the original.
MergedOK == \A c \in Calls : \A i \in Updates(c) :
  LET k == ops[c][i].id IN
    /\ Known(k) /\ Original(k) \in Seq(Workload)
    /\ ops[c][i].dep.version = 1
    /\ \E wanted \in Seq(Workload) :
         ops[c][i].dep.workloads = UpdateDeployment(Original(k), wanted, 0).workloads

UpdatedOK == \A c \in Calls :
  \/ updated[c] = <<>>
  \/ \E i \in Updates(c) : updated[c] = <<ops[c][i].id>> /\ (pc[c] = "prepare" => i < pos[c])

OriginalsOK ==
  \/ originals = <<>>
  \/ \E c \in Calls : \E i \in Updates(c) :
       /\ Begun(c, i)
       /\ originals = <<[workloads |-> Original(ops[c][i].id), version |-> 0]>>

\* The update undone: what ReadBack makes of the node's deployment.
Undone(o) ==
  [id |-> o.id, dep |-> [workloads |-> UpdateDeployment(o.dep.workloads, Original(o.id), 1).workloads,
                         version |-> 2]]

RestoresOK == \A c \in Calls :
  \/ restores[c] = <<>>
  \/ /\ pc[c] \in {"rollback", "resend", "awaitRestore", "failed", "unrestored", "stuck", "hung", "mute"}
     /\ pc[c] = "rollback" => pos[c] # 1
     /\ \E i \in Updates(c) : restores[c] = <<Undone(ops[c][i])>>

\* The node has answered that it took the update undone.
Acked(c) == \/ pc[c] = "failed"
            \/ pc[c] = "resend" /\ pos[c] # 1
            \/ pc[c] = "awaitRestore" /\ reply[c] = "ok"

AckedOK == \A c \in Calls :
  /\ pc[c] = "awaitRestore" => pos[c] = 1 /\ restores[c] # <<>>
  /\ Acked(c) => \A k \in DOMAIN node : \A dep : RestoreOf(c, k, dep) => node[k].dep = dep

Restorable ==
  HeldOK /\ MessagesOK /\ MergedOK /\ UpdatedOK /\ OriginalsOK /\ RestoresOK /\ AckedOK

\* A step that leaves one update at most has found one at most, the same one.
LEMMA SingleBefore == ASSUME IInv, Tracked, Next, Single' PROVE Single
<1>1. \A c \in Calls : Updates(c) \subseteq Updates(c)'
  BY UpdatesStay
<1>2. OneUpdate
  BY <1>1 DEF Single, OneUpdate
<1>3. ASSUME NEW c \in Calls, NEW i \in Updates(c)
      PROVE  Undoable(Original(ops[c][i].id), ops[c][i].dep.workloads)
  <2>1. ops'[c][i].id = ops[c][i].id /\ ops'[c][i].dep = ops[c][i].dep
    BY OpsStay DEF Updates
  <2>2. Original(ops[c][i].id)' = Original(ops[c][i].id)
    BY <2>1, OriginalStays DEF Tracked
  <2>3. Undoable(Original(ops[c][i].id), ops[c][i].dep.workloads)'
    BY <1>1 DEF Single
  <2>4. ops'[c][i].id = ops[c][i].id
    BY <2>1
  <2>5. Original(ops[c][i].id)' = Original(ops[c][i].id)
    BY <2>2
  <2> QED
    BY <2>1, <2>3, <2>5 DEF Undoable
<1> QED
  BY <1>2, <1>3 DEF Single

\* Where a step of a call takes it.
LEMMA PcMoves ==
  ASSUME IInv, NEW c \in Calls, Step(c) \/ Silence(c)
  PROVE  \/ pc[c] = "prepare" /\ pc'[c] \in {"prepare", "send", "failed", "hung", "lost"}
         \/ /\ pc[c] = "send" /\ pc'[c] = "sendUpdate" /\ pos'[c] = pos[c] /\ pos[c] \in Updates(c)
            /\ ReadOriginal(c)
         \/ pc[c] \in {"send", "sendUpdate"} /\ pc'[c] = "await" /\ pos'[c] = pos[c]
         \/ pc[c] = "await" /\ pc'[c] = "send" /\ pos'[c] = pos[c] + 1
         \/ /\ pc[c] \in {"send", "sendUpdate", "await", "wait"}
            /\ pc'[c] \in {"wait", "hung", "rollback", "done", "mute"}
         \/ /\ pc[c] \in {"rollback", "resend", "awaitRestore"}
            /\ pc'[c] \in {"rollback", "resend", "awaitRestore", "failed", "stuck",
                           "unrestored", "hung", "mute"}
<1>0. DOMAIN pc = Calls /\ DOMAIN pos = Calls
  BY DEF IInv, TypeOK
<1>1. CASE Prepare(c) \/ Reserve(c) \/ Refuse(c)
  BY <1>0, <1>1 DEF Prepare, Reserve, Refuse
<1>2. CASE ReadOriginal(c)
  BY <1>0, <1>2 DEF ReadOriginal
<1>3. CASE Send(c)
  BY <1>0, <1>3 DEF Send
<1>4. CASE Answered(c)
  BY <1>0, <1>4 DEF Answered
<1>5. CASE CancelDoomed(c) \/ (\E i \in Positions(c) : BecomeReady(c, i)) \/ Finish(c) \/ Throw(c)
  BY <1>0, <1>5 DEF CancelDoomed, BecomeReady, Finish, Throw
<1>6. CASE ReadBack(c) \/ Revert(c) \/ Resend(c) \/ Restored(c) \/ RolledBack(c) \/ Abandon(c)
  BY <1>0, <1>6 DEF ReadBack, Revert, Resend, Restored, RolledBack, Abandon
<1>7. CASE Hang(c)
  BY <1>0, <1>7 DEF Hang, AtBatch
<1>8. CASE LookUp(c)
  BY <1>0, <1>8 DEF LookUp
<1>9. CASE Silence(c)
  BY <1>0, <1>9 DEF Silence, Asking
<1> QED
  BY <1>1, <1>2, <1>3, <1>4, <1>5, <1>6, <1>7, <1>8, <1>9 DEF Step

-----------------------------------------------------------------------------
(* What is deleted was asked for.                                            *)

\* Operation i of call c asks for the deletion of contract k: it names the contract,
\* or the name the contract holds.
Asked(c, i, k) ==
  /\ ops[c][i].verb = "delete"
  /\ \/ k = ops[c][i].id
     \/ ops[c][i].name # NoName /\ contracts[k].name = ops[c][i].name

DoomedOK ==
  \A c \in Calls :
    /\ doomed[c] \subseteq Live \cup cancelled
    /\ pc[c] = "idle" => doomed[c] = {}
    /\ \A k \in doomed[c] \cap Live : \E i \in Positions(c) : Asked(c, i, k)

\* A contract keeps its name, and one that appears belongs to a call that had none.
LEMMA NamesStay ==
  ASSUME IInv, Next
  PROVE  /\ Live \cup cancelled \subseteq Live' \cup cancelled'
         /\ \A k \in Live \cap Live' : contracts'[k].name = contracts[k].name
         /\ (Live' \ Live) \cap (Live \cup cancelled) = {}
<1> USE DEF Live
<1>1. ASSUME NEW c \in Calls, Reserve(c)
      PROVE  /\ Live \cup cancelled \subseteq Live' \cup cancelled'
             /\ \A k \in Live \cap Live' : contracts'[k].name = contracts[k].name
             /\ (Live' \ Live) \cap (Live \cup cancelled) = {}
  <2>1. Fresh(c) \cap (Live \cup cancelled) = {}
    BY <1>1, CreatedIsFresh DEF Reserve, IInv, Unopened
  <2>2. \A k \in Live : DOMAIN contracts[k] = {"dep", "name"}
    BY DEF IInv, TypeOK
  <2>3. /\ DOMAIN contracts' = Live \cup Fresh(c) /\ cancelled' = cancelled
        /\ \A k \in Live : \/ contracts'[k] = contracts[k]
                          \/ \E dep : contracts'[k] = [contracts[k] EXCEPT !.dep = dep]
    BY <1>1, <2>1 DEF Reserve
  <2> QED
    BY <2>1, <2>2, <2>3
<1>2. ASSUME NEW c \in Calls, CancelDoomed(c)
      PROVE  /\ Live \cup cancelled \subseteq Live' \cup cancelled'
             /\ \A k \in Live \cap Live' : contracts'[k].name = contracts[k].name
             /\ (Live' \ Live) \cap (Live \cup cancelled) = {}
  BY <1>2 DEF CancelDoomed, Without
<1>3. ASSUME NEW c \in Calls, Revert(c)
      PROVE  /\ Live \cup cancelled \subseteq Live' \cup cancelled'
             /\ \A k \in Live \cap Live' : contracts'[k].name = contracts[k].name
             /\ (Live' \ Live) \cap (Live \cup cancelled) = {}
  <2>1. \A k \in Live : DOMAIN contracts[k] = {"dep", "name"}
    BY DEF IInv, TypeOK
  <2>2. /\ DOMAIN contracts' = Live \ created[c] /\ cancelled' = cancelled \cup created[c]
        /\ \A k \in DOMAIN contracts' :
             \/ contracts'[k] = contracts[k]
             \/ \E dep : contracts'[k] = [contracts[k] EXCEPT !.dep = dep]
    BY <1>3 DEF Revert
  <2> QED
    BY <2>1, <2>2
<1>4. CASE UNCHANGED <<contracts, cancelled>>
  BY <1>4
<1>5. ASSUME NEW c \in Calls, Step(c), ~Reserve(c), ~CancelDoomed(c), ~Revert(c)
      PROVE  UNCHANGED <<contracts, cancelled>>
  BY <1>5 DEF Step, Prepare, Refuse, ReadOriginal, Send, Answered, BecomeReady, Finish, Throw,
              ReadBack, Resend, Restored, RolledBack, Abandon, Hang, LookUp, chainVars
<1>6. ASSUME NEW c \in Calls, Submit(c) \/ Silence(c) PROVE UNCHANGED <<contracts, cancelled>>
  BY <1>6 DEF Submit, Silence, chainVars
<1>7. NodeStep => UNCHANGED <<contracts, cancelled>>
  BY DEF NodeStep, NodeAccepts, NodeRuns, NodeDrops, chainVars
<1> QED
  BY <1>1, <1>2, <1>3, <1>4, <1>5, <1>6, <1>7 DEF Next

\* Only the preparation of a deletion adds to the contracts a call is to delete.
LEMMA DoomedGrows ==
  ASSUME IInv, Next, NEW d \in Calls, NEW k \in doomed'[d], k \notin doomed[d]
  PROVE  k \in Live /\ \E i \in Positions(d) : Asked(d, i, k)
<1>1. DOMAIN doomed = Calls
  BY DEF IInv, TypeOK
<1>2. doomed' # doomed
  OBVIOUS
<1>3. PICK c \in Calls : Prepare(c)
  BY <1>2 DEF Next, NodeStep, NodeAccepts, NodeRuns, NodeDrops, Submit, Step, Silence, Reserve,
         Refuse, ReadOriginal, Send, Answered, CancelDoomed, BecomeReady, Finish, Throw, LookUp,
         ReadBack, Revert, Resend, Restored, RolledBack, Abandon, Hang
<1>4. d = c
  BY <1>1, <1>3 DEF Prepare
<1>5. /\ pos[c] \in Positions(c) /\ ops[c][pos[c]].verb = "delete" /\ k \in Live
      /\ \/ k = ops[c][pos[c]].id
         \/ ops[c][pos[c]].name # NoName /\ contracts[k].name = ops[c][pos[c]].name
  BY <1>1, <1>3, <1>4 DEF Prepare
<1> QED
  BY <1>4, <1>5 DEF Asked

LEMMA DoomedNext == IInv /\ DoomedOK /\ [Next]_vars => DoomedOK'
<1> SUFFICES ASSUME IInv, DoomedOK, Next PROVE DoomedOK'
  BY DEF vars, DoomedOK, Live, Positions, Asked
<1> SUFFICES ASSUME NEW d \in Calls
             PROVE  /\ doomed'[d] \subseteq Live' \cup cancelled'
                    /\ pc'[d] = "idle" => doomed'[d] = {}
                    /\ \A k \in doomed'[d] \cap Live' : \E i \in Positions(d)' : Asked(d, i, k)'
  BY DEF DoomedOK
<1>1. doomed'[d] \subseteq Live' \cup cancelled'
  BY DoomedGrows, NamesStay DEF DoomedOK
<1>2. pc'[d] = "idle" => doomed'[d] = {}
  <2> SUFFICES ASSUME pc'[d] = "idle" PROVE doomed'[d] = {}
    OBVIOUS
  <2>1. DOMAIN pc = Calls
    BY DEF IInv, TypeOK
  <2>2. pc[d] = "idle"
    BY <2>1, PcMoves, CallsApart DEF Next, NodeStep, NodeAccepts, NodeRuns, NodeDrops, Submit,
           CheckOutcomes
  <2>3. Positions(d) = {}
    BY <2>2 DEF IInv, OpsOK, Positions
  <2> QED
    BY <2>2, <2>3, DoomedGrows DEF DoomedOK
<1>3. ASSUME NEW k \in doomed'[d] \cap Live' PROVE \E i \in Positions(d)' : Asked(d, i, k)'
  <2>1. k \in Live /\ \E i \in Positions(d) : Asked(d, i, k)
    BY <1>3, DoomedGrows, NamesStay DEF DoomedOK
  <2>2. PICK i \in Positions(d) : Asked(d, i, k)
    BY <2>1
  <2>3. contracts'[k].name = contracts[k].name
    BY <1>3, <2>1, NamesStay
  <2>4. /\ i \in Positions(d)' /\ ops'[d][i].verb = ops[d][i].verb
        /\ ops[d][i].verb # "deploy" => ops'[d][i].id = ops[d][i].id
        /\ ops'[d][i].name = ops[d][i].name
    BY OpsStay
  <2> QED
    BY <2>2, <2>3, <2>4 DEF Asked
<1> QED
  BY <1>1, <1>2, <1>3

LEMMA DoomedInvariance == Spec => []DoomedOK
<1>1. Init => DoomedOK
  BY DEF Init, DoomedOK
<1> QED
  BY <1>1, DoomedNext, Invariance, PTL DEF Spec

\* A contract is cancelled by a call that has sent everything and was asked to delete it
\* or the gateway whose name it holds, or by the rollback of the call that made it.
THEOREM CancellationsAreJustified == Spec => CancelledForAReason
<1> DEFINE Reason(k) == \E c \in Calls :
             \/ /\ pc[c] = "send" /\ pos[c] \notin Sent(c)
                /\ \E i \in Positions(c) :
                     /\ ops[c][i].verb = "delete"
                     /\ \/ k = ops[c][i].id
                        \/ ops[c][i].name # NoName /\ contracts[k].name = ops[c][i].name
             \/ pc[c] = "rollback" /\ k \in MadeBy(c)
<1>1. IInv /\ DoomedOK /\ [Next]_vars => [\A k \in Live \ DOMAIN contracts' : Reason(k)]_vars
  <2> SUFFICES ASSUME IInv, DoomedOK, Next, NEW k \in Live \ DOMAIN contracts' PROVE Reason(k)
    BY DEF vars
  <2>0. contracts' # contracts
    BY DEF Live
  <2>1. PICK c \in Calls : Step(c)
    BY <2>0 DEF Next, Submit, Silence, NodeStep, NodeAccepts, NodeRuns, NodeDrops, chainVars
  <2>2. CASE Reserve(c)
    BY <2>2 DEF Reserve, Live
  <2>3. CASE CancelDoomed(c)
    <3>1. pc[c] = "send" /\ pos[c] \notin Sent(c) /\ k \in doomed[c] \cap Live
      BY <2>3 DEF CancelDoomed, Without, Live
    <3> QED
      BY <3>1 DEF DoomedOK, Asked
  <2>4. CASE Revert(c)
    BY <2>4 DEF Revert, Live, IInv, Accounted
  <2> QED
    BY <2>0, <2>1, <2>2, <2>3, <2>4, ChainUntouched
<1> QED
  BY <1>1, DoomedInvariance, Invariance, PTL DEF Spec, CancelledForAReason

-----------------------------------------------------------------------------
\* Once begun, an update stays so, and is read from its node only once.
LEMMA BegunStays ==
  ASSUME IInv, Next, OneUpdate, NEW d \in Calls, NEW i \in Updates(d), Begun(d, i)
  PROVE  Begun(d, i)' /\ (pc[d] # "sendUpdate" => pc'[d] # "sendUpdate")
<1>0. pos[d] \in Nat /\ i \in Nat
  BY DEF IInv, TypeOK, OpsOK, Updates
<1>1. CASE Step(d) \/ Silence(d)
  <2>1. pc[d] = "send" /\ pos[d] \in Updates(d) => pos[d] = i
    BY DEF OneUpdate
  <2> QED
    BY <1>0, <1>1, <2>1, PcMoves DEF Begun
<1>2. CASE Submit(d)
  BY <1>2, SubmitFacts DEF Begun
<1>3. CASE \E c \in Calls : c # d /\ (Submit(c) \/ Step(c) \/ Silence(c))
  BY <1>3, CallsApart DEF Begun
<1>4. CASE NodeStep
  BY <1>4 DEF NodeStep, NodeAccepts, NodeRuns, NodeDrops, Begun
<1> QED
  BY <1>1, <1>2, <1>3, <1>4 DEF Next

\* Only the loop of the rollback writes restores, and it runs once.
LEMMA RestoresFrame ==
  ASSUME IInv, Tracked, Next, NEW d \in Calls, ~ReadBack(d) PROVE restores'[d] = restores[d]
<1>1. ASSUME NEW c \in Calls, ReadBack(c), c # d PROVE restores'[d] = restores[d]
  <2>1. restores' = restores \/ \E r : restores' = [restores EXCEPT ![c] = r]
    BY <1>1 DEF ReadBack
  <2> QED
    BY <1>1, <2>1 DEF Tracked
<1>2. ASSUME NEW c \in Calls, Submit(c) \/ Step(c) \/ Silence(c), ~ReadBack(c) PROVE restores' = restores
  BY <1>2 DEF Submit, Step, Prepare, Reserve, Refuse, ReadOriginal, Send, Answered, CancelDoomed,
              BecomeReady, Finish, Throw, Revert, Resend, Restored, RolledBack, Abandon, Hang, LookUp, Silence
<1>3. NodeStep => restores' = restores
  BY DEF NodeStep, NodeAccepts, NodeRuns, NodeDrops
<1> QED
  BY <1>1, <1>2, <1>3 DEF Next

LEMMA FirstTurn ==
  ASSUME UpdatedOK, NEW d \in Calls, ReadBack(d)
  PROVE  pos[d] = 1 /\ \E i \in Updates(d) : updated[d] = <<ops[d][i].id>>
<1>1. pos[d] \in DOMAIN updated[d]
  BY DEF ReadBack
<1>2. updated[d] # <<>>
  BY <1>1
<1>3. PICK i \in Updates(d) : updated[d] = <<ops[d][i].id>>
  BY <1>2 DEF UpdatedOK
<1> QED
  BY <1>1, <1>3

LEMMA RestoresStay ==
  ASSUME IInv, Tracked, UpdatedOK, RestoresOK, Next, NEW d \in Calls, restores[d] # <<>>
  PROVE  restores'[d] = restores[d]
<1>1. ~ReadBack(d)
  <2> SUFFICES ASSUME ReadBack(d) PROVE FALSE
    OBVIOUS
  <2>1. pc[d] = "rollback" /\ pos[d] = 1
    BY FirstTurn DEF ReadBack
  <2> QED
    BY <2>1 DEF RestoresOK
<1> QED
  BY <1>1, RestoresFrame

LEMMA PristineStays ==
  ASSUME IInv, Next, NEW k, NEW dep, Pristine(k, dep) PROVE Pristine(k, dep)'
BY OriginalStays DEF Pristine

LEMMA LaterStays ==
  ASSUME IInv, Tracked, OneUpdate, UpdatedOK, RestoresOK, Next, NEW k, NEW dep, Later(k, dep)
  PROVE  Later(k, dep)'
<1>1. ASSUME NEW c \in Calls, NEW i \in Updates(c), UpdateOf(c, i, k, dep)
      PROVE  i \in Updates(c)' /\ UpdateOf(c, i, k, dep)'
  <2>1. i \in Updates(c)' /\ ops'[c][i].id = ops[c][i].id /\ ops'[c][i].dep = ops[c][i].dep
    BY OpsStay, UpdatesStay DEF Updates
  <2>2. Begun(c, i)' /\ pc'[c] # "sendUpdate"
    BY <1>1, BegunStays DEF UpdateOf
  <2> QED
    BY <1>1, <2>1, <2>2 DEF UpdateOf
<1>2. ASSUME NEW c \in Calls, RestoreOf(c, k, dep) PROVE RestoreOf(c, k, dep)'
  <2>1. restores'[c] = restores[c]
    BY <1>2, RestoresStay DEF RestoreOf
  <2> QED
    BY <1>2, <2>1 DEF RestoreOf
<1> QED
  BY <1>1, <1>2 DEF Later

\* The contract of an update, and what was there first, stay what they are.
LEMMA TargetStays ==
  ASSUME IInv, Next, NEW c \in Calls, NEW i \in Updates(c), Known(ops[c][i].id)
  PROVE  Known(ops[c][i].id)' /\ Original(ops[c][i].id)' = Original(ops[c][i].id)
<1>1. PICK id : id = ops[c][i].id
  OBVIOUS
<1>2. ops'[c][i].id = id
  BY <1>1, OpsStay DEF Updates
<1>3. Known(id)
  BY <1>1
<1>4. Known(id)' /\ Original(id)' = Original(id)
  BY <1>3, OriginalStays
<1>5. Known(ops[c][i].id)' /\ Original(ops[c][i].id)' = Original(id)'
  BY <1>2, <1>4 DEF Known, Original
<1> QED
  BY <1>1, <1>4, <1>5

\* A new update is of a deployment that is what it was first.
LEMMA MergedKept ==
  ASSUME IInv, Tracked, Next, Single', HeldOK, RestoresOK, MergedOK PROVE MergedOK'
<1> SUFFICES ASSUME NEW c \in Calls, NEW i \in Updates(c)'
             PROVE  /\ Known(ops[c][i].id)' /\ Original(ops[c][i].id)' \in Seq(Workload)
                    /\ ops'[c][i].dep.version = 1
                    /\ \E wanted \in Seq(Workload) : ops'[c][i].dep.workloads =
                         UpdateDeployment(Original(ops[c][i].id)', wanted, 0).workloads
  BY DEF MergedOK
<1>1. CASE ~Submit(c)
  <2>1. i \in Updates(c) /\ ops'[c][i].id = ops[c][i].id /\ ops'[c][i].dep = ops[c][i].dep
    BY <1>1, OpsStay, UpdatesStay DEF Updates
  <2>2. Known(ops[c][i].id)
    BY <2>1 DEF MergedOK
  <2>3. Known(ops[c][i].id)' /\ Original(ops[c][i].id)' = Original(ops[c][i].id)
    BY <2>1, <2>2, OriginalStays
  <2> QED
    BY <2>1, <2>3 DEF MergedOK
<1>2. CASE Submit(c)
  <2>1. PICK r \in Requests :
          /\ Positions(c)' = DOMAIN r
          /\ \A j \in DOMAIN r : r[j] \in Operation /\ Needed(r[j]) /\ ops'[c][j] = Resolve(r[j])
    BY <1>2, SubmitFacts
  <2>2. i \in DOMAIN r /\ r[i].verb = "update" /\ ops'[c][i].id = r[i].target
    BY <2>1, ResolveFacts DEF Updates
  <2> DEFINE k == r[i].target
  <2>3. k \in DOMAIN node /\ Known(k)
    BY <2>1, <2>2 DEF Needed, Tracked
  <2>4. ~Later(k, node[k].dep)
    <3>1. \A d \in Calls : Updates(d) = {}
      <4>1. Updates(c) = {}
        BY <1>2, SubmitFacts DEF Updates
      <4>2. \A d \in Calls : Updates(d) \subseteq Updates(d)'
        BY UpdatesStay
      <4> QED
        BY <4>1, <4>2 DEF Single, OneUpdate
    <3>2. \A d \in Calls : restores[d] = <<>>
      BY <3>1 DEF RestoresOK
    <3> QED
      BY <3>1, <3>2 DEF Later, RestoreOf
  <2>5. Pristine(k, node[k].dep)
    BY <2>3, <2>4 DEF HeldOK
  <2>6. ops'[c][i].dep = [workloads |-> Merged(r[i]).workloads, version |-> node[k].dep.version + 1]
    BY <2>1, <2>2, ResolveFacts
  <2>7. Merged(r[i]) = UpdateDeployment(Original(k), r[i].workloads, 0) /\ node[k].dep.version = 0
    BY <2>5 DEF Merged, Pristine
  <2>8. r[i].workloads \in Seq(Workload)
    BY <2>1, <2>2 DEF Operation
  <2>9. Known(k)' /\ Original(k)' = Original(k)
    BY <2>3, OriginalStays
  <2>10. Known(ops[c][i].id)' /\ Original(ops[c][i].id)' = Original(k)
    BY <2>2, <2>9 DEF Known, Original
  <2>11. Original(k) \in Seq(Workload)
    BY <2>5 DEF Pristine
  <2> QED
    BY <2>6, <2>7, <2>8, <2>10, <2>11
<1> QED
  BY <1>1, <1>2

\* The contract the code matches to a creation by its hash has the deployment of that
\* creation, also when it is another one of the call's.
LEMMA ResultIsPristine ==
  ASSUME IInv, Tracked, MergedOK, NEW c \in Calls, NEW i \in Creates(c)
  PROVE  Pristine(ResultFor(c, i), ops[c][i].dep)
<1> DEFINE same == {j \in Sent(c) : ops[c][j].dep = ops[c][i].dep}
           j == CHOOSE k \in same : \A m \in same : k <= m
<1>1. PICK n \in Nat : Positions(c) = 1..n
  BY DEF IInv, OpsOK
<1>2. Creates(c) \subseteq Positions(c) /\ Updates(c) \subseteq Positions(c)
  BY DEF Creates, Updates
<1>3. same \in SUBSET (1..n) /\ i \in same
  BY <1>1, <1>2 DEF Sent
<1>4. \E k \in same : \A m \in same : k <= m
  <2> HIDE DEF same
  <2> QED
    BY <1>3, FirstExists
<1>5. j \in same
  <2> HIDE DEF same
  <2> QED
    BY <1>4
<1>6. ResultFor(c, i) = IF ops[c][j].verb = "deploy" THEN NodeContract(c, j) ELSE ops[c][j].id
  BY DEF ResultFor
<1>7. j \in Sent(c) /\ ops[c][j].dep = ops[c][i].dep
  BY <1>5
<1> HIDE DEF j, same
<1>8. ops[c][i].dep.version = 0
  <2>1. PICK w : ops[c][i].dep = [workloads |-> w, version |-> 0]
    BY DEF Tracked
  <2> QED
    BY <2>1
<1>9. j \in Creates(c)
  BY <1>7, <1>8 DEF Sent, MergedOK
<1>10. ResultFor(c, i) = NodeContract(c, j)
  BY <1>6, <1>9 DEF Creates
<1> DEFINE k == NodeContract(c, j)
<1>11. k.by = c /\ k.op = j
  BY DEF NodeContract
<1>12. Known(k) /\ Original(k) = ops[c][j].dep.workloads
  BY <1>2, <1>9, <1>11 DEF Known, Original
<1> HIDE DEF k
<1>13. Pristine(k, ops[c][i].dep)
  BY <1>7, <1>9, <1>12 DEF Tracked, Pristine
<1> QED
  BY <1>10, <1>13 DEF k

LEMMA MessagesKept ==
  ASSUME IInv, Tracked, Next, OneUpdate, Restorable PROVE MessagesOK'
<1> USE DEF Restorable
<1>1. ASSUME NEW m \in inflight
      PROVE  \/ m.verb = "deploy" /\ Pristine(m.id, m.dep)'
             \/ m.verb = "update" /\ Later(m.id, m.dep)'
  BY <1>1, PristineStays, LaterStays DEF MessagesOK
<1>2. CASE inflight' \subseteq inflight
  BY <1>1, <1>2 DEF MessagesOK
<1>3. ASSUME NEW c \in Calls, Send(c) PROVE MessagesOK'
  <2> DEFINE i == pos[c]
             o == ops[c][i]
             id == IF o.verb = "deploy" THEN ResultFor(c, i) ELSE o.id
  <2>1. /\ inflight' = inflight \cup {Message(c, o.verb, id, o.dep)}
        /\ pc' = [pc EXCEPT ![c] = "await"] /\ pos' = pos
    BY <1>3 DEF Send
  <2>2. pc'[c] = "await" /\ pos[c] \in Nat
    BY <2>1 DEF IInv, TypeOK
  <2>3. i \in Creates(c) \/ i \in Updates(c)
    BY <1>3 DEF Send, IInv, OpsOK
  <2> SUFFICES ASSUME NEW m \in inflight', m = Message(c, o.verb, id, o.dep)
               PROVE  \/ m.verb = "deploy" /\ Pristine(m.id, m.dep)'
                      \/ m.verb = "update" /\ Later(m.id, m.dep)'
    BY <1>1, <2>1 DEF MessagesOK
  <2>4. m.verb = o.verb /\ m.id = id /\ m.dep = o.dep
    BY DEF Message
  <2>5. CASE i \in Creates(c)
    <3>1. o.verb = "deploy" /\ m.id = ResultFor(c, i)
      BY <2>4, <2>5 DEF Creates
    <3>2. Pristine(m.id, m.dep)
      BY <2>4, <2>5, <3>1, ResultIsPristine
    <3> QED
      BY <2>4, <3>1, <3>2, PristineStays
  <2>6. CASE i \in Updates(c)
    <3>1. PICK j \in Updates(c) : j = pos[c]
      BY <2>6
    <3>2. m.verb = "update" /\ m.id = ops[c][j].id /\ m.dep = ops[c][j].dep
      BY <2>4, <3>1 DEF Updates
    <3>3. j \in Updates(c)' /\ ops'[c][j].id = ops[c][j].id /\ ops'[c][j].dep = ops[c][j].dep
      BY OpsStay, UpdatesStay DEF Updates
    <3>4. UpdateOf(c, j, m.id, m.dep)'
      BY <2>1, <2>2, <3>1, <3>2, <3>3 DEF UpdateOf, Begun
    <3>5. Later(m.id, m.dep)'
      BY <3>3, <3>4 DEF Later
    <3> QED
      BY <3>2, <3>5
  <2> QED
    BY <2>3, <2>5, <2>6
<1>4. ASSUME NEW c \in Calls, Resend(c) PROVE MessagesOK'
  <2>1. PICK r : /\ r = restores[c][pos[c]] /\ pos[c] \in DOMAIN restores[c]
                 /\ inflight' = inflight \cup {Message(c, "update", r.id, r.dep)}
    BY <1>4 DEF Resend
  <2>2. PICK i \in Updates(c) : restores[c] = <<Undone(ops[c][i])>>
    BY <2>1 DEF RestoresOK
  <2>3. r = Undone(ops[c][i])
    BY <2>1, <2>2
  <2>4. r = [id |-> r.id, dep |-> r.dep]
    BY <2>3 DEF Undone
  <2>5. restores'[c] = restores[c]
    BY <1>4 DEF Resend
  <2>6. RestoreOf(c, r.id, r.dep)'
    BY <2>2, <2>3, <2>4, <2>5 DEF RestoreOf
  <2> QED
    BY <1>1, <2>1, <2>6 DEF MessagesOK, Later, Message
<1>5. ASSUME NEW c \in Calls, Submit(c) \/ Step(c) \/ Silence(c), ~Send(c), ~Resend(c) PROVE inflight' = inflight
  BY <1>5 DEF Submit, Step, Prepare, Reserve, Refuse, ReadOriginal, Answered, CancelDoomed,
              BecomeReady, Finish, Throw, ReadBack, Revert, Restored, RolledBack, Abandon, Hang, LookUp, Silence,
              nodeVars
<1>6. NodeStep => inflight' \subseteq inflight
  BY DEF NodeStep, NodeAccepts, NodeRuns, NodeDrops
<1> QED
  BY <1>2, <1>3, <1>4, <1>5, <1>6 DEF Next

\* What a node comes to hold has been sent to it.
LEMMA HeldAfter ==
  ASSUME IInv, Tracked, Next, OneUpdate, Restorable, NEW k \in DOMAIN node', NEW dep,
         node'[k].dep = dep
  PROVE  Pristine(k, dep)' \/ Later(k, dep)'
<1> USE DEF Restorable
<1>1. CASE k \in DOMAIN node /\ node[k].dep = dep
  <2>1. Pristine(k, dep) \/ Later(k, dep)
    BY <1>1 DEF HeldOK
  <2> QED
    BY <2>1, PristineStays, LaterStays
<1>2. ASSUME NEW m \in inflight, NodeAccepts(m), ~(k \in DOMAIN node /\ node[k].dep = dep)
      PROVE  k = m.id /\ dep = m.dep
  BY <1>2 DEF NodeAccepts
<1>3. ASSUME NEW m \in inflight, k = m.id, dep = m.dep PROVE Pristine(k, dep)' \/ Later(k, dep)'
  <2>1. Pristine(k, dep) \/ Later(k, dep)
    BY <1>3 DEF MessagesOK
  <2> QED
    BY <2>1, PristineStays, LaterStays
<1>4. ASSUME NEW j \in DOMAIN node, NodeRuns(j) PROVE k \in DOMAIN node /\ node[k].dep = dep
  <2>1. DOMAIN node[k] = {"dep", "state"} /\ k \in DOMAIN node
    BY <1>4 DEF NodeRuns, IInv, TypeOK
  <2>2. PICK s \in {"ok", "error"} : node' = [node EXCEPT ![j].state = s]
    BY <1>4 DEF NodeRuns
  <2>3. node'[k].dep = node[k].dep
    BY <2>1, <2>2
  <2> QED
    BY <2>1, <2>3
<1>5. ASSUME NEW j \in DOMAIN node, NodeDrops(j) PROVE k \in DOMAIN node /\ node[k].dep = dep
  BY <1>5 DEF NodeDrops, Without
<1>6. CASE \E c \in Calls : Submit(c) \/ Step(c) \/ Silence(c)
  BY <1>1, <1>6, CallsApart
<1> QED
  BY <1>1, <1>2, <1>3, <1>4, <1>5, <1>6 DEF Next, NodeStep

LEMMA HeldKept == ASSUME IInv, Tracked, Next, OneUpdate, Restorable PROVE HeldOK'
<1> SUFFICES ASSUME NEW k \in DOMAIN node'
             PROVE  Pristine(k, node[k].dep)' \/ Later(k, node[k].dep)'
  BY DEF HeldOK
<1>1. PICK dep : dep = node'[k].dep
  OBVIOUS
<1>2. Pristine(k, dep)' \/ Later(k, dep)'
  BY <1>1, HeldAfter
<1> QED
  BY <1>1, <1>2 DEF Pristine, Later, UpdateOf, RestoreOf

\* PrepareExtrinsic collects the one update, once.
LEMMA UpdatedKept == ASSUME IInv, Tracked, Next, OneUpdate, UpdatedOK PROVE UpdatedOK'
<1>0. DOMAIN updated = Calls /\ DOMAIN pos = Calls /\ DOMAIN pc = Calls
  BY DEF IInv, TypeOK
<1> SUFFICES ASSUME NEW d \in Calls
             PROVE  \/ updated'[d] = <<>>
                    \/ \E i \in Updates(d)' : /\ updated'[d] = <<ops'[d][i].id>>
                                              /\ pc'[d] = "prepare" => i < pos'[d]
  BY DEF UpdatedOK
<1>1. \A i \in Updates(d) : i \in Updates(d)' /\ ops'[d][i].id = ops[d][i].id
  BY OpsStay, UpdatesStay DEF Updates
<1>2. ASSUME updated'[d] = updated[d],
             pc'[d] = "prepare" => (pc[d] = "prepare" /\ pos'[d] = pos[d]) \/ updated[d] = <<>>
      PROVE  \/ updated'[d] = <<>>
             \/ \E i \in Updates(d)' : /\ updated'[d] = <<ops'[d][i].id>>
                                       /\ pc'[d] = "prepare" => i < pos'[d]
  <2> SUFFICES ASSUME updated[d] # <<>>
               PROVE  \E i \in Updates(d)' : /\ updated'[d] = <<ops'[d][i].id>>
                                             /\ pc'[d] = "prepare" => i < pos'[d]
    BY <1>2
  <2>1. PICK i \in Updates(d) : updated[d] = <<ops[d][i].id>> /\ (pc[d] = "prepare" => i < pos[d])
    BY DEF UpdatedOK
  <2> QED
    BY <1>1, <1>2, <2>1
<1>3. CASE Prepare(d)
  <2> DEFINE p == pos[d]
  <2>1. /\ p \in Positions(d) /\ p \in Nat /\ pos'[d] = p + 1 /\ pc' = pc /\ pc[d] = "prepare"
    BY <1>0, <1>3 DEF Prepare, IInv, TypeOK
  <2>2. updated'[d] = IF ops[d][p].verb = "update" THEN Append(updated[d], ops[d][p].id) ELSE updated[d]
    BY <1>0, <1>3 DEF Prepare
  <2>3. CASE ops[d][p].verb = "update"
    <3>1. p \in Updates(d)
      BY <2>1, <2>3 DEF Updates
    <3>2. updated[d] = <<>>
      <4> SUFFICES ASSUME updated[d] # <<>> PROVE FALSE
        OBVIOUS
      <4>1. PICK i \in Updates(d) : i < p
        BY <2>1 DEF UpdatedOK
      <4>2. i = p
        BY <3>1 DEF OneUpdate
      <4> QED
        BY <2>1, <4>1, <4>2
    <3>3. updated'[d] = <<ops[d][p].id>>
      BY <2>2, <2>3, <3>2
    <3> QED
      BY <1>1, <2>1, <3>1, <3>3
  <2>4. CASE ops[d][p].verb # "update"
    <3> SUFFICES ASSUME updated[d] # <<>>
                 PROVE  \E i \in Updates(d)' : updated'[d] = <<ops'[d][i].id>> /\ i < pos'[d]
      BY <2>2, <2>4
    <3>1. PICK i \in Updates(d) : updated[d] = <<ops[d][i].id>> /\ i < p
      BY <2>1 DEF UpdatedOK
    <3>2. i \in Nat
      BY DEF IInv, OpsOK, Updates
    <3> QED
      BY <1>1, <2>1, <2>2, <2>4, <3>1, <3>2
  <2> QED
    BY <2>3, <2>4
<1>4. CASE Submit(d)
  <2>1. updated' = updated /\ pc[d] = "idle"
    BY <1>4 DEF Submit
  <2> QED
    BY <2>1 DEF IInv, OpsOK
<1>5. CASE (Step(d) \/ Silence(d)) /\ ~Prepare(d)
  <2>1. updated' = updated
    BY <1>5 DEF Step, Reserve, Refuse, ReadOriginal, Send, Answered, CancelDoomed, BecomeReady,
                Finish, Throw, ReadBack, Revert, Resend, Restored, RolledBack, Abandon, Hang, LookUp, Silence
  <2>2. pc'[d] # "prepare"
    BY <1>0, <1>5 DEF Step, Reserve, Refuse, ReadOriginal, Send, Answered, CancelDoomed, BecomeReady,
                Finish, Throw, ReadBack, Revert, Resend, Restored, RolledBack, Abandon, Hang, LookUp, Silence
  <2> QED
    BY <1>2, <2>1, <2>2
<1>6. CASE \E c \in Calls : c # d /\ (Submit(c) \/ Step(c) \/ Silence(c))
  <2>1. PICK c \in Calls : c # d /\ (Submit(c) \/ Step(c) \/ Silence(c))
    BY <1>6
  <2>2. pc'[d] = pc[d] /\ pos'[d] = pos[d]
    BY <2>1, CallsApart
  <2>3. updated'[d] = updated[d]
    BY <1>0, <2>1 DEF Submit, Step, Prepare, Reserve, Refuse, ReadOriginal, Send, Answered,
                CancelDoomed, BecomeReady, Finish, Throw, ReadBack, Revert, Resend, Restored,
                RolledBack, Abandon, Hang, LookUp, Silence
  <2> QED
    BY <1>2, <2>2, <2>3
<1>7. CASE NodeStep
  <2>1. updated' = updated /\ pc' = pc /\ pos' = pos
    BY <1>7 DEF NodeStep, NodeAccepts, NodeRuns, NodeDrops
  <2> QED
    BY <1>2, <2>1
<1> QED
  BY <1>3, <1>4, <1>5, <1>6, <1>7 DEF Next

\* While its update is about to be read, the node still holds what was there first.
LEMMA ReadsPristine ==
  ASSUME IInv, OneUpdate, HeldOK, RestoresOK, NEW c \in Calls, ReadOriginal(c)
  PROVE  /\ Pristine(ops[c][pos[c]].id, node[ops[c][pos[c]].id].dep)
         /\ \A d \in Calls : \A j \in Updates(d) : ~Begun(d, j)
<1> DEFINE i == pos[c]
           id == ops[c][i].id
<1>1. pc[c] = "send" /\ i \in Updates(c) /\ id \in DOMAIN node /\ i \in Nat
  BY DEF ReadOriginal, IInv, TypeOK
<1>2. \A d \in Calls : \A j \in Updates(d) : d = c /\ j = i
  BY <1>1 DEF OneUpdate
<1>3. \A d \in Calls : \A j \in Updates(d) : ~Begun(d, j)
  BY <1>1, <1>2 DEF Begun
<1>4. \A d \in Calls : restores[d] = <<>>
  BY <1>1, <1>2 DEF RestoresOK
<1>5. ~Later(id, node[id].dep)
  BY <1>3, <1>4 DEF Later, UpdateOf, RestoreOf
<1> QED
  BY <1>1, <1>3, <1>5 DEF HeldOK

\* The list of originals holds what the one update replaces, until the rollback takes it.
LEMMA OriginalsKept ==
  ASSUME IInv, Tracked, Next, OneUpdate, Restorable PROVE OriginalsOK'
<1> USE DEF Restorable
<1>1. CASE originals' = originals
  <2> SUFFICES ASSUME originals # <<>> PROVE OriginalsOK'
    BY <1>1 DEF OriginalsOK
  <2>0. PICK c \in Calls : \E i \in Updates(c) :
          Begun(c, i) /\ originals = <<[workloads |-> Original(ops[c][i].id), version |-> 0]>>
    BY DEF OriginalsOK
  <2>1. PICK i \in Updates(c) :
          Begun(c, i) /\ originals = <<[workloads |-> Original(ops[c][i].id), version |-> 0]>>
    BY <2>0
  <2>2. Begun(c, i)' /\ i \in Updates(c)'
    BY <2>1, BegunStays, UpdatesStay
  <2>3. Original(ops[c][i].id)' = Original(ops[c][i].id)
    BY TargetStays DEF MergedOK
  <2> QED
    BY <1>1, <2>1, <2>2, <2>3 DEF OriginalsOK
<1>2. ASSUME NEW c \in Calls, ReadOriginal(c) PROVE OriginalsOK'
  <2> DEFINE i == pos[c]
             id == ops[c][i].id
  <2>1. /\ i \in Updates(c) /\ originals' = Append(originals, node[id].dep)
        /\ pc'[c] = "sendUpdate" /\ pos' = pos /\ ops' = ops /\ i \in Nat
    BY <1>2 DEF ReadOriginal, IInv, TypeOK
  <2>2. Pristine(id, node[id].dep) /\ originals = <<>>
    BY <1>2, ReadsPristine DEF OriginalsOK
  <2>3. originals' = <<[workloads |-> Original(id), version |-> 0]>>
    BY <2>1, <2>2 DEF Pristine
  <2>4. i \in Updates(c)' /\ Begun(c, i)' /\ Original(ops[c][i].id)' = Original(id)
    BY <2>1 DEF Begun, Updates, Positions, Original
  <2> QED
    BY <2>1, <2>3, <2>4 DEF OriginalsOK
<1>3. ASSUME NEW c \in Calls, ReadBack(c) PROVE originals' = originals \/ originals' = <<>>
  <2>1. \/ originals' = originals
        \/ originals # <<>> /\ originals' = SubSeq(originals, 1, Len(originals) - 1)
    BY <1>3 DEF ReadBack
  <2>2. originals # <<>> => Len(originals) = 1
    BY DEF OriginalsOK
  <2> QED
    BY <2>1, <2>2
<1>4. ASSUME NEW c \in Calls, Submit(c) \/ Step(c) \/ Silence(c), ~ReadOriginal(c), ~ReadBack(c)
      PROVE  originals' = originals
  BY <1>4 DEF Submit, Step, Prepare, Reserve, Refuse, Send, Answered, CancelDoomed, BecomeReady,
              Finish, Throw, Revert, Resend, Restored, RolledBack, Abandon, Hang, LookUp, Silence
<1>5. NodeStep => originals' = originals
  BY DEF NodeStep, NodeAccepts, NodeRuns, NodeDrops
<1>6. originals' = <<>> => OriginalsOK'
  BY DEF OriginalsOK
<1> QED
  BY <1>1, <1>2, <1>3, <1>4, <1>5, <1>6 DEF Next

\* The loop of the rollback leaves things alone, or records the update undone.
LEMMA ReadsBack ==
  ASSUME IInv, Tracked, Single, Restorable, NEW c \in Calls, ReadBack(c)
  PROVE  /\ pos'[c] = 2 /\ restores[c] = <<>> /\ pc' = pc /\ pc[c] = "rollback"
         /\ \/ restores'[c] = <<>>
            \/ \E i \in Updates(c) : restores'[c] = <<Undone(ops[c][i])>>
<1> USE DEF Restorable
<1>0. pos[c] = 1 /\ \E i \in Updates(c) : updated[c] = <<ops[c][i].id>>
  BY FirstTurn
<1>1. pos[c] = 1 /\ pc[c] = "rollback" /\ pc' = pc /\ pos'[c] = 2
  <2>1. pc[c] = "rollback" /\ pc' = pc /\ pos' = [pos EXCEPT ![c] = @ + 1]
    BY DEF ReadBack
  <2> QED
    BY <1>0, <2>1 DEF IInv, TypeOK
<1>2. restores[c] = <<>>
  BY <1>1 DEF RestoresOK
<1>3. PICK i \in Updates(c) : updated[c] = <<ops[c][i].id>>
  BY <1>0
<1>4. \A d \in Calls : \A j \in Updates(d) : d = c /\ j = i
  BY DEF Single, OneUpdate
<1> DEFINE id == ops[c][i].id
           old == Original(id)
           held == node[id].dep
           last == originals[Len(originals)]
           back == UpdateDeployment(held.workloads, last.workloads, held.version)
<1>5. id \in DOMAIN node /\ updated[c][pos[c]] = id
  BY <1>1, <1>3 DEF ReadBack
<1>6. CASE originals = <<>> \/ ~back.found
  <2>1. restores' = restores
    BY <1>5, <1>6 DEF ReadBack
  <2> QED
    BY <1>1, <1>2, <2>1
<1>7. CASE originals # <<>> /\ back.found
  <2>1. restores'[c] = <<[id |-> id, dep |-> [workloads |-> back.workloads,
                                              version |-> held.version + 1]]>>
    BY <1>2, <1>5, <1>7 DEF ReadBack, Tracked
  <2>2. originals = <<[workloads |-> old, version |-> 0]>>
    BY <1>4, <1>7 DEF OriginalsOK
  <2>3. last.workloads = old
    BY <2>2
  <2>4. old \in Seq(Workload) /\ Distinct(old)
    BY DEF MergedOK, Single, Undoable, Distinct
  <2>5. ~Pristine(id, held)
    <3> SUFFICES ASSUME Pristine(id, held) PROVE FALSE
      OBVIOUS
    <3>1. held.workloads = old /\ held.version = 0
      BY DEF Pristine
    <3>2. back = UpdateDeployment(old, old, 0)
      BY <2>3, <3>1
    <3> QED
      BY <1>7, <2>4, <3>2, NothingToUpdate
  <2>6. Later(id, held)
    BY <1>5, <2>5 DEF HeldOK
  <2>7. \A d \in Calls : restores[d] = <<>>
    BY <1>2, <1>4 DEF RestoresOK
  <2>8. held = ops[c][i].dep
    BY <1>4, <2>6, <2>7 DEF Later, UpdateOf, RestoreOf
  <2>9. ops[c][i].dep.version = 1
    BY DEF MergedOK
  <2>10. restores'[c] = <<Undone(ops[c][i])>>
    BY <2>1, <2>3, <2>8, <2>9 DEF Undone
  <2> QED
    BY <1>1, <1>2, <2>10
<1> QED
  BY <1>6, <1>7

LEMMA UndoneStays ==
  ASSUME IInv, Next, MergedOK, NEW c \in Calls, NEW i \in Updates(c)
  PROVE  i \in Updates(c)' /\ Undone(ops[c][i])' = Undone(ops[c][i])
<1>1. i \in Updates(c)' /\ ops'[c][i].id = ops[c][i].id /\ ops'[c][i].dep = ops[c][i].dep
  BY OpsStay, UpdatesStay DEF Updates
<1>2. Original(ops[c][i].id)' = Original(ops[c][i].id)
  BY TargetStays DEF MergedOK
<1> QED
  BY <1>1, <1>2 DEF Undone

\* What a rollback has recorded it keeps, to its end.
LEMMA RestoresKept ==
  ASSUME IInv, Tracked, Next, Single, Restorable PROVE RestoresOK'
<1> USE DEF Restorable
<1> DEFINE Ends == {"rollback", "resend", "awaitRestore", "failed", "unrestored", "stuck", "hung", "mute"}
<1> SUFFICES ASSUME NEW d \in Calls, restores'[d] # <<>>
             PROVE  /\ pc'[d] \in Ends /\ (pc'[d] = "rollback" => pos'[d] # 1)
                    /\ \E i \in Updates(d)' : restores'[d] = <<Undone(ops[d][i])'>>
  BY DEF RestoresOK
<1>1. \A i \in Updates(d) : i \in Updates(d)' /\ Undone(ops[d][i])' = Undone(ops[d][i])
  BY UndoneStays
<1>2. CASE ReadBack(d)
  BY <1>1, <1>2, ReadsBack
<1>3. CASE ~ReadBack(d)
  <2>1. restores'[d] = restores[d]
    BY <1>3, RestoresFrame
  <2>2. /\ pc[d] \in Ends /\ (pc[d] = "rollback" => pos[d] # 1)
        /\ \E i \in Updates(d) : restores[d] = <<Undone(ops[d][i])>>
    BY <2>1 DEF RestoresOK
  <2>3. CASE Step(d) \/ Silence(d)
    <3>1. pc'[d] \in Ends
      BY <2>2, <2>3, PcMoves
    <3>2. pc'[d] # "rollback"
      BY <1>3, <2>2, <2>3 DEF Step, Prepare, Reserve, Refuse, ReadOriginal, Send, Answered,
           CancelDoomed, BecomeReady, Finish, Throw, Revert, Resend, Restored, RolledBack, Abandon,
           Hang, LookUp, Silence, IInv, TypeOK
    <3> QED
      BY <1>1, <2>1, <2>2, <3>1, <3>2
  <2>4. ~Submit(d)
    BY <2>2 DEF Submit
  <2>5. CASE pc'[d] = pc[d] /\ pos'[d] = pos[d]
    BY <1>1, <2>1, <2>2, <2>5
  <2>6. CASE \E c \in Calls : c # d /\ (Submit(c) \/ Step(c) \/ Silence(c))
    BY <2>5, <2>6, CallsApart
  <2>7. CASE NodeStep
    BY <2>5, <2>7 DEF NodeStep, NodeAccepts, NodeRuns, NodeDrops
  <2> QED
    BY <2>3, <2>4, <2>6, <2>7 DEF Next
<1> QED
  BY <1>2, <1>3

\* What is recorded is a version 2 of the contract of an update.
LEMMA RestoreFacts ==
  ASSUME Tracked, MergedOK, RestoresOK, NEW d \in Calls, NEW k, NEW dep, RestoreOf(d, k, dep)
  PROVE  dep.version = 2 /\ k \in DOMAIN node \cup cancelled
<1>1. PICK i \in Updates(d) : restores[d] = <<Undone(ops[d][i])>>
  BY DEF RestoreOf, RestoresOK
<1>2. restores[d][1] = [id |-> k, dep |-> dep] /\ restores[d][1] = Undone(ops[d][i])
  BY <1>1 DEF RestoreOf
<1>3. k = ops[d][i].id /\ dep = Undone(ops[d][i]).dep
  BY <1>2 DEF Undone
<1>4. dep.version = 2
  BY <1>3 DEF Undone
<1> QED
  BY <1>3, <1>4 DEF Tracked

\* A node that has taken the update undone takes no other deployment for that contract:
\* what is still under way is behind it.
LEMMA NothingNewer ==
  ASSUME IInv, Tracked, Restorable, NEW d \in Calls, NEW k, NEW dep, RestoreOf(d, k, dep),
         NEW m \in inflight, NodeAccepts(m), m.id = k
  PROVE  k \in DOMAIN node /\ node[k].dep # dep
<1> USE DEF Restorable
<1>1. dep.version = 2 /\ k \in DOMAIN node \cup cancelled
  BY RestoreFacts
<1>2. k \in DOMAIN node
  BY <1>1 DEF Tracked, NodeAccepts
<1>3. m.verb # "deploy" /\ node[k].dep.version + 1 = m.dep.version
  BY <1>2 DEF NodeAccepts
<1>4. Later(k, m.dep)
  BY <1>3 DEF MessagesOK
<1>5. m.dep.version \in {1, 2}
  <2>1. CASE \E c \in Calls : \E i \in Updates(c) : UpdateOf(c, i, k, m.dep)
    BY <2>1 DEF UpdateOf, MergedOK
  <2>2. CASE \E c \in Calls : RestoreOf(c, k, m.dep)
    BY <2>2, RestoreFacts
  <2> QED
    BY <1>4, <2>1, <2>2 DEF Later
<1> QED
  BY <1>1, <1>2, <1>3, <1>5

\* A rollback that has had its answer stays with what the node then held.
LEMMA AckedKept == ASSUME IInv, Tracked, Next, Single, Restorable PROVE AckedOK'
<1> USE DEF Restorable
<1>0. DOMAIN pc = Calls /\ DOMAIN pos = Calls /\ DOMAIN reply = Calls
  BY DEF IInv, TypeOK
<1>1. ASSUME NEW d \in Calls, pc'[d] = "awaitRestore"
      PROVE  pos'[d] = 1 /\ restores'[d] # <<>>
  <2>1. ~ReadBack(d)
    <3>1. ReadBack(d) => pc'[d] = "rollback"
      BY DEF ReadBack
    <3> QED
      BY <1>1, <3>1
  <2>2. restores'[d] = restores[d]
    BY <2>1, RestoresFrame
  <2>3. CASE Resend(d)
    <3>1. pos[d] \in DOMAIN restores[d] /\ pos'[d] = pos[d]
      BY <2>3 DEF Resend
    <3>2. \E i \in Updates(d) : restores[d] = <<Undone(ops[d][i])>>
      BY <3>1 DEF RestoresOK
    <3> QED
      BY <2>2, <3>1, <3>2
  <2>4. CASE (Step(d) \/ Silence(d)) /\ ~Resend(d)
    BY <1>0, <1>1, <2>1, <2>4 DEF Step, Prepare, Reserve, Refuse, ReadOriginal, Send, Answered,
           CancelDoomed, BecomeReady, Finish, Throw, Revert, Restored, RolledBack, Abandon, Hang, LookUp, Silence
  <2>5. ~Submit(d)
    BY <1>0, <1>1 DEF Submit, CheckOutcomes
  <2>6. CASE \E c \in Calls : c # d /\ (Submit(c) \/ Step(c) \/ Silence(c))
    BY <1>1, <2>2, <2>6, CallsApart DEF AckedOK
  <2>7. CASE NodeStep
    BY <1>1, <2>2, <2>7 DEF NodeStep, NodeAccepts, NodeRuns, NodeDrops, AckedOK
  <2> QED
    BY <2>3, <2>4, <2>5, <2>6, <2>7 DEF Next
<1>2. ASSUME NEW d \in Calls, Acked(d)', NEW k \in DOMAIN node', NEW dep, RestoreOf(d, k, dep)'
      PROVE  node'[k].dep = dep
  <2>0. Acked(d) => \A j \in DOMAIN node : RestoreOf(d, j, dep) => node[j].dep = dep
    BY DEF AckedOK
  <2>1. ~ReadBack(d)
    <3>1. ReadBack(d) => pc'[d] = "rollback"
      BY DEF ReadBack
    <3> QED
      BY <1>2, <3>1 DEF Acked
  <2>2. restores'[d] = restores[d] /\ RestoreOf(d, k, dep)
    BY <1>2, <2>1, RestoresFrame DEF RestoreOf
  <2>3. /\ pc[d] \in {"rollback", "resend", "awaitRestore", "failed", "unrestored", "stuck", "hung", "mute"}
        /\ DOMAIN restores[d] = {1}
    <3>1. restores[d] # <<>> /\ restores[d] = <<[id |-> k, dep |-> dep]>>
      BY <2>2 DEF RestoreOf
    <3>2. DOMAIN restores[d] = {1}
      BY <3>1
    <3> QED
      BY <3>1, <3>2 DEF RestoresOK
  <2>4. CASE Step(d) \/ Silence(d)
    <3>1. node' = node
      BY <2>4, CallsApart
    <3>2. Acked(d)
      <4>1. CASE Restored(d)
        BY <4>1 DEF Restored, Acked
      <4>2. CASE RolledBack(d)
        BY <2>3, <4>2 DEF RolledBack, Acked
      <4>3. CASE Resend(d)
        BY <1>0, <1>2, <4>3 DEF Resend, Acked
      <4>4. CASE Revert(d)
        BY <1>0, <1>2, <4>4 DEF Revert, Acked
      <4>5. CASE (Step(d) \/ Silence(d)) /\ ~Restored(d) /\ ~RolledBack(d) /\ ~Resend(d) /\ ~Revert(d)
        <5>1. pc'[d] \notin {"failed", "resend", "awaitRestore"}
          BY <1>0, <2>1, <2>3, <4>5 DEF Step, Prepare, Reserve, Refuse, ReadOriginal, Send, Answered,
               CancelDoomed, BecomeReady, Finish, Throw, Abandon, Hang, LookUp, Silence
        <5> QED
          BY <1>2, <5>1 DEF Acked
      <4> QED
        BY <2>4, <4>1, <4>2, <4>3, <4>4, <4>5
    <3> QED
      BY <1>2, <2>0, <2>2, <3>1, <3>2
  <2>5. ~Submit(d)
    BY <2>3 DEF Submit
  <2>6. CASE \E c \in Calls : c # d /\ (Submit(c) \/ Step(c) \/ Silence(c))
    <3>1. node' = node /\ pc'[d] = pc[d] /\ pos'[d] = pos[d] /\ reply'[d] = reply[d]
      BY <2>6, CallsApart
    <3> QED
      BY <1>2, <2>0, <2>2, <3>1 DEF Acked
  <2>7. CASE \E j \in DOMAIN node : NodeRuns(j)
    <3>1. PICK j \in DOMAIN node : NodeRuns(j)
      BY <2>7
    <3>2. Acked(d)
      BY <1>2, <3>1 DEF NodeRuns, Acked
    <3>3. PICK s \in {"ok", "error"} : node' = [node EXCEPT ![j].state = s]
      BY <3>1 DEF NodeRuns
    <3>4. k \in DOMAIN node /\ DOMAIN node[k] = {"dep", "state"}
      BY <3>3 DEF IInv, TypeOK
    <3>5. node'[k].dep = node[k].dep
      BY <3>3, <3>4
    <3> QED
      BY <2>0, <2>2, <3>2, <3>4, <3>5
  <2>8. CASE \E j \in DOMAIN node : NodeDrops(j)
    BY <1>2, <2>0, <2>2, <2>8 DEF NodeDrops, Without, Acked
  <2>9. ASSUME NEW m \in inflight, NodeAccepts(m) PROVE node'[k].dep = dep
    <3>1. /\ pc' = pc /\ pos' = pos
          /\ node' = [j \in DOMAIN node \cup {m.id} |->
                        IF j = m.id THEN [dep |-> m.dep, state |-> "init"] ELSE node[j]]
          /\ reply' = [c \in Calls |-> IF c = m.from /\ Awaits(c, m) THEN "ok" ELSE reply[c]]
      BY <2>9 DEF NodeAccepts
    <3>2. CASE Acked(d)
      <4>1. k \in DOMAIN node => node[k].dep = dep
        BY <2>0, <2>2, <3>2
      <4>2. m.id # k
        BY <2>2, <2>9, <4>1, NothingNewer
      <4> QED
        BY <3>1, <4>1, <4>2
    <3>3. CASE ~Acked(d)
      <4>1. pc[d] = "awaitRestore" /\ reply'[d] # reply[d]
        BY <1>2, <3>1, <3>3 DEF Acked
      <4>2. Awaits(d, m)
        BY <3>1, <4>1
      <4>3. pos[d] = 1
        BY <4>1 DEF AckedOK
      <4>4. restores[d][pos[d]] = [id |-> k, dep |-> dep]
        BY <2>2, <4>3 DEF RestoreOf
      <4>5. m = Message(d, "update", k, dep)
        BY <4>1, <4>2, <4>4 DEF Awaits
      <4>6. m.id = k /\ m.dep = dep
        BY <4>5 DEF Message
      <4> QED
        BY <3>1, <4>6
    <3> QED
      BY <3>2, <3>3
  <2> QED
    BY <2>4, <2>5, <2>6, <2>7, <2>8, <2>9 DEF Next, NodeStep
<1> QED
  BY <1>1, <1>2 DEF AckedOK

LEMMA RestorableInit == Init => Restorable
<1> SUFFICES ASSUME Init PROVE Restorable
  OBVIOUS
<1>1. \A c \in Calls : Positions(c) = {} /\ restores[c] = <<>> /\ updated[c] = <<>> /\ pc[c] = "idle"
  BY DEF Init, Positions
<1>2. inflight = {} /\ originals = <<>>
  BY DEF Init
<1>3. ASSUME NEW k \in DOMAIN node PROVE Pristine(k, node[k].dep)
  <2>1. k \in Preexisting /\ node[k].dep = [workloads |-> OldWorkloads[k], version |-> 0]
    BY DEF Init
  <2>2. k.by \notin Calls /\ OldWorkloads[k] \in Seq(Workload)
    BY <2>1, TwinAssumption DEF MadeBy
  <2> QED
    BY <2>1, <2>2 DEF Pristine, Known, Original
<1>4. \A c \in Calls : Updates(c) = {}
  BY <1>1 DEF Updates
<1>5. HeldOK /\ MessagesOK
  BY <1>2, <1>3 DEF HeldOK, MessagesOK
<1>6. MergedOK /\ UpdatedOK /\ OriginalsOK /\ RestoresOK
  BY <1>1, <1>2, <1>4 DEF MergedOK, UpdatedOK, OriginalsOK, RestoresOK
<1>7. AckedOK
  BY <1>1 DEF AckedOK, Acked
<1> QED
  BY <1>5, <1>6, <1>7 DEF Restorable

LEMMA RestorableNext ==
  IInv /\ Tracked /\ (Single => Restorable) /\ [Next]_vars => (Single => Restorable)'
<1>1. ASSUME IInv, Tracked, Single => Restorable, Next, Single' PROVE Restorable'
  <2>1. Single /\ OneUpdate /\ Restorable
    BY <1>1, SingleBefore DEF Single
  <2>2. HeldOK' /\ MessagesOK' /\ UpdatedOK' /\ OriginalsOK'
    BY <1>1, <2>1, HeldKept, MessagesKept, UpdatedKept, OriginalsKept DEF Restorable
  <2>3. MergedOK'
    BY <1>1, <2>1, MergedKept DEF Restorable
  <2>4. RestoresOK' /\ AckedOK'
    BY <1>1, <2>1, RestoresKept, AckedKept
  <2> QED
    BY <2>2, <2>3, <2>4 DEF Restorable
<1>2. ASSUME Single => Restorable, UNCHANGED vars PROVE (Single => Restorable)'
  <2>1. Single' = Single
    <3>1. ops' = ops
      BY <1>2 DEF vars
    <3>2. OneUpdate' = OneUpdate /\ \A c \in Calls : Updates(c)' = Updates(c)
      BY <3>1 DEF OneUpdate, Updates, Positions
    <3>3. ASSUME NEW c \in Calls, NEW i \in Updates(c)
          PROVE  Undoable(Original(ops[c][i].id), ops[c][i].dep.workloads)'
                   = Undoable(Original(ops[c][i].id), ops[c][i].dep.workloads)
      <4>1. Original(ops[c][i].id)' = Original(ops[c][i].id)
        BY <3>1 DEF Original
      <4> QED
        BY <3>1, <4>1
    <3> QED
      BY <3>2, <3>3 DEF Single
  <2>2. /\ HeldOK' = HeldOK /\ MessagesOK' = MessagesOK /\ MergedOK' = MergedOK
        /\ UpdatedOK' = UpdatedOK /\ OriginalsOK' = OriginalsOK /\ RestoresOK' = RestoresOK
        /\ AckedOK' = AckedOK
    BY <1>2 DEF vars, HeldOK, MessagesOK, MergedOK, UpdatedOK, OriginalsOK, RestoresOK, AckedOK,
         Pristine, Later, UpdateOf, RestoreOf, Begun, Known, Original, Undone, Acked, Updates,
         Positions
  <2> QED
    BY <1>2, <2>1, <2>2 DEF Restorable
<1> QED
  BY <1>1, <1>2

\* The case of the rollback: the update is version 1, what undoes it is made from that.
LEMMA FirstUpdateUndone ==
  ASSUME NEW old \in Seq(Workload), NEW wanted \in Seq(Workload), NEW sent,
         sent = UpdateDeployment(old, wanted, 0).workloads, Undoable(old, sent)
  PROVE  Contents(UpdateDeployment(sent, old, 1).workloads) = Contents(old)
<1>1. \A v, u \in Nat :
        sent = UpdateDeployment(old, wanted, v).workloads =>
          Contents(UpdateDeployment(sent, old, u).workloads) = Contents(old)
  BY UpdateUndone
<1>2. 0 \in Nat /\ 1 \in Nat
  OBVIOUS
<1> QED
  BY <1>1, <1>2

\* What the invariants say of a call that has failed.
LEMMA RestoredFollows ==
  ASSUME IInv, Single => Restorable PROVE RestoredIsOriginal
<1> SUFFICES ASSUME OneUpdate, NEW c \in Calls, pc[c] = "failed", NEW i \in Updates(c),
                    NEW k, k = ops[c][i].id, k \in RestoreIds(c) \cap DOMAIN node,
                    Undoable(Original(k), ops[c][i].dep.workloads)
             PROVE  Contents(node[k].dep.workloads) = Contents(Original(k))
  BY DEF RestoredIsOriginal
<1>1. \A d \in Calls : \A j \in Updates(d) : d = c /\ j = i
  BY DEF OneUpdate
<1>2. Restorable
  BY <1>1 DEF Single
<1> USE <1>2 DEF Restorable
<1>3. restores[c] # <<>>
  BY DEF RestoreIds
<1>4. restores[c] = <<Undone(ops[c][i])>>
  BY <1>1, <1>3 DEF RestoresOK
<1> DEFINE sent == ops[c][i].dep.workloads
           old == Original(k)
           dep == [workloads |-> UpdateDeployment(sent, old, 1).workloads, version |-> 2]
<1>5. RestoreOf(c, k, dep)
  BY <1>4 DEF Undone, RestoreOf
<1>6. node[k].dep = dep
  BY <1>5 DEF AckedOK, Acked
<1>7. old \in Seq(Workload)
  BY DEF MergedOK
<1>8. PICK wanted \in Seq(Workload) : sent = UpdateDeployment(old, wanted, 0).workloads
  BY DEF MergedOK
<1>9. Undoable(old, sent)
  OBVIOUS
<1>11. node[k].dep.workloads = UpdateDeployment(sent, old, 1).workloads
  BY <1>6
<1> HIDE DEF old, sent, dep
<1>10. Contents(UpdateDeployment(sent, old, 1).workloads) = Contents(old)
  BY <1>7, <1>8, <1>9, FirstUpdateUndone
<1> QED
  BY <1>10, <1>11 DEF old

\* A deployment that the rollback of a failed call has put back runs what it ran before
\* (rollback, twinDeploymentHandler.ts:405-456), while the handler object serves one
\* update and UpdateDeployment can undo it: late answers, other calls and deletions
\* notwithstanding.
THEOREM RollbackRestores == Spec => []RestoredIsOriginal
<1>1. Init => IInv /\ Tracked /\ (Single => Restorable)
  BY InitInv, TrackedInit, RestorableInit
<1>2. IInv /\ Tracked /\ (Single => Restorable) /\ [Next]_vars
        => (IInv /\ Tracked /\ (Single => Restorable))'
  BY NextInv, TrackedNext, RestorableNext
<1>3. IInv /\ (Single => Restorable) => RestoredIsOriginal
  BY RestoredFollows
<1> QED
  BY <1>1, <1>2, <1>3, PTL DEF Spec
=============================================================================
