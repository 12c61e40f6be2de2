------------------------ MODULE BaseModule_proofs ------------------------
(***************************************************************************)
(* Theorems of BaseModule, for any calls, wishes and number of restarts.   *)
(***************************************************************************)
EXTENDS BaseModule, DeploymentUpdate_proofs, TLAPS, FiniteSetTheorems

-----------------------------------------------------------------------------
(* The inductive invariant.                                                  *)

States == {"idle", "asking", "getting", "planning", "handling", "saving"} \cup Over

Jobs ==
  [op : {"get", "delete"}] \cup [op : {"deploy", "update"}, wish : Wishes]
  \cup [op : {"add"}, extra : Extras]

\* The contracts a call has made, those it is about to save as new, and those it
\* deletes.
Of(c) == {k \in chain : site[k].by = c}
New(c) == DOMAIN plan[c].new
Del(c) == plan[c].delete

\* What a listing may miss.
Missed == lost \cup emptied

GridOK ==
  /\ made \in Nat /\ crashes \in 0 .. MaxCrashes
  /\ chain \subseteq 1 .. made /\ DOMAIN site = 1 .. made /\ DOMAIN body \subseteq chain
  /\ indexed \subseteq 1 .. made /\ newContracts \subseteq 1 .. made
  /\ deletedContracts \subseteq 1 .. made /\ deletedContracts \cap chain \subseteq emptied
  /\ aged \subseteq newContracts
  /\ contracts = Unlisted \/ contracts \subseteq 1 .. made

\* The variables of the calls are functions.
MapsOK ==
  /\ pc = [c \in Calls |-> pc[c]] /\ job = [c \in Calls |-> job[c]]
  /\ answer = [c \in Calls |-> answer[c]] /\ todo = [c \in Calls |-> todo[c]]
  /\ found = [c \in Calls |-> found[c]] /\ plan = [c \in Calls |-> plan[c]]
  /\ before = [c \in Calls |-> before[c]]

\* What a call works on.
LocalOK(c) ==
  /\ pc[c] \in States
  /\ answer[c] \cup todo[c] \cup DOMAIN found[c] \cup Del(c) \cup New(c) \subseteq 1 .. made
  /\ DOMAIN plan[c] = {"create", "update", "delete", "new"}
  /\ pc[c] \in {"asking", "getting", "planning"} => job[c] \in Jobs
  /\ pc[c] = "getting" => job[c].op # "deploy"
  /\ pc[c] = "planning" => job[c].op # "get"
  /\ pc[c] \notin {"handling", "saving"} => New(c) = {}

\* The contracts handle() has just made, no other call has seen; those it has
\* deleted, or is done with, are gone.
HandledOK(c) ==
  /\ pc[c] = "handling" => New(c) \subseteq chain \ DOMAIN body
  /\ pc[c] # "handling" => Del(c) \cap chain = {}

\* A contract is one of a call under way, or it is in the index or on the list,
\* or lost; an answer under way completes the list for the calls that were over.
ListedOK(c) ==
  /\ before[c] \subseteq {d \in Calls : pc[d] \in Over}
  /\ answer[c] \cap chain \subseteq indexed
  /\ pc[c] \notin Over => Of(c) \subseteq New(c)
  /\ pc[c] \in Over => Of(c) \subseteq indexed \cup newContracts \cup lost
  /\ pc[c] = "asking" =>
       \A d \in before[c] : Of(d) \subseteq answer[c] \cup newContracts \cup lost
  /\ pc[c] = "planning" /\ job[c].op = "deploy" =>
       \A d \in before[c] : Of(d) \subseteq Missed

ApartOK(c, d) ==
  pc[c] = "handling" =>
    /\ New(c) \cap (DOMAIN found[d] \cup Del(d)) = {}
    /\ c # d /\ pc[d] = "handling" => New(c) \cap New(d) = {}

\* What a deployed name has cost the calls that were over before.
SiteOK(k) ==
  /\ site[k].by \in Calls
  /\ site[k].op = "deploy" => \A d \in before[site[k].by] : Of(d) \subseteq Missed

IInv ==
  /\ GridOK /\ MapsOK
  /\ \A c \in Calls : LocalOK(c) /\ HandledOK(c) /\ ListedOK(c)
  /\ \A c, d \in Calls : ApartOK(c, d)
  /\ \A k \in chain : SiteOK(k)

-----------------------------------------------------------------------------
(* Elementary facts.                                                         *)

\* A set has as many contracts opened for it as it has elements.
LEMMA Numbered ==
  ASSUME NEW S, IsFiniteSet(S), NEW n \in Nat
  PROVE  /\ Cardinality(S) \in Nat
         /\ \E f \in [(n + 1) .. (n + Cardinality(S)) -> S] : Range(f) = S
<1>1. Cardinality(S) \in Nat
  BY FS_CardinalityType
<1>2. PICK b \in Bijection(1 .. Cardinality(S), S) : TRUE
  BY FS_CardinalityType DEF ExistsBijection
<1>3. b \in [1 .. Cardinality(S) -> S] /\ \A x \in S : \E i \in 1 .. Cardinality(S) : b[i] = x
  BY <1>2 DEF Bijection, Injection, Surjection
<1> DEFINE f == [k \in (n + 1) .. (n + Cardinality(S)) |-> b[k - n]]
<1>4. \A k \in (n + 1) .. (n + Cardinality(S)) : k - n \in 1 .. Cardinality(S)
  BY <1>1
<1>5. f \in [(n + 1) .. (n + Cardinality(S)) -> S]
  BY <1>3, <1>4
<1>6. \A i \in 1 .. Cardinality(S) :
        i + n \in (n + 1) .. (n + Cardinality(S)) /\ f[i + n] = b[i]
  BY <1>1
<1>7. Range(f) = S
  BY <1>3, <1>5, <1>6 DEF Range
<1> QED
  BY <1>1, <1>5, <1>7

\* An assignment at c, and none.
LEMMA Assigned ==
  ASSUME NEW f, f = [d \in Calls |-> f[d]], NEW c \in Calls, NEW x,
         NEW g, g = [f EXCEPT ![c] = x]
  PROVE  /\ g = [d \in Calls |-> g[d]]
         /\ g[c] = x
         /\ \A d \in Calls \ {c} : g[d] = f[d]
OBVIOUS

-----------------------------------------------------------------------------
(* The initial state and steps that leave the calls alone.                   *)

LEMMA InitInv == Init => IInv
<1> SUFFICES ASSUME Init PROVE IInv
  OBVIOUS
<1> USE DEF Init
<1>1. GridOK
  BY BaseAssumption DEF GridOK
<1>2. MapsOK
  BY DEF MapsOK
<1>3. ASSUME NEW c \in Calls PROVE LocalOK(c) /\ HandledOK(c) /\ ListedOK(c)
  BY DEF LocalOK, HandledOK, ListedOK, States, NoPlan, New, Del, Of, Over
<1>4. \A c, d \in Calls : ApartOK(c, d)
  BY DEF ApartOK
<1> QED
  BY <1>1, <1>2, <1>3, <1>4 DEF IInv

\* What is said of a call rests on its own variables and on these.
LEMMA Untouched ==
  ASSUME IInv, UNCHANGED <<pc, job, answer, todo, found, plan, before, grid>>,
         GridOK', lost \subseteq lost', emptied \subseteq emptied',
         indexed \cap chain \subseteq indexed',
         (indexed \cup newContracts) \cap chain \subseteq indexed' \cup newContracts' \cup lost',
         newContracts \cap chain \subseteq newContracts' \cup lost'
  PROVE  IInv'
<1> USE DEF grid
<1>1. MapsOK'
  BY DEF IInv, MapsOK
<1>2. ASSUME NEW c \in Calls PROVE Of(c)' = Of(c) /\ New(c)' = New(c) /\ Del(c)' = Del(c)
  BY DEF Of, New, Del
<1>3. ASSUME NEW c \in Calls PROVE LocalOK(c)' /\ HandledOK(c)'
  BY <1>2 DEF IInv, LocalOK, HandledOK
<1>4. ASSUME NEW c \in Calls PROVE ListedOK(c)'
  <2>1. \A d \in Calls : Of(d) \subseteq chain
    BY DEF Of
  <2>2. before[c] \subseteq Calls
    BY DEF IInv, ListedOK
  <2> QED
    BY <1>2, <2>1, <2>2 DEF IInv, ListedOK, Missed
<1>5. ASSUME NEW c \in Calls, NEW d \in Calls PROVE ApartOK(c, d)'
  BY <1>2 DEF IInv, ApartOK
<1>6. ASSUME NEW k \in chain PROVE SiteOK(k)'
  <2>1. before[site[k].by] \subseteq Calls
    BY DEF IInv, SiteOK, ListedOK
  <2> QED
    BY <1>2, <2>1 DEF IInv, SiteOK, Missed
<1> QED
  BY <1>1, <1>3, <1>4, <1>5, <1>6 DEF IInv

LEMMA StutterInv == ASSUME IInv, UNCHANGED vars PROVE IInv'
<1>1. GridOK'
  BY DEF IInv, GridOK, vars, grid, lists, history
<1> QED
  BY <1>1, Untouched DEF vars, grid, lists, local, history

LEMMA IndexInv == ASSUME IInv, NEW k \in 1 .. made, Index(k) PROVE IInv'
<1>1. GridOK'
  BY DEF IInv, GridOK, Index, grid, lists, history
<1>2. indexed \cap chain \subseteq indexed'
  BY DEF Index
<1> QED
  BY <1>1, <1>2, Untouched DEF Index, lists, local, history

LEMMA AgeInv == ASSUME IInv, NEW k \in 1 .. made, Age(k) PROVE IInv'
<1>1. GridOK'
  BY DEF IInv, GridOK, Age, grid, history
<1> QED
  BY <1>1, Untouched DEF Age, local, history

\* A restart: the calls are over, and their contracts indexed or lost.
LEMMA CrashInv == ASSUME IInv, Crash PROVE IInv'
<1> USE DEF grid
<1>1. GridOK'
  BY BaseAssumption DEF IInv, GridOK, Crash
<1>2. MapsOK'
  BY DEF IInv, MapsOK, Crash
<1>3. ASSUME NEW c \in Calls
      PROVE  /\ pc'[c] \in Over \cup {"idle"}
             /\ pc[c] \in Over \cup {"idle"} => pc'[c] = pc[c]
             /\ pc[c] # "idle" => pc'[c] \in Over
             /\ answer'[c] = {} /\ todo'[c] = {} /\ DOMAIN found'[c] = {}
             /\ New(c)' = {} /\ Del(c)' = {} /\ Of(c)' = Of(c)
             /\ DOMAIN plan'[c] = {"create", "update", "delete", "new"}
  BY DEF Crash, Busy, Over, New, Del, Of, NoPlan
<1>4. \A c \in Calls : LocalOK(c)' /\ HandledOK(c)'
  BY <1>3 DEF LocalOK, HandledOK, States, Over
<1>5. ASSUME NEW c \in Calls PROVE ListedOK(c)'
  <2>1. /\ chain \subseteq indexed' \cup lost' /\ lost \subseteq lost'
        /\ before' = before /\ chain' = chain
    BY DEF Crash
  <2>2. Of(c) \subseteq chain /\ (pc[c] = "idle" => Of(c) = {})
    BY DEF IInv, LocalOK, ListedOK, Of, Over
  <2>3. before[c]' \subseteq {d \in Calls : pc'[d] \in Over}
    BY <1>3, <2>1 DEF IInv, ListedOK
  <2> QED
    BY <1>3, <2>1, <2>2, <2>3 DEF ListedOK, Over
<1>6. \A c, d \in Calls : ApartOK(c, d)'
  BY <1>3 DEF ApartOK, Over
<1>7. ASSUME NEW k \in chain' PROVE SiteOK(k)'
  <2>1. /\ k \in chain /\ site' = site /\ before' = before /\ Missed \subseteq Missed'
    BY DEF Crash, Missed
  <2>2. before[site[k].by] \subseteq Calls
    BY <2>1 DEF IInv, SiteOK, ListedOK
  <2> QED
    BY <1>3, <2>1, <2>2 DEF IInv, SiteOK
<1> QED
  BY <1>1, <1>2, <1>4, <1>5, <1>6, <1>7 DEF IInv

-----------------------------------------------------------------------------
(* A step of one call.                                                       *)

\* The call c makes a step; nothing else of the calls changes.
OnlyOf(c) ==
  \A d \in Calls \ {c} :
    /\ pc'[d] = pc[d] /\ job'[d] = job[d] /\ answer'[d] = answer[d]
    /\ todo'[d] = todo[d] /\ found'[d] = found[d] /\ plan'[d] = plan[d]
    /\ before'[d] = before[d]

\* What a step of c owes the others: the contracts it makes are new and its own,
\* those of the others stay until they are handled, and what leaves the list is
\* in the index, in the answers under way, or lost.
Owed(c) ==
  /\ 1 .. made \subseteq 1 .. made' /\ indexed' = indexed
  /\ lost \subseteq lost' /\ emptied \subseteq emptied'
  /\ \A k \in chain \cap chain' : site'[k] = site[k]
  /\ \A k \in chain' \ chain : k \notin 1 .. made /\ site'[k].by = c
  /\ \A d \in Calls \ {c} : pc[d] = "handling" =>
       /\ New(d) \subseteq chain' \ DOMAIN body'
       /\ New(d) \cap (DOMAIN found'[c] \cup plan'[c].delete) = {}
  /\ newContracts \cap chain' \subseteq indexed \cup newContracts' \cup lost'
  /\ \A d \in Calls \ {c} : pc[d] = "asking" =>
       newContracts \cap chain' \subseteq answer[d] \cup newContracts' \cup lost'

LEMMA StepInv ==
  ASSUME IInv, NEW c \in Calls, pc[c] \notin Over, pc[c] = "idle" \/ before'[c] = before[c],
         GridOK', MapsOK', OnlyOf(c), Owed(c),
         LocalOK(c)', HandledOK(c)', ListedOK(c)',
         pc'[c] = "handling" => DOMAIN plan'[c].new \cap (1 .. made) = {}
                                /\ DOMAIN found'[c] \cup plan'[c].delete \subseteq 1 .. made,
         \A k \in chain' \ chain : SiteOK(k)'
  PROVE  IInv'
<1>1. \A d \in Calls : before[d] \subseteq Calls \ {c} /\ \A e \in before[d] : pc[e] \in Over
  BY DEF IInv, ListedOK
<1>2. ASSUME NEW d \in Calls \ {c}
      PROVE  /\ Of(d)' \subseteq Of(d) \cap chain' /\ New(d)' = New(d) /\ Del(d)' = Del(d)
             /\ pc'[d] = pc[d] /\ job'[d] = job[d] /\ answer'[d] = answer[d]
             /\ todo'[d] = todo[d] /\ found'[d] = found[d] /\ plan'[d] = plan[d]
             /\ before'[d] = before[d]
             /\ answer[d] \cup todo[d] \cup DOMAIN found[d] \cup Del(d) \cup New(d) \subseteq 1 .. made
  BY DEF OnlyOf, Owed, Of, New, Del, IInv, LocalOK
<1>3. ASSUME NEW d \in Calls \ {c} PROVE LocalOK(d)'
  BY <1>2 DEF IInv, LocalOK, Owed
<1>4. ASSUME NEW d \in Calls \ {c} PROVE HandledOK(d)'
  <2>1. CASE pc[d] = "handling"
    BY <1>2, <2>1 DEF HandledOK, Owed
  <2>2. CASE pc[d] # "handling"
    <3>1. Del(d) \cap chain = {} /\ Del(d) \subseteq 1 .. made
      BY <1>2, <2>2 DEF IInv, HandledOK
    <3> QED
      BY <1>2, <2>2, <3>1 DEF HandledOK, Owed
  <2> QED
    BY <2>1, <2>2
<1>5. ASSUME NEW d \in Calls \ {c} PROVE ListedOK(d)'
  <2>1. before'[d] = before[d] /\ before[d] \subseteq Calls \ {c}
    BY <1>1, <1>2
  <2>2. before'[d] \subseteq {e \in Calls : pc'[e] \in Over}
    BY <1>1, <1>2, <2>1
  <2>3. answer'[d] \cap chain' \subseteq indexed'
    <3>1. answer[d] \cap chain \subseteq indexed /\ answer[d] \subseteq 1 .. made
      BY <1>2 DEF IInv, ListedOK
    <3> QED
      BY <1>2, <3>1 DEF Owed
  <2>4. pc'[d] \notin Over => Of(d)' \subseteq New(d)'
    BY <1>2 DEF IInv, ListedOK
  <2>5. pc'[d] \in Over => Of(d)' \subseteq indexed' \cup newContracts' \cup lost'
    BY <1>2 DEF IInv, ListedOK, Owed
  <2>6. pc'[d] = "asking" =>
          \A e \in before'[d] : Of(e)' \subseteq answer'[d] \cup newContracts' \cup lost'
    <3> SUFFICES ASSUME pc[d] = "asking", NEW e \in before[d]
                 PROVE  Of(e)' \subseteq answer[d] \cup newContracts' \cup lost'
      BY <1>2, <2>1
    <3>1. Of(e) \subseteq answer[d] \cup newContracts \cup lost
      BY DEF IInv, ListedOK
    <3>2. Of(e)' \subseteq Of(e) \cap chain'
      BY <1>2, <2>1
    <3> QED
      BY <3>1, <3>2 DEF Owed
  <2>7. pc'[d] = "planning" /\ job'[d].op = "deploy" =>
          \A e \in before'[d] : Of(e)' \subseteq Missed'
    <3> SUFFICES ASSUME pc[d] = "planning", job[d].op = "deploy", NEW e \in before[d]
                 PROVE  Of(e)' \subseteq Missed'
      BY <1>2, <2>1
    <3>1. Of(e) \subseteq Missed
      BY DEF IInv, ListedOK
    <3>2. Of(e)' \subseteq Of(e) \cap chain'
      BY <1>2, <2>1
    <3> QED
      BY <3>1, <3>2 DEF Owed, Missed
  <2> QED
    BY <2>2, <2>3, <2>4, <2>5, <2>6, <2>7 DEF ListedOK
<1>6. ASSUME NEW d \in Calls, NEW e \in Calls PROVE ApartOK(d, e)'
  <2>1. CASE d = c
    <3> SUFFICES ASSUME pc'[c] = "handling"
                 PROVE  /\ New(c)' \cap (DOMAIN found'[e] \cup plan'[e].delete) = {}
                        /\ (c # e /\ pc'[e] = "handling" => New(c)' \cap New(e)' = {})
      BY <2>1 DEF ApartOK, Del
    <3>1. New(c)' \cap (1 .. made) = {}
      BY DEF New
    <3>2. CASE e = c
      BY <3>1, <3>2
    <3>3. CASE e # c
      <4>1. DOMAIN found'[e] \cup plan'[e].delete \cup New(e)' \subseteq 1 .. made
        BY <1>2, <3>3 DEF Del
      <4> QED
        BY <3>1, <4>1
    <3> QED
      BY <3>2, <3>3
  <2>2. CASE d # c /\ e = c
    <3> SUFFICES ASSUME pc[d] = "handling"
                 PROVE  /\ New(d) \cap (DOMAIN found'[c] \cup plan'[c].delete) = {}
                        /\ (pc'[c] = "handling" => New(d) \cap New(c)' = {})
      BY <1>2, <2>2 DEF ApartOK, Del
    <3>1. New(d) \subseteq 1 .. made
      BY <1>2, <2>2
    <3> QED
      BY <2>2, <3>1 DEF Owed, New
  <2>3. CASE d # c /\ e # c
    <3>1. ApartOK(d, e)
      BY DEF IInv
    <3> QED
      BY <1>2, <2>3, <3>1 DEF ApartOK
  <2> QED
    BY <2>1, <2>2, <2>3
<1>7. ASSUME NEW k \in chain' PROVE SiteOK(k)'
  <2>1. CASE k \notin chain
    BY <2>1
  <2>2. CASE k \in chain
    <3> DEFINE e == site[k].by
    <3>1. site'[k] = site[k] /\ e \in Calls
      BY <2>2 DEF Owed, IInv, SiteOK
    <3>2. before'[e] = before[e]
      <4>1. CASE e = c /\ pc[c] = "idle"
        <5>1. k \in Of(c) /\ Of(c) \subseteq New(c) /\ New(c) = {}
          BY <2>2, <4>1 DEF IInv, LocalOK, ListedOK, Of, Over
        <5> QED
          BY <5>1
      <4>2. CASE e # c
        BY <1>2, <3>1, <4>2
      <4> QED
        BY <4>1, <4>2
    <3>3. site[k].op = "deploy" => \A d \in before[e] : Of(d)' \subseteq Missed'
      <4> SUFFICES ASSUME site[k].op = "deploy", NEW d \in before[e]
                   PROVE  Of(d)' \subseteq Missed'
        OBVIOUS
      <4>1. Of(d) \subseteq Missed
        BY <2>2 DEF IInv, SiteOK
      <4>2. d \in Calls \ {c}
        BY <1>1, <3>1
      <4> QED
        BY <1>2, <4>1, <4>2 DEF Owed, Missed
    <3> QED
      BY <3>1, <3>2, <3>3 DEF SiteOK
  <2> QED
    BY <2>1, <2>2
<1> QED
  BY <1>3, <1>4, <1>5, <1>6, <1>7 DEF IInv

-----------------------------------------------------------------------------
(* The ways a call ends.                                                     *)

LEMMA EndEffect ==
  ASSUME IInv, NEW c \in Calls, NEW how, End(c, how), before' = before
  PROVE  /\ MapsOK' /\ OnlyOf(c)
         /\ pc'[c] = how /\ job'[c] = NoJob /\ answer'[c] = {} /\ todo'[c] = {}
         /\ DOMAIN found'[c] = {} /\ plan'[c] = NoPlan
         /\ New(c)' = {} /\ Del(c)' = {}
<1>1. MapsOK' /\ OnlyOf(c)
  BY DEF IInv, MapsOK, OnlyOf, End
<1>2. /\ pc'[c] = how /\ job'[c] = NoJob /\ answer'[c] = {} /\ todo'[c] = {}
      /\ found'[c] = <<>> /\ plan'[c] = NoPlan
  BY DEF IInv, MapsOK, End
<1> QED
  BY <1>1, <1>2 DEF NoPlan, New, Del

\* A call that ends leaves its contracts indexed, listed or lost.
LEMMA EndInv ==
  ASSUME IInv, NEW c \in Calls, NEW how \in Over, pc[c] \notin Over \cup {"idle"},
         End(c, how), UNCHANGED <<made, site, indexed, before>>, GridOK',
         lost \subseteq lost', emptied \subseteq emptied', chain' \subseteq chain,
         \A d \in Calls \ {c} : pc[d] = "handling" => New(d) \subseteq chain' \ DOMAIN body',
         newContracts \cap chain' \subseteq indexed \cup newContracts' \cup lost',
         \A d \in Calls \ {c} : pc[d] = "asking" =>
           newContracts \cap chain' \subseteq answer[d] \cup newContracts' \cup lost',
         Of(c) \cap chain' \subseteq indexed \cup newContracts' \cup lost'
  PROVE  IInv'
<1>1. /\ MapsOK' /\ OnlyOf(c)
      /\ pc'[c] = how /\ job'[c] = NoJob /\ answer'[c] = {} /\ todo'[c] = {}
      /\ DOMAIN found'[c] = {} /\ plan'[c] = NoPlan
      /\ New(c)' = {} /\ Del(c)' = {}
  BY EndEffect
<1>2. Owed(c)
  BY <1>1 DEF Owed, Del
<1>3. LocalOK(c)' /\ HandledOK(c)'
  BY <1>1 DEF LocalOK, HandledOK, States, NoPlan, Over
<1>4. ListedOK(c)'
  <2>1. before'[c] \subseteq {d \in Calls : pc'[d] \in Over}
    BY <1>1 DEF IInv, ListedOK, OnlyOf
  <2>2. Of(c)' = Of(c) \cap chain'
    BY DEF Of
  <2> QED
    BY <1>1, <2>1, <2>2 DEF ListedOK, Over
<1> QED
  BY <1>1, <1>2, <1>3, <1>4, StepInv DEF Over

LEMMA FailInv ==
  ASSUME IInv, NEW c \in Calls, NEW how \in Over,
         pc[c] \in {"asking", "getting", "planning"},
         End(c, how), UNCHANGED <<grid, indexed, lists, contracts, crashes, history>>
  PROVE  IInv'
<1>1. GridOK'
  BY DEF IInv, GridOK, grid, lists, history
<1>2. Of(c) = {}
  BY DEF IInv, LocalOK, ListedOK, Over
<1>3. \A d \in Calls : pc[d] = "handling" => New(d) \subseteq chain \ DOMAIN body
  BY DEF IInv, HandledOK
<1> QED
  BY <1>1, <1>2, <1>3, EndInv DEF grid, lists, history, Over

\* handle() fails: its deletions are none of the contracts another call is making.
LEMMA FailedInv ==
  ASSUME IInv, NEW c \in Calls, pc[c] = "handling", End(c, "failed"),
         chain' \subseteq chain, chain \ chain' \subseteq New(c) \cup Del(c),
         DOMAIN body' \subseteq chain', DOMAIN body' \subseteq DOMAIN body \cup New(c),
         New(c) \cap chain' \subseteq indexed \cup lost', lost \subseteq lost',
         UNCHANGED <<made, site, indexed, lists, contracts, crashes, before, emptied>>
  PROVE  IInv'
<1> USE DEF lists
<1>1. \A d \in Calls \ {c} : pc[d] = "handling" =>
        /\ New(d) \subseteq chain \ DOMAIN body /\ New(d) \cap Del(c) = {}
        /\ New(c) \cap New(d) = {}
  BY DEF IInv, HandledOK, ApartOK
<1>2. GridOK'
  BY DEF IInv, GridOK
<1>3. Of(c) \subseteq New(c)
  BY DEF IInv, ListedOK, Over
<1>4. \A d \in Calls \ {c} : pc[d] = "handling" => New(d) \subseteq chain' \ DOMAIN body'
  BY <1>1
<1>5. Of(c) \cap chain' \subseteq indexed \cup lost'
  BY <1>3
<1> QED
  BY <1>2, <1>4, <1>5, EndInv DEF Over

LEMMA DeletionsOfPlan ==
  ASSUME NEW c \in Calls, NEW gone \in Deletions(plan[c])
  PROVE  gone \subseteq Del(c) /\ gone \subseteq chain
BY DEF Deletions, Del

LEMMA AbortInv == ASSUME IInv, NEW c \in Calls, Abort(c) PROVE IInv'
<1>1. PICK gone \in Deletions(plan[c]) :
        chain' = (chain \ New(c)) \ gone /\ DOMAIN body' = DOMAIN body \ gone
  BY DEF Abort, New
<1>2. gone \subseteq Del(c)
  BY DeletionsOfPlan
<1>3. /\ pc[c] = "handling" /\ End(c, "failed") /\ lost' = lost
      /\ UNCHANGED <<made, site, indexed, lists, contracts, crashes, before, emptied>>
  BY DEF Abort, history
<1>4. DOMAIN body \subseteq chain /\ New(c) \cap DOMAIN body = {}
  BY <1>3 DEF IInv, GridOK, HandledOK
<1> QED
  BY <1>1, <1>2, <1>3, <1>4, FailedInv

LEMMA AbandonInv == ASSUME IInv, NEW c \in Calls, Abandon(c) PROVE IInv'
<1>1. PICK gone \in Deletions(plan[c]), sent \in SUBSET New(c) :
        chain' = chain \ gone /\ DOMAIN body' = (DOMAIN body \ gone) \cup sent
  BY DEF Abandon, New
<1>2. gone \subseteq Del(c)
  BY DeletionsOfPlan
<1>3. New(c) \subseteq indexed \cup lost' /\ lost \subseteq lost'
  BY DEF Abandon, New
<1>4. /\ pc[c] = "handling" /\ End(c, "failed")
      /\ UNCHANGED <<made, site, indexed, lists, contracts, crashes, before, emptied>>
  BY DEF Abandon
<1>5. /\ DOMAIN body \subseteq chain /\ New(c) \subseteq chain /\ New(c) \cap gone = {}
  BY <1>2, <1>4 DEF IInv, GridOK, HandledOK, ApartOK
<1> QED
  BY <1>1, <1>2, <1>3, <1>4, <1>5, FailedInv

LEMMA SaveInv == ASSUME IInv, NEW c \in Calls, Save(c) PROVE IInv'
<1>1. \A d \in Calls : pc[d] = "handling" => New(d) \subseteq chain \ DOMAIN body
  BY DEF IInv, HandledOK
<1>2. /\ Of(c) \subseteq New(c) /\ Del(c) \cap chain = {}
      /\ New(c) \subseteq 1 .. made /\ Del(c) \subseteq 1 .. made
  BY DEF IInv, LocalOK, HandledOK, ListedOK, Save, Over
<1>3. /\ newContracts' = newContracts \cup New(c)
      /\ deletedContracts' \subseteq deletedContracts \cup Del(c)
  BY DEF Save, Reported, New, Del
<1>4. GridOK'
  BY <1>2, <1>3 DEF IInv, GridOK, Save, grid, history
<1> QED
  BY <1>1, <1>2, <1>3, <1>4, EndInv DEF Save, grid, history, Over

LEMMA SaveFailsInv == ASSUME IInv, NEW c \in Calls, SaveFails(c) PROVE IInv'
<1>1. \A d \in Calls : pc[d] = "handling" => New(d) \subseteq chain \ DOMAIN body
  BY DEF IInv, HandledOK
<1>2. /\ Of(c) \subseteq New(c) /\ Del(c) \cap chain = {}
      /\ New(c) \subseteq 1 .. made /\ Del(c) \subseteq 1 .. made
  BY DEF IInv, LocalOK, HandledOK, ListedOK, SaveFails, Over
<1>3. /\ newContracts \subseteq newContracts' /\ newContracts' \subseteq newContracts \cup New(c)
      /\ deletedContracts' \subseteq deletedContracts \cup Del(c)
      /\ New(c) \subseteq indexed \cup newContracts' \cup lost' /\ lost \subseteq lost'
  BY DEF SaveFails, Reported, New, Del
<1>4. GridOK'
  BY <1>2, <1>3 DEF IInv, GridOK, SaveFails, grid
<1> QED
  BY <1>1, <1>2, <1>3, <1>4, EndInv DEF SaveFails, grid, Over

-----------------------------------------------------------------------------
(* The listing.                                                              *)

\* A call that begins knows the contracts of those that are over.
LEMMA AskInv == ASSUME IInv, NEW c \in Calls, Ask(c) PROVE IInv'
<1> USE DEF grid, lists
<1>1. /\ MapsOK' /\ OnlyOf(c) /\ pc'[c] = "asking" /\ answer'[c] = indexed
      /\ before'[c] = {d \in Calls : pc[d] \in Over}
      /\ todo' = todo /\ found' = found /\ plan' = plan
  BY DEF IInv, MapsOK, OnlyOf, Ask
<1>2. job'[c] \in Jobs
  <2>1. CASE \E op \in {"get", "delete"} : job' = [job EXCEPT ![c] = [op |-> op]]
    BY <2>1 DEF IInv, MapsOK, Jobs
  <2>2. CASE \E op \in {"deploy", "update"}, w \in Wishes :
               job' = [job EXCEPT ![c] = [op |-> op, wish |-> w]]
    BY <2>2 DEF IInv, MapsOK, Jobs
  <2>3. CASE \E x \in Extras : job' = [job EXCEPT ![c] = [op |-> "add", extra |-> x]]
    BY <2>3 DEF IInv, MapsOK, Jobs
  <2> QED
    BY <2>1, <2>2, <2>3 DEF Ask
<1>3. pc[c] = "idle" /\ New(c) = {} /\ Of(c) = {} /\ Del(c) \cap chain = {}
  BY DEF IInv, LocalOK, HandledOK, ListedOK, Ask, Over
<1>4. New(c)' = New(c) /\ Del(c)' = Del(c) /\ \A d \in Calls : Of(d)' = Of(d)
  BY <1>1 DEF New, Del, Of, Ask
<1>5. GridOK'
  BY DEF IInv, GridOK, Ask
<1>6. LocalOK(c)'
  <2>1. /\ todo[c] \cup DOMAIN found[c] \cup Del(c) \cup New(c) \subseteq 1 .. made
        /\ DOMAIN plan[c] = {"create", "update", "delete", "new"}
        /\ indexed \subseteq 1 .. made
    BY DEF IInv, LocalOK, GridOK
  <2>2. made' = made
    BY DEF Ask
  <2> QED
    BY <1>1, <1>2, <1>3, <1>4, <2>1, <2>2 DEF LocalOK, States
<1>7. HandledOK(c)'
  BY <1>1, <1>3, <1>4 DEF HandledOK, Ask
<1>8. ListedOK(c)'
  <2>1. before'[c] \subseteq {d \in Calls : pc'[d] \in Over}
    BY <1>1, <1>3 DEF OnlyOf, Over
  <2>2. \A d \in before'[c] : Of(d) \subseteq indexed \cup newContracts \cup lost
    BY <1>1 DEF IInv, ListedOK
  <2> QED
    BY <1>1, <1>3, <1>4, <2>1, <2>2 DEF ListedOK, Ask, Over
<1>9. Owed(c)
  BY <1>1 DEF IInv, HandledOK, ApartOK, Owed, Ask, Del
<1> QED
  BY <1>1, <1>3, <1>5, <1>6, <1>7, <1>8, <1>9, StepInv DEF Ask, Over

\* A name that is not listed has nothing left of the calls that were over, except
\* what is lost; what leaves the list is in the index.
LEMMA MergeInv == ASSUME IInv, NEW c \in Calls, Merge(c) PROVE IInv'
<1> USE DEF grid
<1> DEFINE listed == Listing(answer[c])
           dropped == aged \cap answer[c]
<1>1. /\ pc[c] = "asking" /\ contracts' = listed
      /\ newContracts' = newContracts \ dropped /\ aged' = aged \ dropped
      /\ lost \subseteq lost'
      /\ \A d \in Calls \ {c} : pc[d] = "asking" => dropped \subseteq answer[d] \cup lost'
      /\ UNCHANGED <<made, chain, site, body, indexed, deletedContracts, crashes, before,
                     overlapped, emptied>>
  BY DEF Merge
<1>2. /\ answer[c] \subseteq 1 .. made /\ answer[c] \cap chain \subseteq indexed
      /\ job[c] \in Jobs /\ New(c) = {} /\ Of(c) = {} /\ Del(c) \cap chain = {}
  BY <1>1 DEF IInv, LocalOK, HandledOK, ListedOK, Over
<1>3. GridOK'
  BY <1>1, <1>2 DEF IInv, GridOK, Listing
<1>4. \A d \in Calls \ {c} : pc[d] = "handling" =>
        New(d) \subseteq chain' \ DOMAIN body' /\ New(d) \cap (DOMAIN found[c] \cup Del(c)) = {}
  BY <1>1 DEF IInv, HandledOK, ApartOK
<1>5. /\ newContracts \cap chain' \subseteq indexed \cup newContracts' \cup lost'
      /\ \A d \in Calls \ {c} : pc[d] = "asking" =>
           newContracts \cap chain' \subseteq answer[d] \cup newContracts' \cup lost'
  BY <1>1, <1>2
<1>6. CASE End(c, IF job[c].op \in {"get", "delete"} THEN "done" ELSE "failed")
  <2>1. PICK how \in Over : End(c, how)
    BY <1>6 DEF Over
  <2> QED
    BY <1>1, <1>2, <1>3, <1>4, <1>5, <2>1, EndInv DEF Over
<1>7. CASE /\ (job[c].op = "deploy") = (listed = {})
           /\ todo' = [todo EXCEPT ![c] = listed]
           /\ answer' = [answer EXCEPT ![c] = {}]
           /\ pc' = [pc EXCEPT ![c] = IF listed = {} THEN "planning" ELSE "getting"]
           /\ UNCHANGED <<job, found, plan>>
  <2>1. /\ MapsOK' /\ OnlyOf(c) /\ todo'[c] = listed /\ answer'[c] = {}
        /\ pc'[c] = IF listed = {} THEN "planning" ELSE "getting"
        /\ New(c)' = {} /\ Del(c)' = Del(c) /\ \A d \in Calls : Of(d)' = Of(d)
    BY <1>1, <1>2, <1>7 DEF IInv, MapsOK, OnlyOf, New, Del, Of
  <2>2. /\ pc'[c] \in {"planning", "getting"}
        /\ (pc'[c] = "planning") = (job[c].op = "deploy")
    BY <1>7, <2>1
  <2>3. LocalOK(c)'
    BY <1>1, <1>2, <1>3, <1>7, <2>1, <2>2 DEF IInv, LocalOK, GridOK, Listing, States
  <2>4. HandledOK(c)'
    BY <1>1, <1>2, <2>1, <2>2 DEF HandledOK
  <2>5. ListedOK(c)'
    <3>1. before[c] \subseteq {d \in Calls : pc'[d] \in Over}
      BY <1>1, <2>1 DEF IInv, ListedOK, OnlyOf, Over
    <3>2. ASSUME listed = {}, NEW d \in before[c] PROVE Of(d) \subseteq Missed
      <4>1. Of(d) \subseteq answer[c] \cup newContracts \cup lost
        BY <1>1 DEF IInv, ListedOK
      <4>2. Of(d) \cap deletedContracts \subseteq emptied
        BY DEF IInv, GridOK, Of
      <4> QED
        BY <3>2, <4>1, <4>2 DEF Listing, Missed
    <3>3. pc'[c] = "planning" => \A d \in before[c] : Of(d)' \subseteq Missed'
      BY <1>1, <2>1, <3>1, <3>2 DEF Missed
    <3> QED
      BY <1>1, <1>2, <2>1, <2>2, <3>1, <3>3 DEF ListedOK, Over
  <2>6. Owed(c)
    BY <1>1, <1>4, <1>5, <1>7, <2>1 DEF Owed, Del
  <2> QED
    BY <1>1, <1>3, <2>1, <2>2, <2>3, <2>4, <2>5, <2>6, StepInv DEF Over
<1> QED
  BY <1>6, <1>7 DEF Merge

\* What is said of the calls when a step of c makes no contracts and c has none.
LEMMA QuietListed ==
  ASSUME IInv, NEW c \in Calls, pc[c] \notin Over, pc'[c] \notin Over \cup {"asking"},
         OnlyOf(c), before' = before, UNCHANGED <<site, indexed>>, chain' \subseteq chain,
         New(c)' = New(c), answer' = answer,
         pc'[c] = "planning" =>
           job'[c] = job[c] /\ (pc[c] = "planning" \/ job[c].op # "deploy"),
         lost' = lost, emptied \subseteq emptied'
  PROVE  ListedOK(c)'
<1>1. \A d \in Calls : Of(d)' \subseteq Of(d)
  BY DEF Of
<1>2. /\ before[c] \subseteq {d \in Calls : pc[d] \in Over} /\ answer[c] \cap chain \subseteq indexed
      /\ Of(c) \subseteq New(c)
      /\ pc[c] = "planning" /\ job[c].op = "deploy" => \A d \in before[c] : Of(d) \subseteq Missed
  BY DEF IInv, ListedOK
<1>3. before'[c] \subseteq {d \in Calls : pc'[d] \in Over}
  BY <1>2 DEF OnlyOf
<1>4. pc'[c] = "planning" /\ job'[c].op = "deploy" => \A d \in before'[c] : Of(d)' \subseteq Missed'
  BY <1>1, <1>2 DEF Missed
<1> QED
  BY <1>1, <1>2, <1>3, <1>4 DEF ListedOK

\* A contract that is written off is gone or empty; one that is found is on its node.
LEMMA InspectInv ==
  ASSUME IInv, NEW c \in Calls, NEW k \in 1 .. made, Inspect(c, k)
  PROVE  IInv'
<1> USE DEF grid, lists
<1>1. pc[c] = "getting"
  BY DEF Inspect
<1>2. CASE Fail(c)
  BY <1>1, <1>2, FailInv DEF Fail, Over
<1>3. CASE /\ End(c, "failed") /\ deletedContracts' = deletedContracts \cup {k}
           /\ emptied' = emptied \cup ({k} \cap chain)
           /\ UNCHANGED <<grid, indexed, newContracts, aged, contracts, crashes, before,
                          overlapped, lost>>
  <2>1. GridOK'
    BY <1>3 DEF IInv, GridOK
  <2>2. Of(c) = {}
    BY <1>1 DEF IInv, LocalOK, ListedOK, Over
  <2>3. \A d \in Calls : pc[d] = "handling" => New(d) \subseteq chain \ DOMAIN body
    BY DEF IInv, HandledOK
  <2> QED
    BY <1>1, <1>3, <2>1, <2>2, <2>3, EndInv DEF Over
<1>4. CASE /\ \/ /\ deletedContracts' = deletedContracts \cup {k} /\ found' = found
                 /\ emptied' = emptied \cup ({k} \cap chain)
              \/ /\ k \in DOMAIN body /\ deletedContracts' = deletedContracts
                 /\ emptied' = emptied
                 /\ found' = [found EXCEPT ![c] = [x \in DOMAIN @ \cup {k} |->
                                IF x = k THEN body[k] ELSE @[x]]]
           /\ todo' = [todo EXCEPT ![c] = @ \ {k}]
           /\ UNCHANGED <<grid, indexed, newContracts, aged, contracts, pc, job, answer, plan,
                          crashes, before, overlapped, lost>>
  <2>1. /\ MapsOK' /\ OnlyOf(c) /\ todo'[c] = todo[c] \ {k}
        /\ New(c)' = New(c) /\ Del(c)' = Del(c) /\ emptied \subseteq emptied'
    BY <1>4 DEF IInv, MapsOK, OnlyOf, New, Del
  <2>2. DOMAIN found'[c] \subseteq DOMAIN found[c] \cup (DOMAIN body \cap {k})
    BY <1>4 DEF IInv, MapsOK
  <2>3. GridOK'
    BY <1>4 DEF IInv, GridOK
  <2>4. LocalOK(c)'
    <3>1. /\ answer[c] \cup todo[c] \cup DOMAIN found[c] \cup Del(c) \cup New(c) \subseteq 1 .. made
          /\ DOMAIN plan[c] = {"create", "update", "delete", "new"}
          /\ job[c] \in Jobs /\ New(c) = {} /\ job[c].op # "deploy"
      BY <1>1 DEF IInv, LocalOK
    <3> QED
      BY <1>1, <1>4, <2>1, <2>2, <3>1 DEF LocalOK, States
  <2>5. HandledOK(c)'
    BY <1>1, <1>4, <2>1 DEF IInv, HandledOK
  <2>6. ListedOK(c)'
    BY <1>1, <1>4, <2>1, QuietListed DEF Over
  <2>7. Owed(c)
    <3>1. \A d \in Calls \ {c} : pc[d] = "handling" =>
            New(d) \subseteq chain \ DOMAIN body /\ New(d) \cap (DOMAIN found[c] \cup Del(c)) = {}
      BY DEF IInv, HandledOK, ApartOK
    <3> QED
      BY <1>4, <2>1, <2>2, <3>1 DEF Owed, Del
  <2> QED
    BY <1>1, <1>4, <2>1, <2>3, <2>4, <2>5, <2>6, <2>7, StepInv DEF Over
<1> QED
  BY <1>2, <1>3, <1>4 DEF Inspect, WriteOff, Note, history

\* A step that only moves the call c on.
LEMMA OnwardInv ==
  ASSUME IInv, NEW c \in Calls,
         pc[c] \in {"getting", "planning"}, pc'[c] \in {"planning", "saving"},
         pc'[c] = "planning" => job[c].op \notin {"get", "deploy"},
         pc' = [pc EXCEPT ![c] = pc'[c]],
         UNCHANGED <<grid, indexed, lists, contracts, local, crashes, history>>
  PROVE  IInv'
<1> USE DEF grid, lists, local, history
<1>1. MapsOK' /\ OnlyOf(c)
  BY DEF IInv, MapsOK, OnlyOf
<1>2. New(c)' = New(c) /\ Del(c)' = Del(c) /\ New(c) = {} /\ Del(c) \cap chain = {}
  BY DEF New, Del, IInv, LocalOK, HandledOK
<1>3. GridOK'
  BY DEF IInv, GridOK
<1>4. LocalOK(c)' /\ HandledOK(c)'
  BY <1>2 DEF IInv, LocalOK, HandledOK, States
<1>5. ListedOK(c)'
  BY <1>1, <1>2, QuietListed DEF Over
<1>6. Owed(c)
  BY <1>2 DEF IInv, HandledOK, ApartOK, Owed, Del
<1> QED
  BY <1>1, <1>3, <1>4, <1>5, <1>6, StepInv DEF Over

LEMMA GotInv == ASSUME IInv, NEW c \in Calls, Got(c) PROVE IInv'
<1>1. CASE job[c].op = "get"
  BY <1>1, FailInv DEF Got, Over
<1>2. CASE job[c].op # "get"
  <2>1. /\ pc' = [pc EXCEPT ![c] = "planning"] /\ pc'[c] = "planning"
        /\ job[c].op # "deploy"
    BY <1>2 DEF Got, IInv, MapsOK, LocalOK
  <2> QED
    BY <1>2, <2>1, OnwardInv DEF Got
<1> QED
  BY <1>1, <1>2

LEMMA CancelledInv == ASSUME IInv, NEW c \in Calls, Cancelled(c) PROVE IInv'
<1>1. pc' = [pc EXCEPT ![c] = "saving"] /\ pc'[c] = "saving"
  BY DEF Cancelled, IInv, MapsOK
<1> QED
  BY <1>1, OnwardInv DEF Cancelled

-----------------------------------------------------------------------------
(* Steps on the grid.                                                        *)

\* delete takes a contract that it has found, so none that is being made.
LEMMA CancelInv ==
  ASSUME IInv, NEW c \in Calls, NEW k \in 1 .. made, Cancel(c, k)
  PROVE  IInv'
<1>1. CASE Fail(c)
  BY <1>1, FailInv DEF Fail, Cancel, Over
<1>2. CASE /\ chain' = chain \ {k}
           /\ body' = Restrict(body, DOMAIN body \ {k})
           /\ found' = [found EXCEPT ![c] = Restrict(@, DOMAIN @ \ {k})]
           /\ plan' = [plan EXCEPT ![c].delete = @ \cup ({k} \cap chain)]
           /\ UNCHANGED <<made, site, indexed, lists, contracts, pc, job, answer, todo,
                          crashes, history>>
  <2> USE DEF lists, history
  <2>1. pc[c] = "planning" /\ job[c].op = "delete" /\ k \in DOMAIN found[c]
    BY DEF Cancel
  <2>2. /\ MapsOK' /\ OnlyOf(c) /\ plan'[c] = [plan[c] EXCEPT !.delete = @ \cup ({k} \cap chain)]
        /\ found'[c] = Restrict(found[c], DOMAIN found[c] \ {k})
    BY <1>2 DEF IInv, MapsOK, OnlyOf
  <2>3. DOMAIN plan[c] = {"create", "update", "delete", "new"}
    BY DEF IInv, LocalOK
  <2>4. /\ New(c)' = New(c) /\ Del(c)' = Del(c) \cup ({k} \cap chain)
        /\ DOMAIN plan'[c] = {"create", "update", "delete", "new"}
        /\ DOMAIN found'[c] = DOMAIN found[c] \ {k}
    BY <2>2, <2>3 DEF New, Del, Restrict
  <2>5. /\ New(c) = {} /\ Del(c) \cap chain = {} /\ Of(c) = {}
    BY <2>1 DEF IInv, LocalOK, HandledOK, ListedOK, Over
  <2>6. DOMAIN body' = DOMAIN body \ {k}
    BY <1>2 DEF Restrict
  <2>7. GridOK'
    BY <1>2, <2>6 DEF IInv, GridOK
  <2>8. LocalOK(c)' /\ HandledOK(c)'
    <3>1. /\ answer[c] \cup todo[c] \cup DOMAIN found[c] \cup Del(c) \subseteq 1 .. made
          /\ job[c] \in Jobs
      BY <2>1 DEF IInv, LocalOK
    <3>2. /\ pc'[c] = "planning" /\ job'[c] = job[c] /\ made' = made
          /\ answer'[c] = answer[c] /\ todo'[c] = todo[c]
      BY <1>2, <2>1
    <3>3. Del(c)' \cap chain' = {} /\ Del(c)' \subseteq 1 .. made
      BY <1>2, <2>4, <2>5, <3>1
    <3> QED
      BY <2>1, <2>4, <2>5, <3>1, <3>2, <3>3 DEF LocalOK, HandledOK, States
  <2>9. ListedOK(c)'
    <3>1. chain' \subseteq chain
      BY <1>2
    <3> QED
      BY <1>2, <2>1, <2>2, <2>4, <3>1, QuietListed DEF Over
  <2>10. Owed(c)
    <3>1. \A d \in Calls \ {c} : pc[d] = "handling" =>
            New(d) \subseteq chain \ DOMAIN body /\ New(d) \cap (DOMAIN found[c] \cup Del(c)) = {}
      BY DEF IInv, HandledOK, ApartOK
    <3>2. \A d \in Calls \ {c} : pc[d] = "handling" =>
            /\ New(d) \subseteq chain' \ DOMAIN body'
            /\ New(d) \cap (DOMAIN found'[c] \cup plan'[c].delete) = {}
      <4>1. plan'[c].delete = Del(c) \cup ({k} \cap chain) /\ chain' = chain \ {k}
        BY <1>2, <2>4 DEF Del
      <4> SUFFICES ASSUME NEW d \in Calls \ {c}, pc[d] = "handling"
                   PROVE  /\ New(d) \subseteq chain' \ DOMAIN body'
                          /\ New(d) \cap (DOMAIN found'[c] \cup plan'[c].delete) = {}
        OBVIOUS
      <4>2. New(d) \subseteq chain \ DOMAIN body /\ New(d) \cap (DOMAIN found[c] \cup Del(c)) = {}
        BY <3>1
      <4> QED
        BY <2>1, <2>4, <2>6, <4>1, <4>2
    <3>3. /\ 1 .. made \subseteq 1 .. made' /\ indexed' = indexed /\ lost' = lost
          /\ emptied' = emptied /\ site' = site /\ chain' \subseteq chain
          /\ newContracts' = newContracts
      BY <1>2
    <3> QED
      BY <3>2, <3>3 DEF Owed
  <2> QED
    BY <1>2, <2>1, <2>2, <2>7, <2>8, <2>9, <2>10, StepInv DEF Over
<1> QED
  BY <1>1, <1>2 DEF Cancel

\* handle() deletes none of the contracts another call is making.
LEMMA CommitInv == ASSUME IInv, NEW c \in Calls, Commit(c) PROVE IInv'
<1> USE DEF lists, local, history
<1>1. /\ pc[c] = "handling" /\ chain' = chain \ Del(c)
      /\ DOMAIN body' = (DOMAIN body \ Del(c)) \cup New(c)
      /\ UNCHANGED <<made, site, indexed, lists, contracts, local, crashes, history>>
  BY DEF Commit, New, Del
<1>2. MapsOK' /\ OnlyOf(c) /\ pc'[c] = "saving"
  BY DEF IInv, MapsOK, OnlyOf, Commit
<1>3. New(c)' = New(c) /\ Del(c)' = Del(c)
  BY <1>1 DEF New, Del
<1>4. New(c) \subseteq chain /\ New(c) \cap Del(c) = {}
  BY <1>1 DEF IInv, HandledOK, ApartOK
<1>5. GridOK'
  BY <1>1, <1>4 DEF IInv, GridOK
<1>6. LocalOK(c)' /\ HandledOK(c)'
  BY <1>1, <1>2, <1>3 DEF IInv, LocalOK, HandledOK, States
<1>7. ListedOK(c)'
  <2>1. chain' \subseteq chain
    BY <1>1
  <2> QED
    BY <1>1, <1>2, <1>3, <2>1, QuietListed DEF Over
<1>8. Owed(c)
  <2>1. \A d \in Calls \ {c} : pc[d] = "handling" =>
          /\ New(d) \subseteq chain \ DOMAIN body
          /\ New(d) \cap (DOMAIN found[c] \cup Del(c)) = {} /\ New(d) \cap New(c) = {}
    BY <1>1 DEF IInv, HandledOK, ApartOK
  <2> QED
    BY <1>1, <1>3, <2>1 DEF Owed, Del
<1> QED
  BY <1>1, <1>2, <1>5, <1>6, <1>7, <1>8, StepInv DEF Over

\* What handle() is to do: finitely many contracts to make, and none to delete
\* but those that were found.
LEMMA PlanShape ==
  ASSUME IInv, NEW c \in Calls, pc[c] = "planning", job[c].op # "delete", NEW p \in Plans(c)
  PROVE  /\ IsFiniteSet(p.create) /\ p.delete \subseteq DOMAIN found[c]
         /\ DOMAIN p.update \subseteq DOMAIN found[c]
         /\ DOMAIN p = {"create", "update", "delete", "new"}
<1>1. job[c] \in Jobs /\ job[c].op # "get"
  BY DEF IInv, LocalOK
<1>2. CASE job[c].op = "deploy"
  <2>1. job[c].wish \in Wishes
    BY <1>1, <1>2 DEF Jobs
  <2>2. p = [NoPlan EXCEPT !.create = job[c].wish]
    BY <1>2 DEF Plans
  <2>3. /\ p.create = job[c].wish /\ p.delete = {} /\ DOMAIN p.update = {}
        /\ DOMAIN p = {"create", "update", "delete", "new"}
    BY <2>2 DEF NoPlan
  <2>4. IsFiniteSet(job[c].wish)
    BY <2>1, BaseAssumption
  <2> QED
    BY <2>3, <2>4
<1>3. CASE job[c].op = "update"
  <2>1. job[c].wish \in Wishes
    BY <1>1, <1>3 DEF Jobs
  <2>2. p = UpdatePlan(found[c], job[c].wish)
    BY <1>3 DEF Plans
  <2>3. /\ p.create \subseteq job[c].wish /\ p.delete \subseteq DOMAIN found[c]
        /\ DOMAIN p.update \subseteq DOMAIN found[c]
    BY <2>2 DEF UpdatePlan, OnSameNodes
  <2>4. IsFiniteSet(p.create)
    <3>1. IsFiniteSet(job[c].wish)
      BY <2>1, BaseAssumption
    <3> QED
      BY <2>3, <3>1, FS_Subset
  <2> QED
    BY <2>2, <2>3, <2>4 DEF UpdatePlan
<1>4. CASE job[c].op = "add"
  <2>1. PICK k \in ContractsAt(job[c].extra.node) : p = AddPlan(found[c], job[c].extra, k)
    BY <1>4 DEF Plans
  <2>2. (p.create = {} \/ p.create = {job[c].extra}) /\ p.delete = {}
        /\ DOMAIN p = {"create", "update", "delete", "new"}
        /\ DOMAIN p.update \subseteq DOMAIN found[c]
    BY <2>1 DEF AddPlan, NoPlan
  <2>3. IsFiniteSet({}) /\ IsFiniteSet({job[c].extra})
    BY FS_EmptySet, FS_Singleton
  <2>4. IsFiniteSet(p.create)
    BY <2>2, <2>3
  <2> QED
    BY <2>2, <2>4
<1> QED
  BY <1>1, <1>2, <1>3, <1>4 DEF Jobs

\* The plans handle() works on: those whose contracts to delete are there.
Opened(c) == {[q EXCEPT !.delete = @ \cap chain] : q \in Plans(c)}

LEMMA OpenedShape ==
  ASSUME IInv, NEW c \in Calls, pc[c] = "planning", job[c].op # "delete", NEW p \in Opened(c)
  PROVE  /\ IsFiniteSet(p.create) /\ p.delete \subseteq DOMAIN found[c]
         /\ DOMAIN p.update \subseteq DOMAIN found[c]
         /\ DOMAIN p = {"create", "update", "delete", "new"}
         /\ \E q \in Plans(c) : /\ p.create = q.create /\ p.update = q.update
                                /\ p.delete = q.delete \cap chain
<1>1. PICK q \in Plans(c) : p = [q EXCEPT !.delete = @ \cap chain]
  BY DEF Opened
<1>2. /\ IsFiniteSet(q.create) /\ q.delete \subseteq DOMAIN found[c]
      /\ DOMAIN q.update \subseteq DOMAIN found[c]
      /\ DOMAIN q = {"create", "update", "delete", "new"}
  BY PlanShape
<1>3. /\ p.create = q.create /\ p.update = q.update /\ p.delete = q.delete \cap chain
      /\ DOMAIN p = {"create", "update", "delete", "new"}
  BY <1>1, <1>2
<1> QED
  BY <1>2, <1>3

\* handle() does nothing more, or it makes the contracts of its plan.
MakesContracts(c, p) ==
  LET ids == (made + 1) .. (made + Cardinality(p.create))
      new == CHOOSE f \in [ids -> p.create] : Range(f) = p.create
  IN  /\ made' = made + Cardinality(p.create)
      /\ chain' = chain \cup ids
      /\ site' = [k \in 1 .. made' |->
           IF k \in ids THEN [node |-> new[k].node, by |-> c, op |-> job[c].op]
           ELSE site[k]]
      /\ plan' = [plan EXCEPT ![c] = [p EXCEPT !.new = new]]
      /\ pc' = [pc EXCEPT ![c] = "handling"]
      /\ UNCHANGED <<job, answer, todo, found>>

LEMMA OpenCases ==
  ASSUME NEW c \in Calls, Open(c)
  PROVE  \/ \E how \in Over : End(c, how) /\ UNCHANGED <<made, chain, site>>
         \/ \E p \in Opened(c) : MakesContracts(c, p)
<1>1. CASE End(c, "failed") /\ UNCHANGED <<made, chain, site>>
  BY <1>1 DEF Over
<1>2. CASE End(c, "done") /\ UNCHANGED <<made, chain, site>>
  BY <1>2 DEF Over
<1>3. ASSUME NEW q \in Plans(c), MakesContracts(c, [q EXCEPT !.delete = @ \cap chain])
      PROVE  \E p \in Opened(c) : MakesContracts(c, p)
  BY <1>3, Zenon DEF Opened
<1>4. \/ End(c, "failed") /\ UNCHANGED <<made, chain, site>>
      \/ End(c, "done") /\ UNCHANGED <<made, chain, site>>
      \/ \E q \in Plans(c) : MakesContracts(c, [q EXCEPT !.delete = @ \cap chain])
  BY Zenon DEF Open, MakesContracts
<1> QED
  BY <1>1, <1>2, <1>3, <1>4

\* The contracts handle() makes are new; a deployed name has cost the calls that
\* were over all they had.
LEMMA OpenInv == ASSUME IInv, NEW c \in Calls, Open(c) PROVE IInv'
<1> USE DEF grid, lists, history
<1>1. ASSUME NEW how \in Over, End(c, how), UNCHANGED <<made, chain, site>> PROVE IInv'
  BY <1>1, FailInv DEF Open
<1>2. ASSUME NEW p \in Opened(c), MakesContracts(c, p)
      PROVE  IInv'
  <2> DEFINE ids == (made + 1) .. (made + Cardinality(p.create))
             new == CHOOSE f \in [ids -> p.create] : Range(f) = p.create
  <2>1. /\ pc[c] = "planning" /\ job[c].op # "delete"
        /\ UNCHANGED <<body, indexed, lists, contracts, crashes, history, job, answer, todo,
                       found>>
    BY <1>2 DEF Open, MakesContracts
  <2>2. /\ IsFiniteSet(p.create) /\ p.delete \subseteq DOMAIN found[c]
        /\ DOMAIN p = {"create", "update", "delete", "new"}
    BY <2>1, OpenedShape
  <2>3. made \in Nat /\ Cardinality(p.create) \in Nat
    BY <2>2, FS_CardinalityType DEF IInv, GridOK
  <2>4. DOMAIN new = ids
    <3>1. \E f \in [ids -> p.create] : Range(f) = p.create
      BY <2>2, <2>3, Numbered
    <3>2. new \in [ids -> p.create]
      BY <3>1
    <3> HIDE DEF new
    <3> QED
      BY <3>2
  <2> HIDE DEF new
  <2>5. /\ ids \cap (1 .. made) = {} /\ 1 .. made' = (1 .. made) \cup ids /\ made' \in Nat
        /\ chain' = chain \cup ids /\ DOMAIN site' = 1 .. made'
    BY <1>2, <2>3 DEF new, MakesContracts
  <2>6. /\ \A k \in 1 .. made : site'[k] = site[k]
        /\ \A k \in ids : site'[k].by = c /\ site'[k].op = job[c].op
    BY <1>2, <2>5 DEF new, MakesContracts
  <2> HIDE DEF ids
  <2>7. /\ MapsOK' /\ OnlyOf(c) /\ pc'[c] = "handling"
        /\ plan'[c] = [p EXCEPT !.new = new]
    <3>1. pc' = [pc EXCEPT ![c] = "handling"] /\ plan' = [plan EXCEPT ![c] = [p EXCEPT !.new = new]]
      BY <1>2 DEF new, ids, MakesContracts
    <3> QED
      BY <2>1, <3>1 DEF IInv, MapsOK, OnlyOf
  <2>8. /\ New(c)' = ids /\ Del(c)' = p.delete
        /\ DOMAIN plan'[c] = {"create", "update", "delete", "new"}
    BY <2>2, <2>4, <2>7 DEF New, Del
  <2>9. chain \subseteq 1 .. made /\ DOMAIN body \subseteq chain /\ DOMAIN found[c] \subseteq 1 .. made
        /\ answer[c] \cup todo[c] \subseteq 1 .. made
    BY DEF IInv, GridOK, LocalOK
  <2>10. GridOK'
    BY <2>1, <2>5, <2>9 DEF IInv, GridOK
  <2>11. LocalOK(c)' /\ HandledOK(c)'
    BY <2>1, <2>2, <2>5, <2>7, <2>8, <2>9 DEF LocalOK, HandledOK, States
  <2>12. \A d \in Calls \ {c} : Of(d)' = Of(d)
    BY <2>5, <2>6, <2>9 DEF Of
  <2>13. Of(c)' \subseteq ids
    <3>1. Of(c) = {}
      BY <2>1 DEF IInv, LocalOK, ListedOK, Over
    <3> QED
      BY <2>5, <2>6, <2>9, <3>1 DEF Of
  <2>14. before[c] \subseteq Calls \ {c} /\ \A d \in before[c] : pc[d] \in Over
    BY <2>1 DEF IInv, ListedOK, Over
  <2>15. ListedOK(c)'
    <3>1. before'[c] \subseteq {d \in Calls : pc'[d] \in Over}
      BY <2>1, <2>7, <2>14 DEF OnlyOf
    <3>2. answer'[c] \cap chain' \subseteq indexed'
      BY <2>1, <2>5, <2>9 DEF IInv, ListedOK
    <3> QED
      BY <2>7, <2>8, <2>13, <3>1, <3>2 DEF ListedOK, Over
  <2>16. Owed(c)
    <3>1. \A d \in Calls \ {c} : pc[d] = "handling" =>
            New(d) \subseteq chain \ DOMAIN body /\ New(d) \cap DOMAIN found[c] = {}
      BY DEF IInv, HandledOK, ApartOK
    <3>2. newContracts' = newContracts /\ lost' = lost
      BY <2>1
    <3> QED
      BY <2>1, <2>2, <2>5, <2>6, <2>8, <2>9, <3>1, <3>2 DEF Owed, Del
  <2>17. ASSUME NEW k \in chain' \ chain PROVE SiteOK(k)'
    <3>1. site'[k].by = c /\ site'[k].op = job[c].op
      BY <2>5, <2>6
    <3>2. job[c].op = "deploy" => \A d \in before[c] : Of(d)' \subseteq Missed
      BY <2>1, <2>12, <2>14 DEF IInv, ListedOK
    <3> QED
      BY <2>1, <3>1, <3>2 DEF SiteOK, Missed
  <2> QED
    BY <2>1, <2>2, <2>5, <2>7, <2>8, <2>9, <2>10, <2>11, <2>15, <2>16, <2>17, StepInv
       DEF New, Del, Over
<1> QED
  BY <1>1, <1>2, OpenCases

-----------------------------------------------------------------------------
(* The theorems.                                                             *)

LEMMA NextInv == IInv /\ [Next]_vars => IInv'
<1> SUFFICES ASSUME IInv, [Next]_vars PROVE IInv'
  OBVIOUS
<1>1. ASSUME NEW c \in Calls,
             Ask(c) \/ Merge(c) \/ Got(c) \/ Open(c) \/ Commit(c) \/ Abort(c)
             \/ Abandon(c) \/ Cancelled(c) \/ Save(c) \/ SaveFails(c)
      PROVE  IInv'
  BY <1>1, AskInv, MergeInv, GotInv, OpenInv, CommitInv, AbortInv, AbandonInv, CancelledInv,
     SaveInv, SaveFailsInv
<1>2. ASSUME NEW c \in Calls, NEW k \in 1 .. made, Inspect(c, k) \/ Cancel(c, k) PROVE IInv'
  BY <1>2, InspectInv, CancelInv
<1>3. ASSUME NEW k \in 1 .. made, Index(k) \/ Age(k) PROVE IInv'
  BY <1>3, IndexInv, AgeInv
<1> QED
  BY <1>1, <1>2, <1>3, CrashInv, StutterInv DEF Next

LEMMA Invariance == Spec => []IInv
BY InitInv, NextInv, PTL DEF Spec

\* Every variable of BaseModule keeps the values base.ts gives it: no contract is
\* listed, looked up or to be cancelled that has not been made (base.ts:55-57,
\* 261-318, 599-645).
THEOREM TypesHold == Spec => []TypeOK
<1>1. IInv => TypeOK
  <2> SUFFICES ASSUME IInv PROVE TypeOK
    OBVIOUS
  <2>1. pc \in [Calls -> States]
    BY DEF IInv, MapsOK, LocalOK
  <2>2. \A c \in Calls : DOMAIN found[c] \subseteq 1 .. made /\ todo[c] \subseteq 1 .. made
    BY DEF IInv, LocalOK
  <2> QED
    BY <2>1, <2>2 DEF IInv, GridOK, TypeOK, States
<1> QED
  BY <1>1, Invariance, PTL

\* Of two deployments of a name that are not under way at once, one has lost its
\* contracts to a restart, a call or save that failed or the pruning of the static
\* list, or they were written off for empty (base.ts:634-636): the listing that
\* machines.ts:161 asks (base.ts:261-312) shows all the others.
THEOREM DeployedOnce == Spec => []OneDeployment
<1>1. IInv => OneDeployment
  <2> SUFFICES ASSUME IInv, NEW k \in chain, NEW x \in chain,
                      site[k].op = "deploy", site[x].op = "deploy",
                      site[k].by # site[x].by, ~AtOnce(site[k].by, site[x].by)
               PROVE  \E d \in {site[k].by, site[x].by} : Of(d) \subseteq Missed
    BY DEF OneDeployment, Of, Missed
  <2>1. site[k].by \in before[site[x].by] \/ site[x].by \in before[site[k].by]
    BY DEF AtOnce
  <2> QED
    BY <2>1 DEF IInv, SiteOK
<1> QED
  BY <1>1, Invariance, PTL

-----------------------------------------------------------------------------
(* What an update makes of one deployment.                                   *)

\* A list of workloads, each with the name and the type of one that is asked for.
Known(wls) ==
  /\ wls \in Seq(Workload)
  /\ \A i \in DOMAIN wls : \E t \in Deployments : \E j \in DOMAIN t.wls :
       t.wls[j].name = wls[i].name /\ t.wls[j].type = wls[i].type

LEMMA WishesKnown == \A t \in Deployments : Known(t.wls)
BY BaseAssumption DEF Known

LEMMA KnownTypes ==
  ASSUME OneType, NEW old, Known(old), NEW new, Known(new),
         NEW i \in DOMAIN old, NEW j \in DOMAIN new, old[i].name = new[j].name
  PROVE  old[i].type = new[j].type
BY DEF OneType, Known

LEMMA UpdateKnown ==
  ASSUME NEW old, Known(old), NEW new, Known(new)
  PROVE  Known(UpdateDeployment(old, new, 0).workloads)
<1> DEFINE wls == UpdateDeployment(old, new, 0).workloads
<1>1. old \in Seq(Workload) /\ new \in Seq(Workload)
  BY DEF Known
<1>2. /\ wls \in Seq(Workload)
      /\ \A p \in DOMAIN wls :
           \/ \E k \in DOMAIN old \ Deleted(old, new) : KeptAs(wls[p], k, old, new)
           \/ \E j \in Added(old, new) : AddedAs(wls[p], j, new)
  BY <1>1, UpdateFacts
<1> HIDE DEF wls
<1>3. ASSUME NEW p \in DOMAIN wls
      PROVE  \E t \in Deployments : \E j \in DOMAIN t.wls :
               t.wls[j].name = wls[p].name /\ t.wls[j].type = wls[p].type
  <2>1. CASE \E k \in DOMAIN old \ Deleted(old, new) : KeptAs(wls[p], k, old, new)
    BY <2>1 DEF KeptAs, Known
  <2>2. CASE \E j \in Added(old, new) : AddedAs(wls[p], j, new)
    BY <2>2 DEF AddedAs, Added, Known
  <2> QED
    BY <1>2, <2>1, <2>2
<1>4. Known(wls)
  BY <1>2, <1>3 DEF Known
<1> QED
  BY <1>4 DEF wls

\* The list a deployment has when it is brought to "new".
Brought(old, new) ==
  LET u == UpdateDeployment(old, new, 0) IN IF u.found THEN u.workloads ELSE old

MachinesDiffer(wls) ==
  \A i, j \in DOMAIN wls :
    wls[i].type = "machine" /\ wls[j].type = "machine" /\ wls[i].name = wls[j].name => i = j

\* It has the data asked for in every machine, and what was kept and what was added.
LEMMA BroughtFacts ==
  ASSUME NEW old, Known(old), NEW new, Known(new)
  PROVE  /\ \A p \in DOMAIN Brought(old, new) :
              LET w == Brought(old, new)[p] IN
              \/ \E k \in DOMAIN old \ Deleted(old, new) : KeptAs(w, k, old, new)
              \/ \E j \in Added(old, new) : AddedAs(w, j, new)
         /\ \A k \in DOMAIN old \ Deleted(old, new) :
              \E p \in DOMAIN Brought(old, new) : KeptAs(Brought(old, new)[p], k, old, new)
         /\ \A j \in Added(old, new) :
              \E p \in DOMAIN Brought(old, new) : AddedAs(Brought(old, new)[p], j, new)
<1>1. old \in Seq(Workload) /\ new \in Seq(Workload)
  BY DEF Known
<1>2. CASE UpdateDeployment(old, new, 0).found
  <2>1. Brought(old, new) = UpdateDeployment(old, new, 0).workloads
    BY <1>2 DEF Brought
  <2> QED
    BY <1>1, <2>1, UpdateFacts
<1>3. CASE ~UpdateDeployment(old, new, 0).found
  <2>1. Brought(old, new) = old
    BY <1>3 DEF Brought
  <2>2. /\ {k \in Scanned(old, new) : ChangesFor(k, old, new) # {}} = {}
        /\ Deleted(old, new) = {} /\ Added(old, new) = {}
    BY <1>3 DEF UpdateDeployment
  <2>3. \A k \in DOMAIN old : KeptAs(old[k], k, old, new)
    BY <2>2 DEF KeptAs, NewData
  <2> QED
    BY <2>1, <2>2, <2>3
<1> QED
  BY <1>2, <1>3

Same(w, u) == w.name = u.name /\ w.data = u.data

\* None of the machines it has is other than asked for.
LEMMA BroughtIsAsked ==
  ASSUME OneType, NEW old, Known(old), NEW new, Known(new),
         NEW o \in Machines(Brought(old, new))
  PROVE  \E w \in Machines(new) : Same(w, o)
<1>1. old \in Seq(Workload) /\ new \in Seq(Workload)
  BY DEF Known
<1>2. PICK p \in DOMAIN Brought(old, new) : o = Brought(old, new)[p] /\ o.type = "machine"
  BY DEF Machines
<1>3. CASE \E j \in Added(old, new) : AddedAs(o, j, new)
  BY <1>2, <1>3 DEF Added, AddedAs, Machines, Same
<1>4. ASSUME NEW k \in DOMAIN old \ Deleted(old, new), KeptAs(o, k, old, new)
      PROVE  \E w \in Machines(new) : Same(w, o)
  <2>1. old[k].type = "machine" /\ o.name = old[k].name /\ o.data = NewData(k, old, new)
    BY <1>2, <1>4 DEF KeptAs
  <2>2. k \in Scanned(old, new)
    BY <2>1 DEF Scanned, NetworkType
  <2>3. PICK j \in DOMAIN new : new[j].name = old[k].name
    BY <2>1 DEF Deleted, NamesOf, NetworkType
  <2>4. \A i \in DOMAIN new : new[i].name = old[k].name => new[i].type = "machine"
    BY <2>1, KnownTypes
  <2>5. CASE ChangesFor(k, old, new) = {}
    <3>1. new[j].data = old[k].data
      BY <2>3, <2>4, <2>5 DEF ChangesFor, NetworkType
    <3>2. o.data = old[k].data
      BY <2>1, <2>5 DEF NewData
    <3> QED
      BY <2>1, <2>3, <2>4, <3>1, <3>2 DEF Machines, Same
  <2>6. CASE ChangesFor(k, old, new) # {}
    <3>1. BreakAt(k, old, new) \in ChangesFor(k, old, new)
      BY <1>1, <2>6, BreakFacts
    <3>2. o.data = new[BreakAt(k, old, new)].data
      BY <2>1, <2>2, <2>6 DEF NewData
    <3> QED
      BY <2>1, <2>4, <3>1, <3>2 DEF ChangesFor, Machines, Same
  <2> QED
    BY <2>5, <2>6
<1> QED
  BY <1>2, <1>3, <1>4, BroughtFacts

\* A machine that is asked for is there, if some workload it keeps is not changed
\* before the inner loop comes to the machine.
LEMMA AskedIsBrought ==
  ASSUME OneType, NEW old, Known(old), NEW new, Known(new), MachinesDiffer(new),
         NEW j \in DOMAIN new, new[j].type = "machine",
         NEW o \in Range(old), o.type # NetworkType, o.name \in NamesOf(new),
         \A i \in 1 .. (j - 1) : ~(new[i].name = o.name /\ new[i].data # o.data)
  PROVE  \E w \in Machines(Brought(old, new)) : Same(new[j], w)
<1>1. old \in Seq(Workload) /\ new \in Seq(Workload)
  BY DEF Known
<1>2. j \in 1 .. Len(new) /\ Len(new) \in Nat /\ DOMAIN new = 1 .. Len(new)
  BY <1>1
<1>3. PICK p \in DOMAIN old : o = old[p] /\ old[p].type # NetworkType
  BY DEF Range
<1>4. \A q \in DOMAIN old : old[q].type # NetworkType /\ old[q].name \in NamesOf(new) =>
        q \in Scanned(old, new) /\ q \in DOMAIN old \ Deleted(old, new)
  BY DEF Scanned, Deleted
<1>5. ASSUME NEW q \in DOMAIN old \ Deleted(old, new), old[q].name = new[j].name,
             old[q].type = "machine", NewData(q, old, new) = new[j].data
      PROVE  \E w \in Machines(Brought(old, new)) : Same(new[j], w)
  <2>1. PICK x \in DOMAIN Brought(old, new) : KeptAs(Brought(old, new)[x], q, old, new)
    BY BroughtFacts
  <2> QED
    BY <1>5, <2>1 DEF KeptAs, Machines, Same
<1>6. CASE \E q \in DOMAIN old : old[q].name = new[j].name
  <2>1. PICK q \in DOMAIN old : old[q].name = new[j].name
    BY <1>6
  <2>2. old[q].type = "machine"
    BY <2>1, KnownTypes
  <2>3. q \in Scanned(old, new) /\ q \in DOMAIN old \ Deleted(old, new)
    BY <1>4, <2>1, <2>2 DEF NamesOf, NetworkType
  <2>4. \A i \in DOMAIN new : new[i].name = old[q].name => i = j
    <3>1. \A i \in DOMAIN new : new[i].name = old[q].name => new[i].type = "machine"
      BY <2>2, KnownTypes
    <3> QED
      BY <2>1, <3>1 DEF MachinesDiffer
  <2>5. NewData(q, old, new) = new[j].data
    <3>1. CASE ChangesFor(q, old, new) = {}
      <4>1. old[q].data = new[j].data
        BY <2>1, <3>1 DEF ChangesFor, NetworkType
      <4> QED
        BY <3>1, <4>1 DEF NewData
    <3>2. CASE ChangesFor(q, old, new) # {}
      <4>1. BreakAt(q, old, new) \in ChangesFor(q, old, new)
        BY <1>1, <3>2, BreakFacts
      <4>2. BreakAt(q, old, new) = j
        BY <2>4, <4>1 DEF ChangesFor
      <4> QED
        BY <2>3, <3>2, <4>2 DEF NewData
    <3> QED
      BY <3>1, <3>2
  <2> QED
    BY <1>5, <2>1, <2>2, <2>3, <2>5
<1>7. CASE ~\E q \in DOMAIN old : old[q].name = new[j].name
  <2>1. p \in Scanned(old, new)
    BY <1>3, <1>4
  <2>2. j < BreakAt(p, old, new)
    <3>1. CASE ChangesFor(p, old, new) = {}
      BY <1>1, <1>2, <3>1, BreakFacts
    <3>2. CASE ChangesFor(p, old, new) # {}
      <4>1. BreakAt(p, old, new) \in ChangesFor(p, old, new)
        BY <1>1, <3>2, BreakFacts
      <4> DEFINE b == BreakAt(p, old, new)
      <4>2. b \in 1 .. Len(new) /\ new[b].name = o.name /\ new[b].data # o.data
        BY <1>2, <1>3, <4>1 DEF ChangesFor
      <4> HIDE DEF b
      <4>3. b \notin 1 .. (j - 1)
        BY <4>2
      <4>4. b # j
        BY <1>3, <1>7, <4>2
      <4>5. j < b
        BY <1>2, <4>2, <4>3, <4>4
      <4> QED
        BY <4>5 DEF b
    <3> QED
      BY <3>1, <3>2
  <2>3. \A i \in 1 .. (j - 1) : new[i].name # new[j].name
    <3> SUFFICES ASSUME NEW i \in 1 .. (j - 1), new[i].name = new[j].name PROVE FALSE
      OBVIOUS
    <3>1. i \in DOMAIN new /\ i # j
      BY <1>2
    <3>2. new[i].type = "machine"
      BY <3>1, KnownTypes
    <3> QED
      BY <3>1, <3>2 DEF MachinesDiffer
  <2>4. j \in Added(old, new)
    BY <1>7, <2>1, <2>2, <2>3 DEF Added, NamesOf
  <2>5. PICK x \in DOMAIN Brought(old, new) : AddedAs(Brought(old, new)[x], j, new)
    BY <2>4, BroughtFacts
  <2> QED
    BY <2>5 DEF AddedAs, Machines, Same
<1> QED
  BY <1>6, <1>7

-----------------------------------------------------------------------------
(* What an update makes of all the deployments.                              *)

\* A deployment as the contract k has it.
Carries(k, d) ==
  d = [node |-> site[k].node, ip |-> d.ip, wls |-> d.wls] /\ Known(d.wls)

\* The deployments on the nodes after the plan p is carried out.
After(olds, p) ==
  [k \in (DOMAIN olds \ p.delete) \cup DOMAIN p.new |->
     IF k \in DOMAIN p.new THEN p.new[k]
     ELSE IF k \in DOMAIN p.update THEN [olds[k] EXCEPT !.wls = p.update[k]]
     ELSE olds[k]]

\* An old deployment with a match is brought to it, and one without goes.
LEMMA MatchedIsBrought ==
  ASSUME NEW wish \in Wishes, NEW olds, \A k \in DOMAIN olds : Carries(k, olds[k]),
         DOMAIN olds \subseteq contracts,
         NEW p, p.update = UpdatePlan(olds, wish).update, p.delete = UpdatePlan(olds, wish).delete,
         NEW k \in DOMAIN olds, k \notin DOMAIN p.new
  PROVE  /\ k \in DOMAIN After(olds, p) =>
              \E t \in Matches(k, olds, OnSameNodes(wish)) : TRUE
         /\ \A t \in Matches(k, olds, OnSameNodes(wish)) :
              /\ t \in wish /\ t.node = olds[k].node /\ t.ip = olds[k].ip
              /\ k \in DOMAIN After(olds, p)
              /\ After(olds, p)[k].node = olds[k].node
              /\ After(olds, p)[k].wls = Brought(olds[k].wls, t.wls)
<1> DEFINE same == OnSameNodes(wish)
           matched == {x \in DOMAIN olds : Matches(x, olds, same) # {}}
           u == Renewed(olds[k], CHOOSE t \in Matches(k, olds, same) : TRUE)
           update == [x \in {x \in matched :
                             Renewed(olds[x], CHOOSE t \in Matches(x, olds, same) : TRUE).found} |->
                        Renewed(olds[x], CHOOSE t \in Matches(x, olds, same) : TRUE).workloads]
<1>1. p.update = update /\ p.delete = DOMAIN olds \ matched
  BY DEF UpdatePlan
<1>2. DOMAIN After(olds, p) = (DOMAIN olds \ p.delete) \cup DOMAIN p.new
  BY DEF After
<1>3. k \in DOMAIN After(olds, p) <=> Matches(k, olds, same) # {}
  BY <1>1, <1>2
<1>4. ASSUME NEW t \in Matches(k, olds, same)
      PROVE  /\ t \in wish /\ t.node = olds[k].node /\ t.ip = olds[k].ip
             /\ k \in DOMAIN After(olds, p)
             /\ After(olds, p)[k].node = olds[k].node
             /\ After(olds, p)[k].wls = Brought(olds[k].wls, t.wls)
  <2>1. /\ olds[k] = [node |-> site[k].node, ip |-> olds[k].ip, wls |-> olds[k].wls]
        /\ k \in contracts
    BY DEF Carries
  <2>2. \A x \in Matches(k, olds, same) : x \in wish /\ x.node = site[k].node /\ x.ip = olds[k].ip
    BY <2>1 DEF Matches, OnSameNodes, SiteOf
  <2>3. (CHOOSE x \in Matches(k, olds, same) : TRUE) = t
    BY <2>2, BaseAssumption
  <2>4. u = UpdateDeployment(olds[k].wls, t.wls, 0)
    BY <2>3 DEF Renewed
  <2>5. /\ k \in DOMAIN update <=> u.found
        /\ k \in DOMAIN update => update[k] = u.workloads
    BY <1>4
  <2> HIDE DEF u, update, matched
  <2>6. k \in DOMAIN After(olds, p)
    BY <1>3, <1>4
  <2>7. After(olds, p)[k] = IF k \in DOMAIN p.update THEN [olds[k] EXCEPT !.wls = p.update[k]]
                            ELSE olds[k]
    BY <1>2, <2>6 DEF After
  <2>8. CASE u.found
    <3>1. After(olds, p)[k] = [olds[k] EXCEPT !.wls = u.workloads]
      BY <1>1, <2>5, <2>7, <2>8
    <3>2. Brought(olds[k].wls, t.wls) = u.workloads
      BY <2>4, <2>8 DEF Brought
    <3> QED
      BY <2>1, <2>2, <2>6, <3>1, <3>2, <1>4
  <2>9. CASE ~u.found
    <3>1. After(olds, p)[k] = olds[k]
      BY <1>1, <2>5, <2>7, <2>9
    <3>2. Brought(olds[k].wls, t.wls) = olds[k].wls
      BY <2>4, <2>9 DEF Brought
    <3> QED
      BY <2>1, <2>2, <2>6, <3>1, <3>2, <1>4
  <2> QED
    BY <2>8, <2>9
<1> QED
  BY <1>3, <1>4

\* The machines on the nodes after the plan are wished for.
LEMMA NoneIsLeft ==
  ASSUME OneType, NEW wish \in Wishes, NEW olds, \A k \in DOMAIN olds : Carries(k, olds[k]),
         DOMAIN olds \subseteq contracts,
         NEW p, p.update = UpdatePlan(olds, wish).update, p.delete = UpdatePlan(olds, wish).delete,
         Range(p.new) = UpdatePlan(olds, wish).create,
         NEW k \in DOMAIN After(olds, p), NEW o \in Machines(After(olds, p)[k].wls)
  PROVE  \E t \in wish : t.node = After(olds, p)[k].node /\ \E w \in Machines(t.wls) : Same(w, o)
<1>1. CASE k \in DOMAIN p.new
  <2>1. After(olds, p)[k] = p.new[k]
    BY <1>1 DEF After
  <2>2. p.new[k] \in wish
    BY <1>1 DEF Range, UpdatePlan, OnSameNodes
  <2> QED
    BY <2>1, <2>2 DEF Same
<1>2. CASE k \notin DOMAIN p.new
  <2>1. k \in DOMAIN olds
    BY <1>2 DEF After
  <2>2. PICK t \in Matches(k, olds, OnSameNodes(wish)) : TRUE
    BY <1>2, <2>1, MatchedIsBrought
  <2>3. /\ t \in wish /\ t.node = After(olds, p)[k].node
        /\ After(olds, p)[k].wls = Brought(olds[k].wls, t.wls)
    BY <1>2, <2>1, <2>2, MatchedIsBrought
  <2>4. Known(olds[k].wls) /\ Known(t.wls)
    <3>1. t \in Deployments
      BY <2>3 DEF Deployments
    <3> QED
      BY <2>1, <3>1, WishesKnown DEF Carries
  <2> QED
    BY <2>3, <2>4, BroughtIsAsked
<1> QED
  BY <1>1, <1>2

\* The three cases in which the machine t.wls[j] may be missing.
Excused(olds, t, j) ==
  LET at == {k \in DOMAIN olds : olds[k].node = t.node /\ olds[k].ip = t.ip}
      kept(k) == {o \in Range(olds[k].wls) :
                    o.type # NetworkType /\ o.name \in NamesOf(t.wls)}
  IN  \/ /\ t.ip = NoIp /\ at = {}
         /\ \E k \in contracts : site[k].node = t.node
      \/ \E k \in at :
           \A o \in kept(k) : \E i \in 1 .. (j - 1) :
             t.wls[i].name = o.name /\ t.wls[i].data # o.data

\* A machine that is wished for is there after the plan, but for these cases.
LEMMA OneIsMissing ==
  ASSUME OneType, NEW wish \in Wishes, NEW olds, \A k \in DOMAIN olds : Carries(k, olds[k]),
         DOMAIN olds \subseteq contracts,
         NEW p, p.update = UpdatePlan(olds, wish).update, p.delete = UpdatePlan(olds, wish).delete,
         Range(p.new) = UpdatePlan(olds, wish).create, DOMAIN p.new \cap DOMAIN olds = {},
         NEW t \in wish, NEW j \in DOMAIN t.wls, t.wls[j].type = "machine",
         \A k \in DOMAIN After(olds, p) : After(olds, p)[k].node = t.node =>
           ~\E w \in Machines(After(olds, p)[k].wls) : Same(t.wls[j], w)
  PROVE  Excused(olds, t, j)
<1> DEFINE same == OnSameNodes(wish)
           matched == {k \in DOMAIN olds : Matches(k, olds, same) # {}}
           at == {k \in DOMAIN olds : olds[k].node = t.node /\ olds[k].ip = t.ip}
           kept(k) == {o \in Range(olds[k].wls) :
                         o.type # NetworkType /\ o.name \in NamesOf(t.wls)}
<1>1. t \notin UpdatePlan(olds, wish).create
  <2> SUFFICES ASSUME t \in Range(p.new) PROVE FALSE
    OBVIOUS
  <2>1. PICK k \in DOMAIN p.new : p.new[k] = t
    BY DEF Range
  <2>2. k \in DOMAIN After(olds, p) /\ After(olds, p)[k] = t
    BY <2>1 DEF After
  <2>3. t.wls[j] \in Machines(t.wls)
    BY DEF Machines
  <2> QED
    BY <2>2, <2>3 DEF Same
<1>2. /\ t \in same
      /\ t.ip = NoIp \/ \E k \in matched : olds[k].ip = t.ip
  BY <1>1 DEF UpdatePlan
<1>3. \E k \in contracts : site[k].node = t.node
  BY <1>2 DEF OnSameNodes
<1>4. \A k \in DOMAIN olds : \A x \in Matches(k, olds, same) :
        x \in wish /\ x.node = olds[k].node /\ x.ip = olds[k].ip
  <2>1. \A k \in DOMAIN olds : olds[k].node = site[k].node /\ k \in contracts
    BY DEF Carries
  <2> QED
    BY <2>1 DEF Matches, OnSameNodes, SiteOf
<1>5. ASSUME NEW k \in at PROVE t \in Matches(k, olds, same)
  <2>1. olds[k].node = site[k].node /\ k \in contracts
    BY DEF Carries
  <2> QED
    BY <1>2, <2>1 DEF Matches, SiteOf
<1>6. CASE at = {}
  <2>1. t.ip = NoIp
    <3> SUFFICES ASSUME t.ip # NoIp PROVE FALSE
      OBVIOUS
    <3>1. PICK k \in matched : olds[k].ip = t.ip
      BY <1>2
    <3>2. PICK x \in Matches(k, olds, same) : TRUE
      OBVIOUS
    <3>3. x \in wish /\ x.node = olds[k].node /\ x.ip = t.ip
      BY <1>4, <3>1, <3>2
    <3>4. x = t
      BY <3>3, BaseAssumption
    <3> QED
      BY <1>6, <3>1, <3>3, <3>4
  <2> QED
    BY <1>3, <1>6, <2>1 DEF Excused
<1>7. CASE at # {}
  <2>1. PICK k \in at : TRUE
    BY <1>7
  <2> SUFFICES ASSUME NEW o \in kept(k),
                      \A i \in 1 .. (j - 1) : ~(t.wls[i].name = o.name /\ t.wls[i].data # o.data)
               PROVE  FALSE
    BY <2>1 DEF Excused
  <2>2. /\ k \in DOMAIN After(olds, p) /\ After(olds, p)[k].node = t.node
        /\ After(olds, p)[k].wls = Brought(olds[k].wls, t.wls)
    <3>1. k \in DOMAIN olds /\ k \notin DOMAIN p.new /\ olds[k].node = t.node
      OBVIOUS
    <3>2. t \in Matches(k, olds, OnSameNodes(wish))
      BY <1>5
    <3> QED
      BY <3>1, <3>2, MatchedIsBrought
  <2>3. Known(olds[k].wls) /\ Known(t.wls) /\ MachinesDiffer(t.wls)
    <3>1. t \in Deployments
      BY DEF Deployments
    <3> QED
      BY <3>1, WishesKnown, BaseAssumption DEF Carries, MachinesDiffer
  <2>4. \E w \in Machines(Brought(olds[k].wls, t.wls)) : Same(t.wls[j], w)
    BY <2>3, AskedIsBrought
  <2> QED
    BY <2>2, <2>4
<1> QED
  BY <1>6, <1>7

-----------------------------------------------------------------------------
(* The invariant of calls that take turns.                                   *)

\* What contracts have on their nodes, and what a call has found or is about to
\* put there, was asked for.
BodyOK == \A k \in DOMAIN body : Carries(k, body[k])

WorkOK(c) ==
  /\ pc[c] \in {"handling", "saving"} => job[c] \in Jobs
  /\ pc[c] \in {"idle", "asking"} => DOMAIN found[c] = {} /\ todo[c] = {}
  /\ \A k \in DOMAIN found[c] : Carries(k, found[c][k])
  /\ pc[c] = "handling" =>
       /\ \A k \in New(c) : Carries(k, plan[c].new[k])
       /\ \A k \in DOMAIN plan[c].update : k \in DOMAIN found[c] /\ Known(plan[c].update[k])

\* A contract that is written off while it is active has nothing running, and calls
\* that take turns do not look at it again.
VacantOK ==
  ~overlapped => \A k \in deletedContracts \cap chain : k \in DOMAIN body /\ Vacant(body[k])

SeenOK(c) ==
  ~overlapped /\ c \in Busy =>
    /\ (todo[c] \cup DOMAIN found[c]) \cap deletedContracts \cap chain = {}
    /\ todo[c] \cap DOMAIN found[c] = {}

\* A call began when all the others that have begun were over.
TurnOK(c) ==
  ~overlapped /\ c \in Busy =>
    \A d \in Calls \ {c} : d \notin Busy /\ (pc[d] # "idle" => d \in before[c])

\* An update finds all there is on the nodes, and changes it by its plan.
Updating(c) == job[c].op = "update" /\ ~overlapped /\ lost = {}

FoundOK(c) ==
  pc[c] \in {"getting", "planning", "handling"} =>
    /\ DOMAIN body \subseteq todo[c] \cup DOMAIN found[c] \cup deletedContracts
    /\ \A k \in DOMAIN found[c] : k \in DOMAIN body /\ found[c][k] = body[k]

\* But for deployments with nothing running, the nodes have what the plan makes of
\* what was found.
Reached(c) ==
  LET goal == After(found[c], plan[c]) IN
    /\ \A k \in DOMAIN goal : k \in DOMAIN body /\ body[k] = goal[k]
    /\ \A k \in DOMAIN body \ DOMAIN goal : Vacant(body[k])

SightOK(c) ==
  Updating(c) =>
    /\ FoundOK(c)
    /\ pc[c] \in {"planning", "handling"} => todo[c] = {}
    /\ pc[c] \in {"getting", "planning", "handling", "saving"} =>
         DOMAIN found[c] \cup todo[c] \subseteq contracts /\ contracts \subseteq 1 .. made
    /\ pc[c] \in {"handling", "saving"} =>
         LET p == UpdatePlan(found[c], job[c].wish) IN
           /\ plan[c].update = p.update /\ plan[c].delete = p.delete
           /\ Range(plan[c].new) = p.create
           /\ New(c) \cap DOMAIN found[c] = {}
    /\ pc[c] = "saving" => Reached(c)

UInv ==
  /\ BodyOK /\ VacantOK
  /\ \A c \in Calls : WorkOK(c) /\ SeenOK(c) /\ TurnOK(c) /\ SightOK(c)

LEMMA UInvMeets == IInv /\ UInv /\ OneType => UpdateReaches
<1> SUFFICES ASSUME IInv, UInv, OneType, NEW c \in Calls, pc[c] = "saving",
                    job[c].op = "update", ~overlapped, lost = {}
             PROVE  /\ Running \subseteq Wanted(job[c].wish)
                    /\ \A t \in job[c].wish : \A j \in DOMAIN t.wls :
                         t.wls[j].type = "machine"
                         /\ [node |-> t.node, name |-> t.wls[j].name, data |-> t.wls[j].data]
                              \notin Running
                         => Excused(found[c], t, j)
  BY DEF UpdateReaches, Excused
<1> DEFINE wish == job[c].wish
<1>1. wish \in Wishes
  BY DEF UInv, WorkOK, Jobs
<1>2. /\ \A k \in DOMAIN found[c] : Carries(k, found[c][k])
      /\ DOMAIN found[c] \subseteq contracts
      /\ plan[c].update = UpdatePlan(found[c], wish).update
      /\ plan[c].delete = UpdatePlan(found[c], wish).delete
      /\ Range(plan[c].new) = UpdatePlan(found[c], wish).create
      /\ DOMAIN plan[c].new \cap DOMAIN found[c] = {}
  BY DEF UInv, WorkOK, SightOK, Updating, New
<1> DEFINE goal == After(found[c], plan[c])
<1>3. /\ \A k \in DOMAIN goal : k \in DOMAIN body /\ body[k] = goal[k]
      /\ \A k \in DOMAIN body \ DOMAIN goal : Vacant(body[k])
  BY DEF UInv, SightOK, Updating, Reached
<1> HIDE DEF wish
<1>4. Running \subseteq Wanted(wish)
  <2> SUFFICES ASSUME NEW x \in Running PROVE x \in Wanted(wish)
    OBVIOUS
  <2>1. PICK d \in {body[k] : k \in DOMAIN body} :
          x \in {[node |-> d.node, name |-> w.name, data |-> w.data] : w \in Machines(d.wls)}
    BY Zenon DEF Running, Wanted
  <2>2. PICK k \in DOMAIN body : d = body[k]
    BY <2>1
  <2>3. PICK o \in Machines(body[k].wls) :
          x = [node |-> body[k].node, name |-> o.name, data |-> o.data]
    BY <2>1, <2>2
  <2>4. k \in DOMAIN goal /\ goal[k] = body[k]
    <3>1. ~Vacant(body[k])
      BY DEF Machines, Vacant, NetworkType
    <3> QED
      BY <1>3, <3>1
  <2>5. PICK t \in wish : t.node = body[k].node /\ \E w \in Machines(t.wls) : Same(w, o)
    BY <1>1, <1>2, <2>4, NoneIsLeft
  <2>6. PICK w \in Machines(t.wls) : x = [node |-> t.node, name |-> w.name, data |-> w.data]
    BY <2>3, <2>5 DEF Same
  <2> QED
    BY <2>6 DEF Wanted
<1>5. ASSUME NEW t \in wish, NEW j \in DOMAIN t.wls, t.wls[j].type = "machine",
             [node |-> t.node, name |-> t.wls[j].name, data |-> t.wls[j].data] \notin Running
      PROVE  Excused(found[c], t, j)
  <2>1. \A k \in DOMAIN body : body[k].node = t.node =>
          ~\E w \in Machines(body[k].wls) : Same(t.wls[j], w)
    BY <1>5 DEF Running, Wanted, Same
  <2>2. \A k \in DOMAIN goal : goal[k].node = t.node =>
          ~\E w \in Machines(goal[k].wls) : Same(t.wls[j], w)
    BY <1>3, <2>1
  <2> QED
    BY <1>1, <1>2, <1>5, <2>2, OneIsMissing
<1> QED
  BY <1>4, <1>5 DEF wish

LEMMA InitUInv == Init => UInv
<1> SUFFICES ASSUME Init PROVE UInv
  OBVIOUS
<1>1. BodyOK /\ VacantOK
  BY DEF Init, BodyOK, VacantOK
<1>2. ASSUME NEW c \in Calls PROVE WorkOK(c) /\ SeenOK(c) /\ TurnOK(c) /\ SightOK(c)
  BY DEF Init, WorkOK, SeenOK, TurnOK, SightOK, FoundOK, Busy
<1> QED
  BY <1>1, <1>2 DEF UInv

\* Steps that leave the calls and the nodes alone.
LEMMA UntouchedUInv ==
  ASSUME UInv, lost \subseteq lost',
         UNCHANGED <<pc, job, todo, found, plan, before, overlapped, made, chain, body, site,
                     contracts, deletedContracts>>
  PROVE  UInv'
<1>1. BodyOK' /\ VacantOK'
  BY DEF UInv, BodyOK, VacantOK, Carries
<1>2. ASSUME NEW c \in Calls PROVE WorkOK(c)'
  BY DEF UInv, WorkOK, Carries, New
<1>3. ASSUME NEW c \in Calls PROVE TurnOK(c)' /\ SeenOK(c)'
  BY DEF UInv, TurnOK, SeenOK, Busy
<1>4. ASSUME NEW c \in Calls PROVE SightOK(c)'
  <2> SUFFICES ASSUME Updating(c)' PROVE SightOK(c)'
    BY DEF SightOK
  <2>1. Updating(c)
    BY DEF Updating
  <2>2. UpdatePlan(found[c], job[c].wish)' = UpdatePlan(found[c], job[c].wish)
    BY DEF UpdatePlan, OnSameNodes, Matches, SiteOf
  <2>3. After(found[c], plan[c])' = After(found[c], plan[c])
    OBVIOUS
  <2>4. SightOK(c)
    BY DEF UInv
  <2> QED
    BY <2>1, <2>2, <2>3, <2>4 DEF SightOK, FoundOK, Reached, New
<1> QED
  BY <1>1, <1>2, <1>3, <1>4 DEF UInv

\* A step of the call c: what is said of the others holds on, or they are idle or
\* over, or calls have overlapped.
LEMMA StepUInv ==
  ASSUME IInv, UInv, NEW c \in Calls, OnlyOf(c), lost \subseteq lost',
         ~overlapped' => \A d \in Calls \ {c} : d \notin Busy,
         \A k \in 1 .. made : site'[k] = site[k],
         BodyOK', VacantOK', WorkOK(c)', SeenOK(c)', TurnOK(c)', SightOK(c)'
  PROVE  UInv'
<1>1. ASSUME NEW d \in Calls \ {c}
      PROVE  /\ pc'[d] = pc[d] /\ job'[d] = job[d] /\ found'[d] = found[d] /\ plan'[d] = plan[d]
             /\ todo'[d] = todo[d]
             /\ DOMAIN found[d] \cup New(d) \subseteq 1 .. made
  BY DEF OnlyOf, IInv, LocalOK
<1>2. ASSUME NEW d \in Calls \ {c} PROVE WorkOK(d)'
  <2>1. WorkOK(d)
    BY DEF UInv
  <2> QED
    BY <1>1, <2>1 DEF WorkOK, Carries, New
<1>3. ASSUME NEW d \in Calls \ {c} PROVE SeenOK(d)' /\ TurnOK(d)' /\ SightOK(d)'
  <2>1. d \in Busy' => d \in Busy
    BY <1>1 DEF Busy
  <2>2. ~overlapped' => pc'[d] \in Over \cup {"idle"}
    BY <2>1 DEF Busy
  <2> QED
    BY <2>1, <2>2 DEF SeenOK, TurnOK, SightOK, FoundOK, Updating, Over
<1> QED
  BY <1>2, <1>3 DEF UInv

LEMMA AloneAlready ==
  ASSUME UInv, NEW c \in Busy, OnlyOf(c), before' = before, overlapped' = overlapped
  PROVE  /\ c \in Calls
         /\ ~overlapped' => \A d \in Calls \ {c} : d \notin Busy
         /\ TurnOK(c)'
<1>1. c \in Calls
  BY DEF Busy
<1>2. ~overlapped => \A d \in Calls \ {c} : d \notin Busy /\ (pc[d] # "idle" => d \in before[c])
  BY <1>1 DEF UInv, TurnOK
<1>3. \A d \in Calls \ {c} : pc'[d] = pc[d] /\ (d \in Busy' => d \in Busy)
  BY DEF OnlyOf, Busy
<1> QED
  BY <1>1, <1>2, <1>3 DEF TurnOK

LEMMA CrashUInv == ASSUME UInv, Crash PROVE UInv'
<1>1. BodyOK' /\ VacantOK'
  BY DEF UInv, BodyOK, VacantOK, Carries, Crash, grid
<1>2. ASSUME NEW c \in Calls
      PROVE /\ pc'[c] \in Over \cup {"idle"} /\ found'[c] = <<>> /\ todo'[c] = {}
            /\ c \notin Busy'
  BY DEF Crash, Busy, Over
<1>3. ASSUME NEW c \in Calls PROVE WorkOK(c)' /\ SeenOK(c)' /\ TurnOK(c)' /\ SightOK(c)'
  BY <1>2 DEF WorkOK, SeenOK, TurnOK, SightOK, FoundOK, Over
<1> QED
  BY <1>1, <1>3 DEF UInv

LEMMA AskUInv == ASSUME IInv, UInv, NEW c \in Calls, Ask(c) PROVE UInv'
<1>1. /\ OnlyOf(c) /\ pc'[c] = "asking" /\ found' = found /\ body' = body /\ site' = site
      /\ pc[c] = "idle" /\ todo' = todo /\ chain' = chain /\ deletedContracts' = deletedContracts
      /\ before'[c] = {d \in Calls : pc[d] \in Over} /\ lost' = lost
      /\ overlapped' = (overlapped \/ Busy # {})
  BY DEF IInv, MapsOK, OnlyOf, Ask, grid, lists
<1>2. BodyOK' /\ VacantOK'
  BY <1>1 DEF UInv, BodyOK, VacantOK, Carries
<1>3. WorkOK(c)'
  BY <1>1 DEF UInv, WorkOK, Carries, Ask
<1>4. ~overlapped' => \A d \in Calls \ {c} : d \notin Busy /\ pc'[d] = pc[d]
  BY <1>1 DEF OnlyOf
<1>5. TurnOK(c)'
  BY <1>1, <1>4 DEF TurnOK, Busy
<1>6. SightOK(c)'
  BY <1>1 DEF SightOK, FoundOK
<1>7. SeenOK(c)'
  BY <1>1 DEF UInv, WorkOK, SeenOK
<1> QED
  BY <1>1, <1>2, <1>3, <1>4, <1>5, <1>6, <1>7, StepUInv

\* The ways a call ends.
LEMMA EndUInv ==
  ASSUME IInv, UInv, NEW c \in Busy, NEW how \in Over, End(c, how),
         UNCHANGED <<before, overlapped, site>>, lost \subseteq lost', BodyOK', VacantOK'
  PROVE  UInv'
<1>1. c \in Calls
  BY DEF Busy
<1>2. OnlyOf(c) /\ pc'[c] = how /\ DOMAIN found'[c] = {} /\ todo'[c] = {}
  BY <1>1, EndEffect
<1>3. WorkOK(c)' /\ SightOK(c)' /\ SeenOK(c)'
  BY <1>2 DEF WorkOK, SightOK, SeenOK, FoundOK, Over
<1>4. ~overlapped' => \A d \in Calls \ {c} : d \notin Busy
  BY <1>2, AloneAlready
<1>5. TurnOK(c)'
  BY <1>2, AloneAlready
<1> QED
  BY <1>1, <1>2, <1>3, <1>4, <1>5, StepUInv

LEMMA FailUInv ==
  ASSUME IInv, UInv, NEW c \in Busy, NEW how \in Over, End(c, how),
         UNCHANGED <<before, overlapped, chain, site, body, deletedContracts>>,
         lost \subseteq lost'
  PROVE  UInv'
<1>1. BodyOK' /\ VacantOK'
  BY DEF UInv, BodyOK, VacantOK, Carries
<1> QED
  BY <1>1, EndUInv

\* The deployments that run nothing are none of those handle() works on.
LEMMA NotHandled ==
  ASSUME IInv, UInv, NEW c \in Calls, pc[c] = "handling", ~overlapped,
         NEW k \in deletedContracts \cap chain
  PROVE  /\ k \in DOMAIN body /\ Vacant(body[k])
         /\ k \notin DOMAIN plan[c].update /\ k \notin New(c)
<1>1. k \in DOMAIN body /\ Vacant(body[k])
  BY DEF UInv, VacantOK
<1>2. k \notin DOMAIN found[c] /\ DOMAIN plan[c].update \subseteq DOMAIN found[c]
  BY DEF UInv, SeenOK, WorkOK, Busy, Over
<1>3. New(c) \cap DOMAIN body = {}
  BY DEF IInv, HandledOK
<1> QED
  BY <1>1, <1>2, <1>3

\* handle() fails: what it was to update runs a list that was asked for.
LEMMA FailedUInv ==
  ASSUME IInv, UInv, NEW c \in Calls, pc[c] = "handling", End(c, "failed"),
         UNCHANGED <<before, overlapped, site, deletedContracts>>, lost \subseteq lost',
         NEW gone, NEW sent, sent \subseteq New(c), NEW both,
         both \subseteq DOMAIN plan[c].update, NEW wls,
         chain' \subseteq chain, chain' \cap gone = {}, \A k \in both : Known(wls[k]),
         body' = [k \in (DOMAIN body \ gone) \cup sent |->
                    IF k \in sent THEN plan[c].new[k]
                    ELSE IF k \in both THEN [body[k] EXCEPT !.wls = wls[k]] ELSE body[k]]
  PROVE  UInv'
<1>1. c \in Busy
  BY DEF Busy, Over
<1>2. BodyOK'
  <2> SUFFICES ASSUME NEW k \in DOMAIN body' PROVE Carries(k, body'[k])
    BY DEF BodyOK, Carries
  <2>1. CASE k \in sent
    BY <2>1 DEF UInv, WorkOK
  <2>2. CASE k \notin sent
    <3>1. k \in DOMAIN body /\ Carries(k, body[k])
      BY <2>2 DEF UInv, BodyOK
    <3>2. CASE k \in both
      <4>1. body'[k] = [body[k] EXCEPT !.wls = wls[k]] /\ Known(wls[k])
        BY <2>2, <3>2
      <4> QED
        BY <3>1, <4>1 DEF Carries
    <3>3. CASE k \notin both
      BY <2>2, <3>1, <3>3
    <3> QED
      BY <3>2, <3>3
  <2> QED
    BY <2>1, <2>2
<1>3. VacantOK'
  <2> SUFFICES ASSUME ~overlapped, NEW k \in deletedContracts \cap chain'
               PROVE  k \in DOMAIN body' /\ Vacant(body'[k])
    BY DEF VacantOK
  <2>1. /\ k \in DOMAIN body /\ Vacant(body[k])
        /\ k \notin both /\ k \notin sent /\ k \notin gone
    BY NotHandled
  <2>2. k \in DOMAIN body' /\ body'[k] = body[k]
    BY <2>1
  <2> QED
    BY <2>1, <2>2
<1> QED
  BY <1>1, <1>2, <1>3, EndUInv DEF Over

LEMMA LeftKnown ==
  ASSUME UInv, NEW c \in Calls, pc[c] = "handling", NEW gone,
         NEW k \in DOMAIN plan[c].update \cap DOMAIN body
  PROVE  /\ \A wls \in Left(plan[c], k, gone) : Known(wls)
         /\ \A wls \in Restored(plan[c], k, gone) : Known(wls)
<1>1. Known(plan[c].update[k]) /\ Known(body[k].wls)
  BY DEF UInv, WorkOK, BodyOK, Carries
<1>2. Known(UpdateDeployment(plan[c].update[k], body[k].wls, 0).workloads)
  BY <1>1, UpdateKnown
<1>3. \A wls \in Left(plan[c], k, gone) : Known(wls)
  BY <1>1 DEF Left
<1> QED
  BY <1>2, <1>3 DEF Restored

LEMMA AbortUInv == ASSUME IInv, UInv, NEW c \in Calls, Abort(c) PROVE UInv'
<1> DEFINE both == DOMAIN plan[c].update \cap DOMAIN body
<1>1. /\ pc[c] = "handling" /\ End(c, "failed") /\ lost' = lost
      /\ UNCHANGED <<before, overlapped, site, deletedContracts>>
  BY DEF Abort, history, lists
<1>2. PICK gone \in Deletions(plan[c]) :
        \E wls \in [both -> UNION {Restored(plan[c], k, gone) : k \in both}] :
          /\ \A k \in both : wls[k] \in Restored(plan[c], k, gone)
          /\ chain' = (chain \ New(c)) \ gone
          /\ body' = [k \in DOMAIN body \ gone |->
               IF k \in both THEN [body[k] EXCEPT !.wls = wls[k]] ELSE body[k]]
  BY Zenon DEF Abort, New
<1>3. PICK wls :
        /\ \A k \in both : wls[k] \in Restored(plan[c], k, gone)
        /\ chain' = (chain \ New(c)) \ gone
        /\ body' = [k \in DOMAIN body \ gone |->
             IF k \in both THEN [body[k] EXCEPT !.wls = wls[k]] ELSE body[k]]
  BY <1>2, Zenon
<1>4. \A k \in both : Known(wls[k])
  BY <1>1, <1>3, LeftKnown
<1> HIDE DEF both
<1>5. body' = [k \in (DOMAIN body \ gone) \cup {} |->
                 IF k \in {} THEN plan[c].new[k]
                 ELSE IF k \in both THEN [body[k] EXCEPT !.wls = wls[k]] ELSE body[k]]
  BY <1>3
<1>6. chain' \subseteq chain /\ chain' \cap gone = {} /\ {} \subseteq New(c)
  BY <1>3
<1>7. both \subseteq DOMAIN plan[c].update
  BY DEF both
<1> QED
  BY <1>1, <1>4, <1>5, <1>6, <1>7, FailedUInv

LEMMA AbandonUInv == ASSUME IInv, UInv, NEW c \in Calls, Abandon(c) PROVE UInv'
<1> DEFINE both == DOMAIN plan[c].update \cap DOMAIN body
<1>1. /\ pc[c] = "handling" /\ End(c, "failed") /\ lost \subseteq lost'
      /\ UNCHANGED <<before, overlapped, site, deletedContracts>>
  BY DEF Abandon, lists
<1>2. PICK gone \in Deletions(plan[c]), sent \in SUBSET DOMAIN plan[c].new :
        \E wls \in [both -> UNION {Left(plan[c], k, gone) : k \in both}] :
          /\ gone # {} => sent = DOMAIN plan[c].new
          /\ \A k \in both : wls[k] \in Left(plan[c], k, gone)
          /\ chain' = chain \ gone
          /\ body' = [k \in (DOMAIN body \ gone) \cup sent |->
               IF k \in sent THEN plan[c].new[k]
               ELSE IF k \in both THEN [body[k] EXCEPT !.wls = wls[k]] ELSE body[k]]
  BY Zenon DEF Abandon
<1>3. PICK wls :
        /\ \A k \in both : wls[k] \in Left(plan[c], k, gone)
        /\ chain' = chain \ gone
        /\ body' = [k \in (DOMAIN body \ gone) \cup sent |->
             IF k \in sent THEN plan[c].new[k]
             ELSE IF k \in both THEN [body[k] EXCEPT !.wls = wls[k]] ELSE body[k]]
  BY <1>2, Zenon
<1>4. \A k \in both : Known(wls[k])
  BY <1>1, <1>3, LeftKnown
<1> HIDE DEF both
<1>5. /\ chain' \subseteq chain /\ chain' \cap gone = {} /\ sent \subseteq New(c)
      /\ both \subseteq DOMAIN plan[c].update
  BY <1>3 DEF both, New
<1> QED
  BY <1>1, <1>3, <1>4, <1>5, FailedUInv

\* What is saved as deleted is gone.
LEMMA SaveUInv == ASSUME IInv, UInv, NEW c \in Calls, Save(c) \/ SaveFails(c) PROVE UInv'
<1> USE DEF grid, history
<1>1. /\ pc[c] = "saving" /\ c \in Busy
      /\ deletedContracts' \subseteq deletedContracts \cup Del(c)
      /\ UNCHANGED <<before, overlapped, chain, site, body>> /\ lost \subseteq lost'
      /\ \E how \in Over : End(c, how)
  BY DEF Save, SaveFails, Reported, Del, Busy, Over
<1>2. Del(c) \cap chain = {}
  BY <1>1 DEF IInv, HandledOK
<1>3. BodyOK' /\ VacantOK'
  BY <1>1, <1>2 DEF UInv, BodyOK, VacantOK, Carries
<1> QED
  BY <1>1, <1>3, EndUInv

\* A call that is alone lists all the contracts there are.
LEMMA MergeUInv == ASSUME IInv, UInv, NEW c \in Calls, Merge(c) PROVE UInv'
<1>1. pc[c] = "asking" /\ c \in Busy
  BY DEF Merge, Busy, Over
<1>2. /\ contracts' = Listing(answer[c]) /\ lost \subseteq lost'
      /\ UNCHANGED <<body, site, chain, deletedContracts, before, overlapped>>
  BY DEF Merge, grid
<1> DEFINE listed == Listing(answer[c])
<1>3. CASE (job[c].op = "deploy") = (listed = {})
  <2>1. /\ todo' = [todo EXCEPT ![c] = listed] /\ answer' = [answer EXCEPT ![c] = {}]
        /\ pc' = [pc EXCEPT ![c] = IF listed = {} THEN "planning" ELSE "getting"]
        /\ UNCHANGED <<job, found, plan>>
    BY <1>3 DEF Merge
  <2> HIDE DEF listed
  <2>2. /\ OnlyOf(c) /\ todo'[c] = listed
        /\ pc'[c] = IF listed = {} THEN "planning" ELSE "getting"
    BY <1>2, <2>1 DEF IInv, MapsOK, OnlyOf
  <2>3. BodyOK' /\ VacantOK'
    BY <1>2 DEF UInv, BodyOK, VacantOK, Carries
  <2>4. WorkOK(c)'
    BY <1>2, <2>1, <2>2 DEF UInv, WorkOK, Carries
  <2>5. SeenOK(c)'
    <3>1. DOMAIN found'[c] = {} /\ todo'[c] \cap deletedContracts' = {}
      BY <1>1, <1>2, <2>1, <2>2 DEF UInv, WorkOK, listed, Listing
    <3> QED
      BY <3>1 DEF SeenOK
  <2>6. SightOK(c)'
    <3> SUFFICES ASSUME Updating(c)' PROVE SightOK(c)'
      BY DEF SightOK
    <3>1. job[c].op = "update" /\ ~overlapped /\ lost = {}
      BY <1>2, <2>1 DEF Updating
    <3>2. pc'[c] = "getting" /\ found'[c] = found[c]
      BY <1>3, <2>1, <2>2, <3>1 DEF listed
    <3>3. chain \subseteq listed \cup deletedContracts
      <4> SUFFICES ASSUME NEW k \in chain, k \notin deletedContracts PROVE k \in listed
        OBVIOUS
      <4> DEFINE d == site[k].by
      <4>1. d \in Calls /\ k \in Of(d)
        BY DEF IInv, SiteOK, Of
      <4>2. d # c /\ pc[d] # "idle"
        BY <1>1, <4>1 DEF IInv, LocalOK, ListedOK, Over
      <4>3. d \in before[c]
        BY <1>1, <3>1, <4>1, <4>2 DEF UInv, TurnOK
      <4>4. k \in answer[c] \cup newContracts
        BY <1>1, <3>1, <4>1, <4>3 DEF IInv, ListedOK
      <4> QED
        BY <4>4 DEF listed, Listing
    <3>4. DOMAIN found'[c] = {}
      BY <1>1, <2>1 DEF UInv, WorkOK
    <3>5. DOMAIN body' \subseteq todo'[c] \cup deletedContracts' /\ todo'[c] = contracts'
      BY <1>2, <2>2, <3>3 DEF IInv, GridOK, listed
    <3>6. contracts' \subseteq 1 .. made'
      BY <1>2 DEF IInv, GridOK, LocalOK, Listing, Merge, grid
    <3> QED
      BY <3>2, <3>4, <3>5, <3>6 DEF SightOK, FoundOK
  <2> QED
    BY <1>1, <1>2, <2>5, <2>1, <2>2, <2>3, <2>4, <2>6, StepUInv, AloneAlready
<1>4. CASE (job[c].op = "deploy") # (listed = {})
  <2>1. End(c, IF job[c].op \in {"get", "delete"} THEN "done" ELSE "failed")
    BY <1>4 DEF Merge
  <2> QED
    BY <1>1, <1>2, <2>1, FailUInv DEF Over
<1> QED
  BY <1>3, <1>4

\* What is written off is gone or runs nothing.
LEMMA WriteOffUInv ==
  ASSUME IInv, UInv, NEW c \in Calls, pc[c] = "getting", NEW k \in todo[c],
         k \notin chain \/ (k \in DOMAIN body /\ Vacant(body[k])), WriteOff(c, k)
  PROVE  UInv'
<1> USE DEF grid
<1>1. /\ deletedContracts' = deletedContracts \cup {k} /\ c \in Busy
      /\ UNCHANGED <<made, chain, site, body, contracts, before, overlapped, lost>>
  BY DEF WriteOff, Busy, Over
<1>2. BodyOK' /\ VacantOK'
  BY <1>1 DEF UInv, BodyOK, VacantOK, Carries
<1>3. CASE End(c, "failed")
  BY <1>1, <1>2, <1>3, EndUInv DEF Over
<1>4. CASE todo' = [todo EXCEPT ![c] = @ \ {k}] /\ UNCHANGED <<pc, job, answer, found, plan>>
  <2>1. OnlyOf(c) /\ todo'[c] = todo[c] \ {k} /\ pc'[c] = "getting" /\ found'[c] = found[c]
    BY <1>1, <1>4 DEF IInv, MapsOK, OnlyOf
  <2>2. WorkOK(c)'
    BY <1>1, <1>4, <2>1 DEF UInv, WorkOK, Carries
  <2>3. SeenOK(c)'
    BY <1>1, <1>4, <2>1 DEF UInv, SeenOK, Busy
  <2>4. SightOK(c)'
    <3> SUFFICES ASSUME Updating(c)' PROVE SightOK(c)'
      BY DEF SightOK
    <3>1. Updating(c) /\ SightOK(c)
      BY <1>1, <1>4 DEF Updating, UInv
    <3>2. /\ DOMAIN body \subseteq todo[c] \cup DOMAIN found[c] \cup deletedContracts
          /\ \A x \in DOMAIN found[c] : x \in DOMAIN body /\ found[c][x] = body[x]
          /\ DOMAIN found[c] \cup todo[c] \subseteq contracts /\ contracts \subseteq 1 .. made
      BY <3>1 DEF SightOK, FoundOK
    <3>3. DOMAIN body \subseteq todo'[c] \cup DOMAIN found'[c] \cup deletedContracts'
      BY <1>1, <2>1, <3>2
    <3> QED
      BY <1>1, <2>1, <3>2, <3>3 DEF SightOK, FoundOK
  <2> QED
    BY <1>1, <1>2, <2>1, <2>2, <2>3, <2>4, StepUInv, AloneAlready
<1> QED
  BY <1>3, <1>4 DEF WriteOff

\* What is found is what the node has.
LEMMA NoteUInv ==
  ASSUME IInv, UInv, NEW c \in Calls, pc[c] = "getting", NEW k \in todo[c],
         k \in DOMAIN body, ~Vacant(body[k]), Note(c, k)
  PROVE  UInv'
<1> USE DEF grid, history, lists
<1>1. /\ OnlyOf(c) /\ todo'[c] = todo[c] \ {k} /\ pc'[c] = "getting" /\ c \in Busy
      /\ found'[c] = [x \in DOMAIN found[c] \cup {k} |-> IF x = k THEN body[k] ELSE found[c][x]]
      /\ UNCHANGED <<grid, lists, contracts, pc, job, plan, history>>
  BY DEF Note, IInv, MapsOK, OnlyOf, Busy, Over
<1>2. BodyOK' /\ VacantOK'
  BY <1>1 DEF UInv, BodyOK, VacantOK, Carries
<1>3. DOMAIN found'[c] = DOMAIN found[c] \cup {k}
  BY <1>1
<1>4. \A x \in DOMAIN found[c] \ {k} : found'[c][x] = found[c][x]
  BY <1>1
<1>5. found'[c][k] = body[k]
  BY <1>1
<1>6. WorkOK(c)'
  <2>1. \A x \in DOMAIN found'[c] : Carries(x, found'[c][x])
    BY <1>3, <1>4, <1>5 DEF UInv, WorkOK, BodyOK
  <2> QED
    BY <1>1, <2>1 DEF WorkOK, Carries
<1>7. SeenOK(c)'
  <2> SUFFICES ASSUME ~overlapped
               PROVE  /\ (todo'[c] \cup DOMAIN found'[c]) \cap deletedContracts \cap chain = {}
                      /\ todo'[c] \cap DOMAIN found'[c] = {}
    BY <1>1 DEF SeenOK
  <2>1. /\ (todo[c] \cup DOMAIN found[c]) \cap deletedContracts \cap chain = {}
        /\ todo[c] \cap DOMAIN found[c] = {}
    BY <1>1 DEF UInv, SeenOK
  <2> QED
    BY <1>1, <1>3, <2>1
<1>8. SightOK(c)'
  <2> SUFFICES ASSUME Updating(c)' PROVE SightOK(c)'
    BY DEF SightOK
  <2>1. Updating(c) /\ SightOK(c)
    BY <1>1 DEF Updating, UInv
  <2>2. /\ DOMAIN body \subseteq todo[c] \cup DOMAIN found[c] \cup deletedContracts
        /\ \A x \in DOMAIN found[c] : x \in DOMAIN body /\ found[c][x] = body[x]
        /\ DOMAIN found[c] \cup todo[c] \subseteq contracts /\ contracts \subseteq 1 .. made
    BY <2>1 DEF SightOK, FoundOK
  <2>3. /\ DOMAIN body \subseteq todo'[c] \cup DOMAIN found'[c] \cup deletedContracts
        /\ DOMAIN found'[c] \cup todo'[c] \subseteq contracts
    BY <1>1, <1>3, <2>2
  <2>4. \A x \in DOMAIN found'[c] : x \in DOMAIN body /\ found'[c][x] = body[x]
    BY <1>3, <1>4, <1>5, <2>2
  <2> QED
    BY <1>1, <2>2, <2>3, <2>4 DEF SightOK, FoundOK
<1> QED
  BY <1>1, <1>2, <1>6, <1>7, <1>8, StepUInv, AloneAlready

LEMMA InspectUInv ==
  ASSUME IInv, UInv, NEW c \in Calls, NEW k \in 1 .. made, Inspect(c, k)
  PROVE  UInv'
<1>1. pc[c] = "getting" /\ c \in Busy /\ k \in todo[c]
  BY DEF Inspect, Busy, Over
<1>2. CASE Fail(c)
  BY <1>1, <1>2, FailUInv DEF Fail, grid, history, lists, Over
<1> QED
  BY <1>1, <1>2, WriteOffUInv, NoteUInv DEF Inspect

\* A step that only moves the call c on.
LEMMA GotUInv == ASSUME IInv, UInv, NEW c \in Calls, Got(c) PROVE UInv'
<1>1. pc[c] = "getting" /\ todo[c] = {} /\ c \in Busy
  BY DEF Got, Busy, Over
<1>2. CASE job[c].op = "get"
  BY <1>1, <1>2, FailUInv DEF Got, grid, history, lists, Over
<1>3. CASE job[c].op # "get"
  <2> USE DEF grid, local, history
  <2>1. /\ OnlyOf(c) /\ pc'[c] = "planning"
        /\ UNCHANGED <<grid, local, contracts, history, deletedContracts>>
    BY <1>3 DEF IInv, MapsOK, OnlyOf, Got, lists
  <2>2. BodyOK' /\ WorkOK(c)' /\ VacantOK' /\ SeenOK(c)'
    BY <1>1, <2>1 DEF UInv, BodyOK, WorkOK, VacantOK, SeenOK, Carries
  <2>3. SightOK(c)'
    <3> SUFFICES ASSUME Updating(c)' PROVE SightOK(c)'
      BY DEF SightOK
    <3>1. Updating(c) /\ SightOK(c)
      BY <2>1 DEF Updating, UInv
    <3> QED
      BY <1>1, <2>1, <3>1 DEF SightOK, FoundOK
  <2> QED
    BY <1>1, <2>1, <2>2, <2>3, StepUInv, AloneAlready
<1> QED
  BY <1>2, <1>3

\* delete is no update.
LEMMA CancelledUInv == ASSUME IInv, UInv, NEW c \in Calls, Cancelled(c) PROVE UInv'
<1> USE DEF grid, local, history
<1>1. pc[c] = "planning" /\ job[c].op = "delete" /\ c \in Busy /\ job[c] \in Jobs
  BY DEF Cancelled, Busy, Over, IInv, LocalOK
<1>2. /\ OnlyOf(c) /\ pc'[c] = "saving"
      /\ UNCHANGED <<grid, local, contracts, history, deletedContracts>>
  BY DEF IInv, MapsOK, OnlyOf, Cancelled, lists
<1>3. BodyOK' /\ WorkOK(c)' /\ VacantOK' /\ SeenOK(c)'
  BY <1>1, <1>2 DEF UInv, BodyOK, WorkOK, VacantOK, SeenOK, Carries
<1>4. SightOK(c)'
  BY <1>1, <1>2 DEF SightOK, Updating
<1> QED
  BY <1>1, <1>2, <1>3, <1>4, StepUInv, AloneAlready

LEMMA CancelUInv ==
  ASSUME IInv, UInv, NEW c \in Calls, NEW k \in 1 .. made, Cancel(c, k)
  PROVE  UInv'
<1>1. pc[c] = "planning" /\ job[c].op = "delete" /\ c \in Busy
  BY DEF Cancel, Busy, Over
<1>2. CASE Fail(c)
  BY <1>1, <1>2, FailUInv DEF Fail, grid, history, lists, Over
<1>3. CASE /\ chain' = chain \ {k}
           /\ body' = Restrict(body, DOMAIN body \ {k})
           /\ found' = [found EXCEPT ![c] = Restrict(@, DOMAIN @ \ {k})]
           /\ plan' = [plan EXCEPT ![c].delete = @ \cup ({k} \cap chain)]
           /\ UNCHANGED <<made, site, lists, contracts, pc, job, answer, todo, history>>
  <2> USE DEF history, lists
  <2>1. OnlyOf(c) /\ found'[c] = [x \in DOMAIN found[c] \ {k} |-> found[c][x]]
    <3>1. OnlyOf(c) /\ found'[c] = Restrict(found[c], DOMAIN found[c] \ {k})
      BY <1>3 DEF IInv, MapsOK, OnlyOf
    <3> QED
      BY <3>1 DEF Restrict
  <2>2. body' = [x \in DOMAIN body \ {k} |-> body[x]]
    BY <1>3 DEF Restrict
  <2>3. BodyOK'
    BY <1>3, <2>2 DEF UInv, BodyOK, Carries
  <2>4. VacantOK'
    BY <1>3, <2>2 DEF UInv, VacantOK
  <2>5. /\ DOMAIN found'[c] = DOMAIN found[c] \ {k}
        /\ \A x \in DOMAIN found'[c] : found'[c][x] = found[c][x]
    BY <2>1
  <2>6. WorkOK(c)'
    <3>1. \A x \in DOMAIN found'[c] : Carries(x, found'[c][x])
      BY <2>5 DEF UInv, WorkOK
    <3> QED
      BY <1>1, <1>3, <3>1 DEF WorkOK, Carries
  <2>7. SeenOK(c)'
    BY <1>1, <1>3, <2>5 DEF UInv, SeenOK
  <2>8. SightOK(c)'
    BY <1>1, <1>3 DEF SightOK, Updating
  <2> QED
    BY <1>1, <1>3, <2>1, <2>3, <2>4, <2>6, <2>7, <2>8, StepUInv, AloneAlready
<1> QED
  BY <1>2, <1>3 DEF Cancel

\* handle() brings the nodes to what is found, changed by the plan.
LEMMA CommitUInv == ASSUME IInv, UInv, NEW c \in Calls, Commit(c) PROVE UInv'
<1> USE DEF local, history
<1>1. /\ pc[c] = "handling" /\ c \in Busy
      /\ chain' = chain \ Del(c)
      /\ UNCHANGED <<made, site, contracts, local, history, deletedContracts>>
  BY DEF Commit, Busy, Over, Del, lists
<1>2. OnlyOf(c) /\ pc'[c] = "saving"
  BY DEF IInv, MapsOK, OnlyOf, Commit
<1>3. body' = [k \in (DOMAIN body \ Del(c)) \cup New(c) |->
         IF k \in New(c) THEN plan[c].new[k]
         ELSE IF k \in DOMAIN plan[c].update THEN [body[k] EXCEPT !.wls = plan[c].update[k]]
         ELSE body[k]]
  BY DEF Commit, Del, New
<1>4. WorkOK(c) /\ SightOK(c)
  BY DEF UInv
<1>5. BodyOK'
  <2> SUFFICES ASSUME NEW k \in DOMAIN body' PROVE Carries(k, body'[k])
    BY <1>1 DEF BodyOK, Carries
  <2>1. CASE k \in New(c)
    BY <1>1, <1>3, <1>4, <2>1 DEF WorkOK
  <2>2. CASE k \notin New(c)
    <3>1. k \in DOMAIN body /\ Carries(k, body[k])
      BY <1>3, <2>2 DEF UInv, BodyOK
    <3>2. CASE k \in DOMAIN plan[c].update
      <4>1. body'[k] = [body[k] EXCEPT !.wls = plan[c].update[k]] /\ Known(plan[c].update[k])
        BY <1>1, <1>3, <1>4, <2>2, <3>2 DEF WorkOK
      <4> QED
        BY <3>1, <4>1 DEF Carries
    <3>3. CASE k \notin DOMAIN plan[c].update
      BY <1>3, <2>2, <3>1, <3>3
    <3> QED
      BY <3>2, <3>3
  <2> QED
    BY <2>1, <2>2
<1>6. VacantOK'
  <2> SUFFICES ASSUME ~overlapped, NEW k \in deletedContracts \cap chain'
               PROVE  k \in DOMAIN body' /\ Vacant(body'[k])
    BY <1>1 DEF VacantOK
  <2>1. /\ k \in DOMAIN body /\ Vacant(body[k]) /\ k \notin Del(c)
        /\ k \notin DOMAIN plan[c].update /\ k \notin New(c)
    BY <1>1, NotHandled
  <2>2. k \in DOMAIN body' /\ body'[k] = body[k]
    BY <1>3, <2>1
  <2> QED
    BY <2>1, <2>2
<1>7. SeenOK(c)'
  BY <1>1 DEF UInv, SeenOK
<1>8. WorkOK(c)'
  BY <1>1, <1>2, <1>4 DEF WorkOK, Carries
<1>9. SightOK(c)'
  <2> SUFFICES ASSUME Updating(c)' PROVE SightOK(c)'
    BY DEF SightOK
  <2>1. Updating(c)
    BY <1>1 DEF Updating
  <2>2. /\ DOMAIN body \subseteq DOMAIN found[c] \cup deletedContracts
        /\ \A k \in DOMAIN found[c] : k \in DOMAIN body /\ found[c][k] = body[k]
    BY <1>1, <1>4, <2>1 DEF SightOK, FoundOK
  <2> DEFINE goal == After(found[c], plan[c])
  <2>3. /\ DOMAIN goal = (DOMAIN found[c] \ Del(c)) \cup New(c)
        /\ \A k \in DOMAIN goal : k \in DOMAIN body' /\ body'[k] = goal[k]
    BY <1>3, <2>2 DEF After, Del, New
  <2>4. ASSUME NEW k \in DOMAIN body' \ DOMAIN goal PROVE Vacant(body'[k])
    <3>1. k \in DOMAIN body /\ k \notin DOMAIN found[c] /\ k \notin New(c)
      BY <1>3, <2>3
    <3>2. k \in deletedContracts \cap chain
      BY <2>2, <3>1 DEF IInv, GridOK
    <3>3. Vacant(body[k]) /\ k \notin DOMAIN plan[c].update
      BY <1>1, <2>1, <3>2, NotHandled DEF Updating
    <3>4. body'[k] = body[k]
      BY <1>3, <3>1, <3>3
    <3> QED
      BY <3>3, <3>4
  <2>5. Reached(c)'
    <3>1. goal' = goal
      BY <1>1
    <3> HIDE DEF goal
    <3> QED
      BY <2>3, <2>4, <3>1 DEF Reached, goal
  <2>6. UpdatePlan(found[c], job[c].wish)' = UpdatePlan(found[c], job[c].wish)
    BY <1>1 DEF UpdatePlan, OnSameNodes, Matches, SiteOf
  <2> QED
    BY <1>1, <1>2, <1>4, <2>1, <2>5, <2>6 DEF SightOK, FoundOK, New
<1> QED
  BY <1>1, <1>2, <1>5, <1>8, <1>9, <1>6, <1>7, StepUInv, AloneAlready

\* A plan is made of what is asked for and what was found.
LEMMA PlanKnown ==
  ASSUME IInv, UInv, NEW c \in Calls, pc[c] = "planning", job[c].op # "delete", NEW p \in Plans(c)
  PROVE  p.create \subseteq Deployments /\ \A k \in DOMAIN p.update : Known(p.update[k])
<1>1. job[c] \in Jobs /\ job[c].op # "get"
  BY DEF IInv, LocalOK
<1>2. \A k \in DOMAIN found[c] : Known(found[c][k].wls)
  BY DEF UInv, WorkOK, Carries
<1>3. CASE job[c].op = "deploy"
  <2>1. job[c].wish \in Wishes
    BY <1>1, <1>3 DEF Jobs
  <2>2. p = [NoPlan EXCEPT !.create = job[c].wish]
    BY <1>3 DEF Plans
  <2>3. p.create = job[c].wish /\ DOMAIN p.update = {}
    BY <2>2 DEF NoPlan
  <2> QED
    BY <2>1, <2>3 DEF Deployments
<1>4. CASE job[c].op = "update"
  <2> DEFINE wish == job[c].wish
             same == OnSameNodes(wish)
             matched == {k \in DOMAIN found[c] : Matches(k, found[c], same) # {}}
             t(k) == CHOOSE t \in Matches(k, found[c], same) : TRUE
             update == [k \in {k \in matched : Renewed(found[c][k], t(k)).found} |->
                          Renewed(found[c][k], t(k)).workloads]
  <2>1. wish \in Wishes
    BY <1>1, <1>4 DEF Jobs
  <2>2. p = UpdatePlan(found[c], wish)
    BY <1>4 DEF Plans
  <2>3. p.create \subseteq wish /\ p.update = update
    BY <2>2 DEF UpdatePlan, OnSameNodes
  <2>4. ASSUME NEW k \in DOMAIN update PROVE Known(update[k])
    <3>1. k \in DOMAIN found[c] /\ Matches(k, found[c], same) # {}
      OBVIOUS
    <3>2. t(k) \in wish
      BY <3>1 DEF Matches, OnSameNodes
    <3>3. Known(t(k).wls)
      BY <2>1, <3>2, WishesKnown DEF Deployments
    <3>4. Known(UpdateDeployment(found[c][k].wls, t(k).wls, 0).workloads)
      BY <1>2, <3>1, <3>3, UpdateKnown
    <3> QED
      BY <3>4 DEF Renewed
  <2> QED
    BY <2>1, <2>3, <2>4 DEF Deployments
<1>5. CASE job[c].op = "add"
  <2> DEFINE x == job[c].extra
  <2>1. x \in Deployments
    <3>1. job[c] \in [op : {"add"}, extra : Extras]
      BY <1>1, <1>5 DEF Jobs
    <3> QED
      BY <3>1 DEF Deployments
  <2>2. PICK k \in ContractsAt(x.node) : p = AddPlan(found[c], x, k)
    BY <1>5 DEF Plans
  <2>3. CASE x.ip = NoIp /\ k \in DOMAIN found[c] /\ found[c][k].ip = NoIp
    <3> DEFINE old == found[c][k].wls
               new == old \o x.wls
    <3>1. Known(old) /\ Known(x.wls)
      BY <1>2, <2>1, <2>3, WishesKnown
    <3> HIDE DEF old, x
    <3>2. old \in Seq(Workload) /\ x.wls \in Seq(Workload)
      BY <3>1 DEF Known
    <3>3. new \in Seq(Workload)
      BY <3>2
    <3>4. \A i \in DOMAIN new : \/ i \in DOMAIN old /\ new[i] = old[i]
                                \/ \E j \in DOMAIN x.wls : new[i] = x.wls[j]
      <4> SUFFICES ASSUME NEW i \in DOMAIN new, i \notin DOMAIN old
                   PROVE  \E j \in DOMAIN x.wls : new[i] = x.wls[j]
        BY <3>2
      <4>1. i - Len(old) \in DOMAIN x.wls /\ new[i] = x.wls[i - Len(old)]
        BY <3>2
      <4> QED
        BY <4>1
    <3> HIDE DEF new
    <3>5. Known(new)
      BY <3>1, <3>3, <3>4 DEF Known
    <3>6. Known(UpdateDeployment(old, new, 0).workloads)
      BY <3>1, <3>5, UpdateKnown
    <3>7. p.create = {} /\ p.update = [y \in {k} |-> UpdateDeployment(old, new, 0).workloads]
      BY <2>2, <2>3 DEF AddPlan, NoPlan, old, new, x
    <3> QED
      BY <3>6, <3>7
  <2>4. CASE ~(x.ip = NoIp /\ k \in DOMAIN found[c] /\ found[c][k].ip = NoIp)
    <3>1. p.create = {x} /\ DOMAIN p.update = {}
      BY <2>2, <2>4 DEF AddPlan, NoPlan
    <3> QED
      BY <2>1, <3>1
  <2> QED
    BY <2>3, <2>4
<1> QED
  BY <1>1, <1>3, <1>4, <1>5 DEF Jobs

\* handle() makes the new contracts, whose deployments were asked for, and the plan
\* of an update is one of what is on the nodes.
LEMMA OpenUInv == ASSUME IInv, UInv, NEW c \in Calls, Open(c) PROVE UInv'
<1> USE DEF history
<1>1. /\ pc[c] = "planning" /\ job[c].op # "delete" /\ c \in Busy
      /\ UNCHANGED <<body, contracts, history, deletedContracts>>
  BY DEF Open, Busy, Over, lists
<1>2. ASSUME NEW how \in Over, End(c, how), UNCHANGED <<made, chain, site>> PROVE UInv'
  BY <1>1, <1>2, FailUInv
<1>3. ASSUME NEW p \in Opened(c), MakesContracts(c, p)
      PROVE  UInv'
  <2> DEFINE ids == (made + 1) .. (made + Cardinality(p.create))
             new == CHOOSE f \in [ids -> p.create] : Range(f) = p.create
  <2>1. /\ IsFiniteSet(p.create) /\ DOMAIN p.update \subseteq DOMAIN found[c]
        /\ DOMAIN p = {"create", "update", "delete", "new"}
    BY <1>1, OpenedShape
  <2>2. PICK q \in Plans(c) : /\ p.create = q.create /\ p.update = q.update
                             /\ p.delete = q.delete \cap chain /\ q.delete \subseteq DOMAIN found[c]
    BY <1>1, OpenedShape, PlanShape
  <2>3. made \in Nat /\ Cardinality(p.create) \in Nat
    BY <2>1, FS_CardinalityType DEF IInv, GridOK
  <2>4. new \in [ids -> p.create] /\ Range(new) = p.create
    <3>1. \E f \in [ids -> p.create] : Range(f) = p.create
      BY <2>1, <2>3, Numbered
    <3> QED
      BY <3>1
  <2>5. /\ site' = [k \in 1 .. made' |->
             IF k \in ids THEN [node |-> new[k].node, by |-> c, op |-> job[c].op]
             ELSE site[k]]
        /\ pc' = [pc EXCEPT ![c] = "handling"]
        /\ plan' = [plan EXCEPT ![c] = [p EXCEPT !.new = new]]
        /\ made' = made + Cardinality(p.create) /\ chain' = chain \cup ids
        /\ UNCHANGED <<job, answer, todo, found>>
    BY <1>3 DEF MakesContracts
  <2> HIDE DEF new
  <2>6. /\ ids \cap (1 .. made) = {} /\ 1 .. made' = (1 .. made) \cup ids
        /\ \A k \in 1 .. made : site'[k] = site[k]
    BY <2>3, <2>5
  <2>7. \A k \in ids : site'[k].node = new[k].node
    BY <2>5, <2>6
  <2> HIDE DEF ids
  <2>8. OnlyOf(c) /\ pc'[c] = "handling" /\ plan'[c] = [p EXCEPT !.new = new]
    BY <1>1, <2>5 DEF IInv, MapsOK, OnlyOf
  <2>9. /\ plan'[c].new = new /\ plan'[c].update = p.update /\ plan'[c].delete = p.delete
        /\ New(c)' = ids
    BY <2>1, <2>4, <2>8 DEF New
  <2>10. DOMAIN body \cup DOMAIN found[c] \subseteq 1 .. made
    BY DEF IInv, GridOK, LocalOK
  <2>11. BodyOK'
    BY <1>1, <2>6, <2>10 DEF UInv, BodyOK, Carries
  <2>12. ASSUME NEW k \in New(c)' PROVE Carries(k, plan[c].new[k])'
    <3>1. new[k] \in Deployments
      BY <1>1, <2>2, <2>4, <2>9, <2>12, PlanKnown
    <3>2. new[k] = [node |-> new[k].node, ip |-> new[k].ip, wls |-> new[k].wls]
      BY <3>1, BaseAssumption
    <3> QED
      BY <2>7, <2>9, <2>12, <3>1, <3>2, WishesKnown DEF Carries
  <2>13. WorkOK(c)'
    <3>1. (\A k \in DOMAIN found[c] : Carries(k, found[c][k]))'
      <4>1. found' = found
        BY <2>5
      <4> QED
        BY <2>6, <2>10, <4>1 DEF UInv, WorkOK, Carries
    <3>2. \A k \in DOMAIN plan'[c].update :
            k \in DOMAIN found'[c] /\ Known(plan'[c].update[k])
      BY <1>1, <2>2, <2>1, <2>5, <2>9, PlanKnown
    <3>3. job'[c] \in Jobs
      BY <1>1, <2>5 DEF IInv, LocalOK
    <3> QED
      BY <2>8, <2>12, <3>1, <3>2, <3>3 DEF WorkOK
  <2>14. VacantOK'
    <3>1. deletedContracts' \cap chain' \subseteq deletedContracts \cap chain
      BY <1>1, <2>5, <2>6 DEF IInv, GridOK
    <3> QED
      BY <1>1, <3>1 DEF UInv, VacantOK
  <2>15. SeenOK(c)'
    <3>1. deletedContracts' \cap chain' \subseteq deletedContracts \cap chain
      BY <1>1, <2>5, <2>6 DEF IInv, GridOK
    <3> QED
      BY <1>1, <2>5, <3>1 DEF UInv, SeenOK
  <2>16. SightOK(c)'
    <3> SUFFICES ASSUME Updating(c)' PROVE SightOK(c)'
      BY DEF SightOK
    <3>1. Updating(c) /\ job[c].op = "update"
      BY <1>1, <2>5 DEF Updating
    <3>2. /\ FoundOK(c) /\ todo[c] = {}
          /\ DOMAIN found[c] \cup todo[c] \subseteq contracts /\ contracts \subseteq 1 .. made
      BY <1>1, <3>1 DEF UInv, SightOK
    <3>3. /\ p.create = UpdatePlan(found[c], job[c].wish).create
          /\ p.update = UpdatePlan(found[c], job[c].wish).update
          /\ p.delete = UpdatePlan(found[c], job[c].wish).delete
      <4>1. q = UpdatePlan(found[c], job[c].wish)
        BY <3>1 DEF Plans
      <4>2. q.delete \subseteq chain
        BY <1>1, <2>2, <3>2 DEF FoundOK, IInv, GridOK
      <4> QED
        BY <2>2, <4>1, <4>2
    <3>4. \A k \in contracts : site'[k] = site[k]
      BY <2>6, <3>2
    <3>5. UpdatePlan(found[c], job[c].wish)' = UpdatePlan(found[c], job[c].wish)
      <4>1. job' = job /\ found' = found /\ contracts' = contracts
        BY <1>1, <2>5
      <4>2. OnSameNodes(job[c].wish)' = OnSameNodes(job[c].wish)
        BY <3>4, <4>1 DEF OnSameNodes
      <4>3. \A k : SiteOf(k)' = SiteOf(k)
        BY <3>4, <4>1 DEF SiteOf
      <4>4. \A k : Matches(k, found[c], OnSameNodes(job[c].wish))'
                     = Matches(k, found[c], OnSameNodes(job[c].wish))
        BY <4>1, <4>2, <4>3 DEF Matches
      <4> DEFINE same == OnSameNodes(job[c].wish)
                 m(k) == Matches(k, found[c], same)
                 u(k) == Renewed(found[c][k], CHOOSE t \in m(k) : TRUE)
                 matched == {k \in DOMAIN found[c] : m(k) # {}}
                 create == (job[c].wish \ same) \cup
                   {t \in same : t.ip # NoIp /\ \A k \in matched : found[c][k].ip # t.ip}
                 update == [k \in {k \in matched : u(k).found} |-> u(k).workloads]
                 now == [create |-> create, update |-> update,
                         delete |-> DOMAIN found[c] \ matched, new |-> <<>>]
      <4>5. same' = same /\ \A k : m(k)' = m(k)
        BY <4>2, <4>4
      <4>6. /\ UpdatePlan(found[c], job[c].wish) = now
            /\ UpdatePlan(found[c], job[c].wish)' = now'
        BY DEF UpdatePlan
      <4> HIDE DEF same, m
      <4>7. matched' = matched
        BY <4>1, <4>5
      <4>8. ASSUME NEW k PROVE u(k)' = u(k)
        BY <4>1, <4>5
      <4> HIDE DEF u, matched
      <4>9. create' = create
        BY <4>1, <4>5, <4>7
      <4>10. update' = update
        BY <4>7, <4>8
      <4> HIDE DEF create, update
      <4> QED
        BY <4>1, <4>6, <4>7, <4>9, <4>10
    <3>6. New(c)' \cap DOMAIN found'[c] = {}
      BY <2>5, <2>6, <2>9, <2>10
    <3>7. /\ plan'[c].update = UpdatePlan(found[c], job[c].wish)'.update
          /\ plan'[c].delete = UpdatePlan(found[c], job[c].wish)'.delete
          /\ Range(plan'[c].new) = UpdatePlan(found[c], job[c].wish)'.create
      BY <2>4, <2>9, <3>3, <3>5
    <3>8. contracts' \subseteq 1 .. made'
      BY <1>1, <2>6, <3>2
    <3> QED
      BY <1>1, <2>5, <2>8, <3>2, <3>6, <3>7, <3>8 DEF SightOK, FoundOK
  <2> QED
    BY <1>1, <2>6, <2>8, <2>11, <2>13, <2>16, <2>14, <2>15, StepUInv, AloneAlready
<1> QED
  BY <1>2, <1>3, OpenCases

LEMMA NextUInv == IInv /\ UInv /\ [Next]_vars => UInv'
<1> SUFFICES ASSUME IInv, UInv, [Next]_vars PROVE UInv'
  OBVIOUS
<1>1. ASSUME NEW c \in Calls,
             Ask(c) \/ Merge(c) \/ Got(c) \/ Open(c) \/ Commit(c) \/ Abort(c)
             \/ Abandon(c) \/ Cancelled(c) \/ Save(c) \/ SaveFails(c)
      PROVE  UInv'
  BY <1>1, AskUInv, MergeUInv, GotUInv, OpenUInv, CommitUInv, AbortUInv, AbandonUInv,
     CancelledUInv, SaveUInv
<1>2. ASSUME NEW c \in Calls, NEW k \in 1 .. made, Inspect(c, k) \/ Cancel(c, k) PROVE UInv'
  BY <1>2, InspectUInv, CancelUInv
<1>3. ASSUME NEW k \in 1 .. made, Index(k) \/ Age(k) PROVE UInv'
  BY <1>3, UntouchedUInv DEF Index, Age, grid, lists, local, history
<1>4. ASSUME UNCHANGED vars PROVE UInv'
  BY <1>4, UntouchedUInv DEF vars, grid, lists, local, history
<1> QED
  BY <1>1, <1>2, <1>3, <1>4, CrashUInv DEF Next

LEMMA Both == Spec => [](IInv /\ UInv)
<1>1. Init => IInv /\ UInv
  BY InitInv, InitUInv
<1>2. IInv /\ UInv /\ [Next]_vars => (IInv /\ UInv)'
  BY NextInv, NextUInv
<1> QED
  BY <1>1, <1>2, PTL DEF Spec

\* _update compares what is wished for with what the nodes have, contract by contract,
\* and hands the rest to handle() (base.ts:867-922).  For any wishes in which no workload
\* has the name of one of another type, any number of calls that take turns, and whatever
\* they were and however they ended: when handle() is done, no machine runs that is not
\* wished for, and one that is wished for is missing only in the cases UpdateReaches
\* names.
THEOREM UpdatesReach == Spec => [](OneType => UpdateReaches)
<1>1. IInv /\ UInv => (OneType => UpdateReaches)
  BY UInvMeets
<1> QED
  BY <1>1, Both, PTL

\* An active contract is written off only when its node has nothing running for it
\* (base.ts:625-636), and as long as calls take turns nothing comes to run there: no
\* update, rollback or half-done deletion touches a deployment that was written off.
\* Nodes that do not answer, saves that throw and calls that fail write none off.
THEOREM NeverWrittenOff == Spec => []NotWrittenOff
<1>1. IInv /\ UInv => NotWrittenOff
  BY DEF IInv, GridOK, UInv, VacantOK, NotWrittenOff
<1> QED
  BY <1>1, Both, PTL
=============================================================================
