------------------------ MODULE AtomicProvisioning ------------------------
(***************************************************************************)
(* What TwinDeploymentHandler.handle() promises about contracts: a         *)
(* transaction opens with all the contracts it makes or with none, may     *)
(* then seal its deletions, and ends committed, or aborted with none of    *)
(* its own contracts left.  Three endings break the promise and are named: *)
(* "stuck", the rollback itself throws; "lost", it throws although its     *)
(* batch was included; "hung", a connection drops, or a node does not      *)
(* answer, and it never ends.                                              *)
(***************************************************************************)
CONSTANTS
  Transactions,
  Contracts,
  Initial,       \* the contracts there are at the start
  Own(_)         \* the contracts a transaction may make

VARIABLES
  live,   \* the active contracts
  phase   \* where each transaction is

Init ==
  /\ live = Initial
  /\ phase = [t \in Transactions |-> "idle"]

Become(t, p) == phase' = [phase EXCEPT ![t] = p]

\* All the contracts of a transaction appear in one step.
Open(t) ==
  /\ phase[t] = "idle"
  /\ live \subseteq live'
  /\ live' \ live \subseteq Own(t)
  /\ Become(t, "open") \/ Become(t, "hung") \/ Become(t, "lost")

\* The deletions disappear in one step, and nothing it made is among them.
Seal(t) ==
  /\ phase[t] = "open"
  /\ live' \subseteq live
  /\ (live \ live') \cap Own(t) = {}
  /\ Become(t, "sealed") \/ Become(t, "hung") \/ Become(t, "retreating")

Commit(t) ==
  /\ phase[t] = "sealed"
  /\ Become(t, "committed")
  /\ UNCHANGED live

\* It gives up before it opened: there is nothing to take back.
GiveUp(t) ==
  /\ phase[t] = "idle"
  /\ Become(t, "aborted")
  /\ UNCHANGED live

Retreat(t) ==
  /\ phase[t] \in {"open", "sealed"}
  /\ Become(t, "retreating")
  /\ UNCHANGED live

\* Its own contracts disappear in one step, and no others.
Abort(t) ==
  /\ phase[t] = "retreating"
  /\ live' = live \ Own(t)
  /\ Become(t, "aborted") \/ Become(t, "hung") \/ Become(t, "stuck")

Break(t) ==
  /\ phase[t] = "retreating"
  /\ Become(t, "stuck")
  /\ UNCHANGED live

\* Also after it has taken everything back it may wait for a node.
Hang(t) ==
  /\ phase[t] \in {"idle", "open", "sealed", "retreating", "aborted"}
  /\ Become(t, "hung")
  /\ UNCHANGED live

Next == \E t \in Transactions :
  \/ Open(t) \/ Seal(t) \/ Commit(t)
  \/ GiveUp(t) \/ Retreat(t) \/ Abort(t) \/ Break(t) \/ Hang(t)

Spec == Init /\ [][Next]_<<live, phase>>

=============================================================================
