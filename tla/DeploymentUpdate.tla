------------------------- MODULE DeploymentUpdate -------------------------
(***************************************************************************)
(* DeploymentFactory.UpdateDeployment (grid_client/src/primitives/         *)
(* deployment.ts): the workloads of a running deployment are brought to    *)
(* those of a new one.  A workload is a record [name, type, data, version]:*)
(* "data" stands for everything its challenge covers beside the version.   *)
(*                                                                         *)
(* The code is a double loop that mutates both arguments.  It is stated    *)
(* here by what each position of the two lists contributes, so that no     *)
(* recursion is needed.                                                    *)
(***************************************************************************)
EXTENDS Naturals, Sequences, FiniteSets

NetworkType == "network"
Workload == [name : STRING, type : STRING, data : STRING, version : Nat]

NamesOf(wls) == {wls[k].name : k \in DOMAIN wls}

\* Mutant: workloads are never removed.
DeletedNever(old, new) == {}

\* Positions of "old" whose workload is absent from "new"; network workloads
\* are never looked at.
Deleted(old, new) ==
  {k \in DOMAIN old : old[k].type # NetworkType /\ old[k].name \notin NamesOf(new)}

\* Positions of "old" for which the inner loop over "new" runs.
Scanned(old, new) ==
  {k \in DOMAIN old : old[k].type # NetworkType} \ Deleted(old, new)

\* Positions of "new" that carry a change for old[k].
ChangesFor(k, old, new) ==
  {j \in DOMAIN new : /\ new[j].name = old[k].name
                      /\ new[j].type # NetworkType
                      /\ new[j].data # old[k].data}

\* The inner loop breaks at the first change it applies and otherwise reaches
\* the end of "new".
BreakAt(k, old, new) ==
  LET changes == ChangesFor(k, old, new)
  IN  IF changes = {} THEN Len(new) + 1
      ELSE CHOOSE j \in changes : \A i \in changes : j <= i

\* Positions of "new" that are appended: a name that "old" lacks, reached by
\* the inner loop of some scanned workload before that loop breaks.
Added(old, new) ==
  {j \in DOMAIN new :
     /\ new[j].name \notin NamesOf(old)
     /\ \A i \in 1..(j - 1) : new[i].name # new[j].name
     /\ \E k \in Scanned(old, new) : j < BreakAt(k, old, new)}

\* The elements of "wls" at the positions in "keep", in order.
Pick(wls, keep) ==
  [k \in 1..Cardinality(keep) |->
     wls[CHOOSE i \in keep : Cardinality({j \in keep : j <= i}) = k]]

\* [found, workloads]: "found" is FALSE when the code returns undefined.
UpdateDeployment(old, new, version) ==
  LET changed == {k \in Scanned(old, new) : ChangesFor(k, old, new) # {}}
      renewed == [k \in 1..Len(old) |->
                    IF k \in changed
                    THEN [old[k] EXCEPT !.data = new[BreakAt(k, old, new)].data,
                                        !.version = version + 1]
                    ELSE old[k]]
      fresh   == [j \in 1..Len(new) |-> [new[j] EXCEPT !.version = version + 1]]
  IN  [found     |-> \/ changed # {}
                     \/ Deleted(old, new) # {}
                     \/ Added(old, new) # {},
       workloads |-> Pick(renewed, DOMAIN old \ Deleted(old, new))
                       \o Pick(fresh, Added(old, new))]

-----------------------------------------------------------------------------
\* What a deployment runs, whatever its order and versions.
Contents(wls) == {[name |-> wls[k].name, data |-> wls[k].data] : k \in DOMAIN wls}

\* When UpdateDeployment(sent, old) undoes an update from "old" to "sent": names are
\* unique, the update has added no network workload (those are never removed), and
\* every workload that it has removed is listed before one it has kept, or along
\* with one it has kept unchanged (the inner loop stops at a change).
Undoable(old, sent) ==
  /\ \A i, j \in DOMAIN old : old[i].name = old[j].name => i = j
  /\ \A p \in DOMAIN sent : sent[p].type = NetworkType => sent[p].name \in NamesOf(old)
  /\ \A j \in DOMAIN old : old[j].name \notin NamesOf(sent) =>
       \E k \in DOMAIN old :
         /\ old[k].type # NetworkType
         /\ old[k].name \in NamesOf(sent)
         /\ \/ j < k
            \/ \A p \in DOMAIN sent : sent[p].name = old[k].name => sent[p].data = old[k].data

=============================================================================
