-------------------------- MODULE MCTFChainClient --------------------------
(* Instances of TFChainClient: tasks of one process that share its lock, a  *)
(* process with the same account, and calls of one or two chunks.           *)
EXTENDS TFChainClient

CONSTANTS a, b, c, here, there

\* Two tasks of one process, and a third of another with the same account.
TwoAndOne == [t \in Tasks |-> IF t = c THEN there ELSE here]
OneProcess == [t \in Tasks |-> here]

\* a has two chunks, b a single one, c one extrinsic.
Sizes == [t \in Tasks |-> CASE t = a -> 3 [] t = b -> 2 [] OTHER -> 1]

\* A call of several chunks, and one that is empty.
ManyAndNone == [t \in Tasks |-> IF t = a THEN 3 ELSE 0]
=============================================================================
