------------------------- MODULE MCPrivateNetwork -------------------------
(* An instance of PrivateNetwork for TLC.                                    *)
EXTENDS PrivateNetwork, TLC

CONSTANTS gate, plain, hidden, c1, c2, c3, c4

\* A machine on each node; access wanted with a machine on another node than the
\* access node, and with one on it.
MCWishes ==
  {[node |-> n, access |-> FALSE, via |-> NoNode] : n \in {gate, plain, hidden}}
  \cup {[node |-> hidden, access |-> TRUE, via |-> NoNode],
        [node |-> gate, access |-> TRUE, via |-> gate]}

\* Four calls one after the other; one less when two are under way at once, one less
\* after a restart, and one less when a failed deployment has left something.
MCBound ==
  Cardinality({c \in Calls : pc[c] # "idle"}) + crashes + (IF overlapped THEN 1 ELSE 0)
    + (IF halfSent \/ (cutOff /\ crashes = 0) THEN 1 ELSE 0) <= 4

MCSymmetry == Permutations(Calls)
=============================================================================
