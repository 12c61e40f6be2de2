--------------------------- MODULE MCBaseModule ---------------------------
(* An instance of BaseModule for TLC.                                        *)
EXTENDS BaseModule

CONSTANTS here, there, ipA, NoChange, Change, c1, c2, c3, c4

Vm(name, data) == [name |-> name, type |-> "machine", data |-> data, version |-> 0]
Ip == [name |-> "ipA", type |-> "ip", data |-> NoChange, version |-> 0]
At(n, ip, wls) == [node |-> n, ip |-> ip, wls |-> wls]

\* One machine; another instead; the first one changed, with another behind it and
\* one on the other node; one with a public address and one without, there or here.
MCWishes ==
  LET a == Vm("a", NoChange)
      b == Vm("b", NoChange)
  IN  {{At(here, NoIp, <<a>>)},
       {At(here, NoIp, <<b>>)},
       {At(here, NoIp, <<Vm("a", Change), b>>), At(there, NoIp, <<Vm("c", NoChange)>>)},
       {At(here, ipA, <<Ip, a>>), At(there, NoIp, <<b>>)},
       {At(here, ipA, <<Ip, a>>), At(here, NoIp, <<b>>)}}

MCExtras == {At(n, NoIp, <<Vm("d", NoChange)>>) : n \in {here, there}}

\* Two calls; with at most two contracts also three in a row, or two that overlap or
\* are cut off by a restart; with one contract, or when one was emptied, another of
\* these; a fourth call when one was emptied.  Entries age when they are indexed: before,
\* it makes no difference.
MCBound ==
  LET begun == Cardinality({c \in Calls : pc[c] # "idle"})
  IN  /\ begun <= 3 \/ emptied # {}
      /\ begun + crashes + (IF overlapped THEN 1 ELSE 0)
           <= CASE emptied # {} \/ made <= 1 -> 4 [] made <= 2 -> 3 [] OTHER -> 2
      /\ aged \cap chain \subseteq indexed

\* Calls are alike: they begin in this order.
MCOrder ==
  LET calls == <<c1, c2, c3, c4>>
  IN  \A i \in 1 .. 3 : pc[calls[i + 1]] # "idle" => pc[calls[i]] # "idle"
=============================================================================
