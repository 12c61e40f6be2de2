------------------------- MODULE MCTwinDeployment -------------------------
(* Small instances of TwinDeployment for TLC.                                *)
EXTENDS TwinDeployment

CONSTANTS c1, c2

W(n, d) == [name |-> n, type |-> "other", data |-> d, version |-> 0]

\* Contracts of the twin: a machine, a gateway with its name contract, and a gateway
\* whose name has been given up.
Machine == [by |-> NoCall, op |-> 1, kind |-> "node"]
Gateway == [by |-> NoCall, op |-> 3, kind |-> "node"]
GatewayName == [by |-> NoCall, op |-> 3, kind |-> "name"]
Nameless == [by |-> NoCall, op |-> 2, kind |-> "node"]

MCPreexisting == {Machine, Gateway, GatewayName, Nameless}
MCOldWorkloads == [k \in MCPreexisting |->
  CASE k = Machine -> <<W("disk", "a"), W("vm", "a")>>
    [] k \in {Gateway, Nameless} -> <<W("gw", "a")>>
    [] OTHER -> <<>>]
MCOldName == [k \in MCPreexisting |-> IF k = GatewayName THEN "site" ELSE NoName]

Deploy(wls, n) == [verb |-> "deploy", target |-> NoContract, workloads |-> wls, name |-> n]
Update(k, wls) == [verb |-> "update", target |-> k, workloads |-> wls, name |-> NoName]
Delete(k, n)   == [verb |-> "delete", target |-> k, workloads |-> <<>>, name |-> n]

\* A machine and a gateway under a name come up, the old machine gets an address
\* instead of its disk and the old gateway goes.  Or the old machine itself goes and
\* leaves a larger disk: a rollback does not bring it back.
NewMachines == <<Deploy(<<W("vm2", "a")>>, NoName), Deploy(<<W("gw2", "a")>>, "blog")>>
FullRequests == {NewMachines \o <<Update(Machine, wls), Delete(Gateway, "site")>> :
                   wls \in {<<W("ip", "a"), W("vm", "b")>>, <<W("disk", "b")>>}}

\* Two calls that meet: on the machine they both update, on the gateway both
\* may delete, on the name one frees and the other takes, and on the name one takes
\* that the other still knows as that of an old gateway.
MeetingRequests == {<<Update(Machine, <<W("vm", "b")>>)>>,
                    <<Update(Machine, <<W("vm", "c")>>), Delete(Gateway, "site")>>,
                    <<Deploy(<<W("gw2", "a")>>, "site")>>,
                    <<Deploy(<<W("gw2", "a")>>, "blog")>>,
                    <<Delete(Nameless, "blog")>>}
=============================================================================
