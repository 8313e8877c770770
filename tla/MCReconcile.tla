---------------------------- MODULE MCReconcile -----------------------------
(* Instances of Reconcile for TLC.                                        *)
EXTENDS Reconcile

NoNames == [s \in SourceIds |-> Unnamed]
Names == [s \in SourceIds |-> IF s = "fork" THEN "repo" ELSE s]

OneSource == <<"repo">>
GitAndChart == <<"repo", "chart">>
NoEdits == {}
\* The sources change places, one is removed, one gets another repository.
Rearranged == {<<"chart", "repo">>, <<"chart">>, <<"fork", "chart">>}

TwoCommits == [s \in {"repo"} |-> {1, 2}]
ThreeCommits == [s \in {"repo"} |-> {1, 2, 3}]
OneVersion == [repo |-> {1, 2}, chart |-> {11}, fork |-> {21}]

NoCharts == {}
Charts == {"chart"}
Settled == {"settled"}
NewOrSettled == {"new", "settled"}
NoFaults == {}
AllFaults == {"get", "rpc", "timeout", "patch", "crash"}
Crashes == {"crash"}
RpcFaults == {"rpc"}
=============================================================================
