--------------------------- MODULE MCCatalogSync ---------------------------
(***************************************************************************)
(* A small instance of CatalogSync.                                        *)
(***************************************************************************)
EXTENDS CatalogSync

TwoWarehouses == {"default", "other"}
AdminAndTrino ==
    << <<"admin", {"server admin", "project_admin"}>>,
       <<"trino", {"project_admin"}>> >>
TwoGroups ==
    << <<"data-engineers", {"project_modify", "modify"}>>,
       <<"analysts", {"select"}>> >>
WarehouseRelations == {"modify", "select"}
\* The first user is a service account, and so takes a place among those read.
ThreeUsers == {1, 2, 3}
Service == {1}
AdminImported == [g \in GroupNames |-> IF g = "data-engineers" THEN {2} ELSE {}]

\* The two names are interchangeable, so the run starts with one of them.
DefaultInit == Init /\ want = "default"
DefaultSpec == DefaultInit /\ [][Next]_vars /\ WF_vars(Work)

Others == Cardinality(RolesNamed("other")) + (IF owner = "user" THEN 1 ELSE 0)

\* What the run explores: any two disturbances, and a join or leave together
\* with a failing call and a loss.
Scenario ==
    \/ edits' + moves' + faults' + losses' + Others' <= 2
    \/ /\ edits' + Others' = 0
       /\ moves' <= 1 /\ faults' <= 1 /\ losses' <= 1
=============================================================================
