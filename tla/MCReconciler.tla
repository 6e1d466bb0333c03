---------------------------- MODULE MCReconciler ----------------------------
(***************************************************************************)
(* Small instances of Reconciler: which DataPlatform specs a user writes.  *)
(***************************************************************************)
EXTENDS Reconciler

\* A catalog and a query engine over external services, nothing to log in to.
Lake ==
    [lakekeeper |-> TRUE, trino |-> TRUE, superset |-> FALSE,
     sampleData |-> FALSE, postgres |-> "external", storage |-> "external",
     auth |-> "off", authz |-> "off"]

\* Embedded identity provider and authorization: the chain of gates.
Secured  == [Lake EXCEPT !.auth = "embedded", !.authz = "embedded"]
\* Authorization under an external identity provider.
Federated == [Lake EXCEPT !.auth = "external", !.authz = "embedded"]
\* Everything stateful in the cluster, no query engine.
Stateful == [Lake EXCEPT !.postgres = "embedded", !.storage = "embedded",
                         !.trino = FALSE]
\* A catalog for query engines that live elsewhere.
CatalogOnly == [Lake EXCEPT !.trino = FALSE]
\* The demo tables.
Seeded   == [Lake EXCEPT !.sampleData = TRUE]
\* Query engine only; auth is requested, but nothing provides it.
Engine   == [Lake EXCEPT !.lakekeeper = FALSE, !.auth = "embedded",
                         !.sampleData = TRUE]
\* Dashboards only.
Dashboards == [Lake EXCEPT !.lakekeeper = FALSE, !.trino = FALSE,
                           !.superset = TRUE]
\* Specs the operator rejects, each in another step.
Rejected ==
    { [Lake EXCEPT !.postgres = "missing"],
      [Lake EXCEPT !.storage = "missing"],
      [Lake EXCEPT !.auth = "missing"],
      [Lake EXCEPT !.authz = "unsupported"] }

Refused     == [Lake EXCEPT !.storage = "missing"]

SecuredOnly == {Secured}
SeedingShapes == {Engine, Seeded}
EveryShape ==
    Rejected \cup {Lake, Secured, Federated, Stateful, CatalogOnly, Seeded,
                   Engine, Dashboards}

\* Which of them are edited into which: the longest chains of gates are not
\* combined with edits.
NoEdits == {}
Turned(shapes) == {e \in shapes \X shapes : e[1] # e[2]}
SomeEdits == Turned({Seeded, Engine, Refused})
SeedingEdits == Turned(SeedingShapes)
=============================================================================
