----------------------------- MODULE Reconciler -----------------------------
(***************************************************************************)
(* One DataPlatform, its single reconcile worker, the API server that      *)
(* stores the object, the informer cache the worker reads it from, and the *)
(* workloads whose readiness the worker polls.                             *)
(*                                                                         *)
(* A call of Reconcile is a pass.  A pass is a sequence of steps, one per  *)
(* component, and everything else (readiness changing, the user editing    *)
(* the spec, the cache catching up, API calls failing, the operator        *)
(* crashing) interleaves between the steps.                                *)
(***************************************************************************)
EXTENDS Naturals, Sequences

CONSTANTS
    Specs,          \* the DataPlatform specs a user may write
    Edits,          \* bound: the pairs of specs <<old, new>> that are edits
    MaxGeneration,  \* bound: how many generations the user creates
    MaxFaults       \* bound: API errors, outages and operator crashes

\* Components the operator polls: StatefulSets, Deployments and two Jobs.
Jobs == {"bucket", "sampleData"}
Workloads == Jobs \cup
    {"postgres", "minio", "keycloak", "openfgaPostgres", "openfga", "opa",
     "lakekeeper", "trino", "supersetPostgres", "redis", "superset"}

\* Workloads whose configuration is rendered from both the OIDC and the
\* OpenFGA config of the pass (Superset's only from the OIDC config).
Configured == {"lakekeeper", "opa", "trino"}

Conditions ==
    {"Ready", "PostgresReady", "LakekeeperReady", "WarehouseReady",
     "TrinoReady", "SupersetReady", "MinioReady", "AuthReady",
     "OpenFGAReady", "SampleDataReady"}

\* What one generation of DataPlatform.spec switches on.  "missing" is an
\* external service whose required reference or Secret is absent.
SpecType ==
    [lakekeeper : BOOLEAN, trino : BOOLEAN, superset : BOOLEAN,
     sampleData : BOOLEAN,
     postgres   : {"embedded", "external", "missing"},
     storage    : {"embedded", "external", "missing"},
     auth       : {"off", "embedded", "external", "missing"},
     authz      : {"off", "embedded", "unsupported"}]

ASSUME SpecsAssumption  == Specs \subseteq SpecType /\ Specs # {}
ASSUME BoundsAssumption == MaxGeneration \in Nat \ {0} /\ MaxFaults \in Nat

VARIABLES
    specs,      \* the spec of every generation; the last is the current one
    status,     \* status.conditions in the API server
    cache,      \* the informer's copy of the object: generation, conditions
    objects,    \* the workloads applied, with the config they were given
    up,         \* what the informer shows: workloads with a ready replica,
                \* Jobs that have succeeded
    warehouse,  \* whether the Iceberg warehouse exists in LakeKeeper
    queued,     \* whether the work queue holds the DataPlatform
    pc,         \* the next step of the pass, or "idle"
    dp,         \* the pass's in-memory object: generation, conditions
    local,      \* the pass's results so far
    faults      \* faults spent, at most MaxFaults

vars == <<specs, status, cache, objects, up, warehouse, queued, pc, dp,
          local, faults>>
cluster == <<specs, status, cache, up, faults>>

Steps == {"postgres", "objectStore", "auth", "authz", "lakekeeper",
          "warehouse", "opa", "trino", "superset", "sampleData",
          "conclude", "patchStatus"}

\* openfgaConfig: disabled; "bare" has enabled set but neither opaURL nor
\* apiKey; "full" has them.
FgaConfigs == {"disabled", "bare", "full"}
ConditionValue == [status : {"Unknown", "True", "False"}, gen : Nat]
Unset == [c \in Conditions |-> [status |-> "Unknown", gen |-> 0]]
Object == [exists : BOOLEAN, oidc : BOOLEAN, fga : FgaConfigs]
Absent == [exists |-> FALSE, oidc |-> FALSE, fga |-> "disabled"]

NoPass == [gen |-> 1, cond |-> Unset]
NoLocal ==
    [oidc |-> FALSE, fga |-> "disabled", storeReady |-> FALSE,
     authReady |-> FALSE, fgaReady |-> FALSE, progressing |-> FALSE]

Server == [gen |-> Len(specs), cond |-> status]
Platform == specs[dp.gen]

-----------------------------------------------------------------------------
(***************************************************************************)
(* Helpers shared by the steps.                                            *)
(***************************************************************************)

\* Mutant: a condition that does not hold is given no status.
StatusBlank(b) == IF b THEN "True" ELSE ""

Status(b) == IF b THEN "True" ELSE "False"

\* Mutant: conditions name the newest generation instead of the reconciled one.
SetConditionNewest(cs, s) ==
    [gen  |-> dp.gen,
     cond |-> [c \in Conditions |->
                  IF c \in cs THEN [status |-> s, gen |-> Len(specs)]
                              ELSE dp.cond[c]]]

\* setCondition, for a set of conditions that get the same status.
SetCondition(cs, s) ==
    [gen  |-> dp.gen,
     cond |-> [c \in Conditions |->
                  IF c \in cs THEN [status |-> s, gen |-> dp.gen]
                              ELSE dp.cond[c]]]

ConditionTrue(c) == dp.cond[c].status = "True"

\* CreateOrUpdate of a set of workloads with the pass's current configs.
Applied(ws) ==
    [w \in Workloads |->
        IF w \notin ws THEN objects[w]
        ELSE IF w \in Configured
             THEN [exists |-> TRUE, oidc |-> local.oidc, fga |-> local.fga]
             ELSE [exists |-> TRUE, oidc |-> FALSE, fga |-> "disabled"]]

\* A changed owned object is an event that puts the DataPlatform on the queue.
Apply(ws) ==
    /\ objects' = Applied(ws)
    /\ queued' = (queued \/ objects' # objects)

Goto(step) == pc' = step

\* Mutant: an error leaves the Ready condition of an earlier pass in place.
AbortKeepingReady(cs) ==
    /\ dp' = SetCondition(cs, "False")
    /\ Goto("patchStatus")
    /\ UNCHANGED local

\* reconcile returning an error: Ready is False, and the status is written.
Abort(cs) ==
    /\ dp' = SetCondition(cs \cup {"Ready"}, "False")
    /\ Goto("patchStatus")
    /\ UNCHANGED local

Fault ==
    /\ faults < MaxFaults
    /\ faults' = faults + 1

-----------------------------------------------------------------------------
(***************************************************************************)
(* A pass, step by step.                                                   *)
(***************************************************************************)

\* The worker takes the key and reads the object from the informer cache.
StartPass ==
    /\ pc = "idle"
    /\ queued
    /\ queued' = FALSE
    /\ dp' = cache
    /\ Goto("postgres")
    /\ UNCHANGED <<cluster, objects, warehouse, local>>

\* reconcileLakekeeperStack with LakeKeeper disabled.  AuthReady is only
\* reported when auth is disabled too; the OIDC and OpenFGA configs stay empty.
SkipLakekeeperStack ==
    /\ pc = "postgres"
    /\ ~Platform.lakekeeper
    /\ dp' = SetCondition({"MinioReady", "PostgresReady", "LakekeeperReady",
                           "WarehouseReady", "OpenFGAReady"}
                          \cup IF Platform.auth = "off" THEN {"AuthReady"}
                                                        ELSE {}, "True")
    /\ Goto("opa")
    /\ UNCHANGED <<cluster, objects, warehouse, queued, local>>

\* An embedded Postgres is applied and polled.
ReconcilePostgres ==
    /\ pc = "postgres"
    /\ Platform.lakekeeper
    /\ Platform.postgres = "embedded"
    /\ Apply({"postgres"})
    /\ dp' = SetCondition({"PostgresReady"}, Status("postgres" \in up))
    /\ Goto("objectStore")
    /\ UNCHANGED <<cluster, warehouse, local>>

\* An external one is only looked up.
ExternalPostgres ==
    /\ pc = "postgres"
    /\ Platform.lakekeeper
    /\ \/ /\ Platform.postgres = "missing"
          /\ Abort({"PostgresReady"})
       \/ /\ Platform.postgres = "external"
          /\ dp' = SetCondition({"PostgresReady"}, "True")
          /\ Goto("objectStore")
          /\ UNCHANGED local
    /\ UNCHANGED <<cluster, objects, warehouse, queued>>

\* The bucket Job is only created once MinIO is ready, and a Job is not ready
\* in the pass that creates it.
ReconcileMinio ==
    LET minioUp == "minio" \in up
        ready   == minioUp /\ "bucket" \in up
    IN
    /\ pc = "objectStore"
    /\ Platform.storage = "embedded"
    /\ Apply({"minio"} \cup IF minioUp THEN {"bucket"} ELSE {})
    /\ dp' = SetCondition({"MinioReady"}, Status(ready))
    /\ local' = [local EXCEPT !.storeReady = ready]
    /\ Goto("auth")
    /\ UNCHANGED <<cluster, warehouse>>

ExternalObjectStore ==
    /\ pc = "objectStore"
    /\ \/ /\ Platform.storage = "missing"
          /\ Abort({"MinioReady"})
       \/ /\ Platform.storage = "external"
          /\ dp' = SetCondition({"MinioReady"}, "True")
          /\ local' = [local EXCEPT !.storeReady = TRUE]
          /\ Goto("auth")
    /\ UNCHANGED <<cluster, objects, warehouse, queued>>

\* The OIDC config is returned, and later used, even while Keycloak is down.
ReconcileKeycloak ==
    LET ready == "keycloak" \in up
    IN
    /\ pc = "auth"
    /\ Platform.auth = "embedded"
    /\ Apply({"keycloak"})
    /\ dp' = SetCondition({"AuthReady"}, Status(ready))
    /\ local' = [local EXCEPT !.oidc = TRUE, !.authReady = ready]
    /\ Goto("authz")
    /\ UNCHANGED <<cluster, warehouse>>

\* reconcileAuth without Keycloak: no authentication, or an external issuer.
ReconcileAuth ==
    /\ pc = "auth"
    /\ \/ /\ Platform.auth = "missing"
          /\ Abort({"AuthReady"})
       \/ /\ Platform.auth \in {"off", "external"}
          /\ dp' = SetCondition({"AuthReady"}, "True")
          /\ local' = [local EXCEPT !.oidc = Platform.auth = "external",
                                    !.authReady = TRUE]
          /\ Goto("authz")
    /\ UNCHANGED <<cluster, objects, warehouse, queued>>

\* Without its Postgres, OpenFGA is not deployed and its config stays bare.
ReconcileOpenFGA ==
    LET pgUp  == "openfgaPostgres" \in up
        ready == pgUp /\ "openfga" \in up
    IN
    /\ pc = "authz"
    /\ Platform.authz = "embedded"
    /\ Apply({"openfgaPostgres"} \cup IF pgUp THEN {"openfga"} ELSE {})
    /\ dp' = SetCondition({"OpenFGAReady"}, Status(ready))
    /\ local' = [local EXCEPT !.fga = IF pgUp THEN "full" ELSE "bare",
                              !.fgaReady = ready]
    /\ Goto("lakekeeper")
    /\ UNCHANGED <<cluster, warehouse>>

\* reconcileAuthz without OpenFGA: no authorization, or an unsupported one.
ReconcileAuthz ==
    /\ pc = "authz"
    /\ \/ /\ Platform.authz = "unsupported"
          /\ Abort({"OpenFGAReady"})
       \/ /\ Platform.authz = "off"
          /\ dp' = SetCondition({"OpenFGAReady"}, "True")
          /\ local' = [local EXCEPT !.fga = "disabled", !.fgaReady = TRUE]
          /\ Goto("lakekeeper")
    /\ UNCHANGED <<cluster, objects, warehouse, queued>>

\* Mutants: OpenFGA is not waited for; the warehouse, which needs LakeKeeper,
\* is waited for too.
LakekeeperAllowedEarly == local.authReady
LakekeeperAllowedCircular ==
    local.authReady /\ local.fgaReady /\ ConditionTrue("WarehouseReady")

\* LakeKeeper is left alone until the identity provider and OpenFGA are ready.
LakekeeperAllowed == local.authReady /\ local.fgaReady

\* Mutant: the object store is forgotten.
StackProgressingNoStore(lakekeeperReady) ==
    ~( /\ ConditionTrue("PostgresReady")
       /\ lakekeeperReady
       /\ local.authReady
       /\ local.fgaReady )

\* Whether the stack has something to wait for before it asks for a warehouse.
StackProgressing(lakekeeperReady) ==
    ~( /\ ConditionTrue("PostgresReady")
       /\ lakekeeperReady
       /\ local.authReady
       /\ local.fgaReady
       /\ local.storeReady )

\* reconcileLakekeeper, and the decision whether to go on to the warehouse.
ReconcileLakekeeper ==
    LET ready == LakekeeperAllowed /\ "lakekeeper" \in up
        progressing == StackProgressing(ready)
    IN
    /\ pc = "lakekeeper"
    /\ Apply(IF LakekeeperAllowed THEN {"lakekeeper"} ELSE {})
    /\ dp' = SetCondition({"LakekeeperReady"}, Status(ready))
    /\ local' = [local EXCEPT !.progressing = progressing]
    /\ Goto(IF progressing THEN "opa" ELSE "warehouse")
    /\ UNCHANGED <<cluster, warehouse>>

\* Token, bootstrap, grants, warehouse and access groups all succeed.
ReconcileWarehouse ==
    /\ pc = "warehouse"
    /\ warehouse' = TRUE
    /\ dp' = SetCondition({"WarehouseReady"}, "True")
    /\ Goto("opa")
    /\ UNCHANGED <<cluster, objects, queued, local>>

\* Mutant: the condition of an earlier generation is left in place.
SkipTrinoStackSilent ==
    /\ pc = "opa"
    /\ ~Platform.trino
    /\ Goto("superset")
    /\ UNCHANGED <<cluster, objects, warehouse, queued, dp, local>>

\* reconcileTrinoStack with Trino disabled.
SkipTrinoStack ==
    /\ pc = "opa"
    /\ ~Platform.trino
    /\ dp' = SetCondition({"TrinoReady"}, "True")
    /\ Goto("superset")
    /\ UNCHANGED <<cluster, objects, warehouse, queued, local>>

\* Mutant: OPA waits until OpenFGA is ready.
OPAWantedLate == local.fgaReady /\ local.fga # "disabled" /\ local.oidc

\* OPA needs both configs.
OPAWanted == local.fga # "disabled" /\ local.oidc

\* Whether OPA is ready is looked up, and not used.
ReconcileOPA ==
    /\ pc = "opa"
    /\ Platform.trino
    /\ Apply(IF OPAWanted THEN {"opa"} ELSE {})
    /\ Goto("trino")
    /\ UNCHANGED <<cluster, warehouse, dp, local>>

ReconcileTrino ==
    LET ready == "trino" \in up
    IN
    /\ pc = "trino"
    /\ Apply({"trino"})
    /\ dp' = SetCondition({"TrinoReady"}, Status(ready))
    /\ local' = [local EXCEPT !.progressing = @ \/ ~ready]
    /\ Goto("superset")
    /\ UNCHANGED <<cluster, warehouse>>

SupersetWorkloads == {"supersetPostgres", "redis", "superset"}

ReconcileSuperset ==
    LET ready == Platform.superset => SupersetWorkloads \subseteq up
    IN
    /\ pc = "superset"
    /\ Apply(IF Platform.superset THEN SupersetWorkloads ELSE {})
    /\ dp' = SetCondition({"SupersetReady"}, Status(ready))
    /\ local' = [local EXCEPT !.progressing = @ \/ ~ready]
    /\ Goto("sampleData")
    /\ UNCHANGED <<cluster, warehouse>>

\* Sample data needs both Trino and LakeKeeper, and an IdP the operator owns.
SampleDataWanted ==
    /\ Platform.trino /\ Platform.lakekeeper /\ Platform.sampleData
    /\ Platform.auth \in {"off", "embedded"}

\* The gate reads conditions, whichever pass or generation last set them.
SampleDataAllowed ==
    SampleDataWanted /\ ConditionTrue("WarehouseReady")
                     /\ ConditionTrue("TrinoReady")

ReconcileSampleData ==
    LET ready == SampleDataWanted =>
                     SampleDataAllowed /\ "sampleData" \in up
    IN
    /\ pc = "sampleData"
    /\ Apply(IF SampleDataAllowed THEN {"sampleData"} ELSE {})
    /\ dp' = SetCondition({"SampleDataReady"}, Status(ready))
    /\ local' = [local EXCEPT !.progressing = @ \/ ~ready]
    /\ Goto("conclude")
    /\ UNCHANGED <<cluster, warehouse>>

\* The end of reconcile: the Ready condition.
Conclude ==
    /\ pc = "conclude"
    /\ dp' = SetCondition({"Ready"}, Status(~local.progressing))
    /\ Goto("patchStatus")
    /\ UNCHANGED <<cluster, objects, warehouse, queued, local>>

\* Mutant: a pass that has something left to do is not repeated.
RequeueNever == FALSE

\* A pass ends with a delayed requeue unless the platform is Ready and has no
\* group membership to keep in step.
Requeue == ~ConditionTrue("Ready") \/ Platform.auth = "embedded"

EndPass ==
    /\ pc' = "idle"
    /\ dp' = NoPass
    /\ local' = NoLocal

\* patchStatus reads the object again, so the write is refused only if the
\* cache is behind at this moment; a refused write is retried as a new pass.
PatchStatus ==
    /\ pc = "patchStatus"
    /\ \/ /\ cache = Server
          /\ status' = dp.cond
          /\ queued' = (queued \/ Requeue)
       \/ /\ cache # Server
          /\ queued' = TRUE
          /\ UNCHANGED status
    /\ EndPass
    /\ UNCHANGED <<specs, cache, objects, up, warehouse, faults>>

-----------------------------------------------------------------------------
(***************************************************************************)
(* Failures of a pass.                                                     *)
(***************************************************************************)

Mode(cs, ws) == [marked |-> cs, created |-> ws]
Modes(c, chain) == {Mode({c}, ws) : ws \in chain}

\* Where an API call of the current step can fail: the condition that is
\* marked False (none for a namespace or OPA) and what was applied before.
FailureModes ==
    CASE pc = "postgres" /\ Platform.lakekeeper ->
             {Mode({}, {})} \cup Modes("PostgresReady",
                 {{}} \cup IF Platform.postgres = "embedded"
                           THEN {{"postgres"}} ELSE {})
      [] pc = "objectStore" ->
             Modes("MinioReady",
                 {{}} \cup IF Platform.storage = "embedded"
                           THEN {{"minio"}} \cup
                                IF "minio" \in up THEN {{"minio", "bucket"}}
                                                  ELSE {}
                           ELSE {})
      [] pc = "auth" /\ Platform.auth # "off" ->
             Modes("AuthReady",
                 {{}} \cup IF Platform.auth = "embedded"
                           THEN {{"keycloak"}} ELSE {})
      [] pc = "authz" /\ Platform.authz = "embedded" ->
             Modes("OpenFGAReady",
                 {{}, {"openfgaPostgres"}} \cup
                 IF "openfgaPostgres" \in up
                 THEN {{"openfgaPostgres", "openfga"}} ELSE {})
      [] pc = "lakekeeper" /\ LakekeeperAllowed ->
             Modes("LakekeeperReady", {{}, {"lakekeeper"}})
      [] pc = "opa" /\ Platform.trino ->
             {Mode({}, ws) : ws \in
                 {{}} \cup IF OPAWanted THEN {{"opa"}} ELSE {}}
      [] pc = "trino" ->
             Modes("TrinoReady", {{}, {"trino"}})
      [] pc = "superset" /\ Platform.superset ->
             {Mode({}, {})} \cup Modes("SupersetReady",
                 {{}, {"supersetPostgres"}, {"supersetPostgres", "redis"},
                  SupersetWorkloads})
      [] pc = "sampleData" /\ SampleDataAllowed ->
             Modes("SampleDataReady", {{}, {"sampleData"}})
      [] OTHER -> {}

FailStep ==
    /\ pc # "idle"
    /\ \E m \in FailureModes :
          /\ Apply(m.created)
          /\ Abort(m.marked)
    /\ Fault
    /\ UNCHANGED <<specs, status, cache, up, warehouse>>

\* A catalog call fails, before or after the warehouse was created.
FailWarehouse ==
    /\ pc = "warehouse"
    /\ Abort({"WarehouseReady"})
    /\ warehouse' \in {warehouse, TRUE}
    /\ Fault
    /\ UNCHANGED <<specs, status, cache, objects, up, queued>>

\* The status write fails for another reason than a conflict.
FailPatch ==
    /\ pc = "patchStatus"
    /\ queued' = TRUE
    /\ EndPass
    /\ Fault
    /\ UNCHANGED <<specs, status, cache, objects, up, warehouse>>

\* The operator stops in mid-pass; its successor lists every DataPlatform.
Crash ==
    /\ pc # "idle"
    /\ queued' = TRUE
    /\ EndPass
    /\ Fault
    /\ UNCHANGED <<specs, status, cache, objects, up, warehouse>>

-----------------------------------------------------------------------------
(***************************************************************************)
(* The environment.                                                        *)
(***************************************************************************)

\* Mutant: StatefulSets are not watched.
WatchedDeployments ==
    Workloads \ {"postgres", "minio", "openfgaPostgres", "supersetPostgres"}

\* Owns: a status change of a Deployment, StatefulSet or Job that the platform
\* owns is an event, too.
Watched == Workloads

EditSpec ==
    /\ Len(specs) < MaxGeneration
    /\ \E s \in Specs \ {specs[Len(specs)]} :
          <<specs[Len(specs)], s>> \in Edits /\ specs' = Append(specs, s)
    /\ UNCHANGED <<status, cache, objects, up, warehouse, queued, pc, dp,
                   local, faults>>

\* The watch event of the DataPlatform reaches the cache and the queue.
SyncCache ==
    /\ cache # Server
    /\ cache' = Server
    /\ queued' = TRUE
    /\ UNCHANGED <<specs, status, objects, up, warehouse, pc, dp, local,
                   faults>>

Rise(w) ==
    /\ objects[w].exists
    /\ w \notin up
    /\ up' = up \cup {w}
    /\ queued' = (queued \/ w \in Watched)
    /\ UNCHANGED <<specs, status, cache, objects, warehouse, pc, dp, local,
                   faults>>

Fall(w) ==
    /\ w \in up \ Jobs
    /\ up' = up \ {w}
    /\ queued' = (queued \/ w \in Watched)
    /\ Fault
    /\ UNCHANGED <<specs, status, cache, objects, warehouse, pc, dp, local>>

-----------------------------------------------------------------------------
Init ==
    /\ specs \in {<<s>> : s \in Specs}
    /\ status = Unset
    /\ cache = [gen |-> 1, cond |-> Unset]
    /\ objects = [w \in Workloads |-> Absent]
    /\ up = {}
    /\ warehouse = FALSE
    /\ queued = TRUE
    /\ pc = "idle"
    /\ dp = NoPass
    /\ local = NoLocal
    /\ faults = 0

\* The steps the worker takes when nothing fails.
Work ==
    \/ StartPass
    \/ SkipLakekeeperStack
    \/ ReconcilePostgres
    \/ ExternalPostgres
    \/ ReconcileMinio
    \/ ExternalObjectStore
    \/ ReconcileKeycloak
    \/ ReconcileAuth
    \/ ReconcileOpenFGA
    \/ ReconcileAuthz
    \/ ReconcileLakekeeper
    \/ ReconcileWarehouse
    \/ SkipTrinoStack
    \/ ReconcileOPA
    \/ ReconcileTrino
    \/ ReconcileSuperset
    \/ ReconcileSampleData
    \/ Conclude
    \/ PatchStatus

Failure == FailStep \/ FailWarehouse \/ FailPatch \/ Crash

Next ==
    \/ Work
    \/ Failure
    \/ EditSpec
    \/ SyncCache
    \/ \E w \in Workloads : Rise(w) \/ Fall(w)

\* The queue hands every key to the worker, the worker runs on, and the
\* informer catches up.
OperatorFairness == WF_vars(Work) /\ WF_vars(SyncCache)

\* What is deployed eventually becomes ready.
WorkloadFairness == \A w \in Workloads : WF_vars(Rise(w))

Spec == Init /\ [][Next]_vars /\ OperatorFairness

-----------------------------------------------------------------------------
(***************************************************************************)
(* Properties.                                                             *)
(***************************************************************************)

\* The shape of the state: what the API server, the cache, the cluster and
\* the pass may hold.
TypeOK ==
    /\ specs \in Seq(Specs)
    /\ Len(specs) \in 1..MaxGeneration
    /\ status \in [Conditions -> ConditionValue]
    /\ cache \in [gen : 1..Len(specs), cond : [Conditions -> ConditionValue]]
    /\ objects \in [Workloads -> Object]
    /\ up \subseteq Workloads
    /\ warehouse \in BOOLEAN
    /\ queued \in BOOLEAN
    /\ pc \in Steps \cup {"idle"}
    /\ dp \in [gen : 1..Len(specs), cond : [Conditions -> ConditionValue]]
    /\ local \in [oidc : BOOLEAN, fga : FgaConfigs, storeReady : BOOLEAN,
                  authReady : BOOLEAN, fgaReady : BOOLEAN,
                  progressing : BOOLEAN]
    /\ faults \in 0..MaxFaults

\* The conditions a Ready platform vouches for.  AuthReady is not reported
\* by a platform that enables auth without LakeKeeper.
Reported(s) ==
    IF ~s.lakekeeper /\ s.auth # "off" THEN Conditions \ {"AuthReady"}
                                       ELSE Conditions

Vouched(cond) ==
    cond["Ready"].status = "True" =>
        /\ cond["Ready"].gen \in DOMAIN specs
        /\ \A c \in Reported(specs[cond["Ready"].gen]) :
              cond[c] = cond["Ready"]

\* A stored Ready=True stands for one generation as a whole: every component
\* condition next to it is True and was set for that same generation.  It
\* survives aborted passes, refused and stale status writes, crashes and spec
\* edits in mid-pass (dataplatform_controller.go, reconcile and patchStatus).
ReadyConsistent == Vouched(status)

\* A WarehouseReady=True set for a generation that enables LakeKeeper means
\* that the warehouse was really created (types: "True when the Iceberg
\* warehouse exists"), whatever pass wrote the status.
WarehouseTruth ==
    LET c == status["WarehouseReady"]
    IN  c.status = "True" /\ c.gen \in DOMAIN specs /\ specs[c.gen].lakekeeper
            => warehouse

\* Trino enforces access control through OPA.
TrinoGuarded == objects["trino"].exists /\ objects["trino"].oidc
                                        /\ objects["trino"].fga = "full"

\* Trino is never configured to ask an OPA that was not deployed, although the
\* two decide separately whether OPA is wanted and a pass can fail between
\* them (reconcileTrinoStack, opa.go and trino.go).
OPABeforeTrino == TrinoGuarded => objects["opa"].exists

\* LakeKeeper is only ever (re)deployed with the complete identity and
\* authorization configuration of the generation being reconciled, never with
\* the partial one that reconcileAuth and reconcileAuthz return while waiting.
LakekeeperComplete ==
    [][objects'["lakekeeper"] # objects["lakekeeper"] =>
         /\ objects'["lakekeeper"].oidc = (Platform.auth # "off")
         /\ objects'["lakekeeper"].fga =
                IF Platform.authz = "off" THEN "disabled" ELSE "full"]_vars

Current == specs[Len(specs)]

\* Workloads whose readiness the Ready condition stands for.
Monitored(s) ==
    UNION { IF s.lakekeeper /\ s.postgres = "embedded"
                THEN {"postgres"} ELSE {},
            IF s.lakekeeper /\ s.storage = "embedded"
                THEN {"minio", "bucket"} ELSE {},
            IF s.lakekeeper /\ s.auth = "embedded" THEN {"keycloak"} ELSE {},
            IF s.lakekeeper /\ s.authz = "embedded"
                THEN {"openfgaPostgres", "openfga"} ELSE {},
            IF s.lakekeeper THEN {"lakekeeper"} ELSE {},
            IF s.trino THEN {"trino"} ELSE {},
            IF s.superset THEN SupersetWorkloads ELSE {} }

ReadyReported == status["Ready"].status = "True"

\* No outage goes unnoticed: if monitored workloads stay down, Ready ends up
\* not True, although a Ready platform without embedded auth is not polled
\* (SetupWithManager's Owns watches, the requeue of Reconcile).
OutageReported ==
    <>[](~(Monitored(Current) \subseteq up)) => <>[](~ReadyReported)

\* A spec whose external services are all configured.
Valid(s) ==
    /\ s.lakekeeper => /\ s.postgres # "missing"
                       /\ s.storage # "missing"
                       /\ s.auth # "missing"
                       /\ s.authz # "unsupported"

\* Once faults and edits stop and if workloads come up, a valid platform is
\* reported Ready for its current generation, and stays so: no ordering of
\* the gates between components waits for itself.
Converges ==
    WorkloadFairness =>
        <>[](Valid(Current) =>
                status["Ready"] = [status |-> "True", gen |-> Len(specs)])

\* "Both features fail closed ... everyone does if OpenFGA becomes
\* unreachable" (README.md): while the spec keeps authentication and
\* authorization on, a guarded Trino is not reconfigured without its guard.
TrinoStaysGuarded ==
    [][TrinoGuarded /\ Platform.lakekeeper /\ Platform.auth # "off"
            /\ Platform.authz = "embedded"
        => TrinoGuarded']_vars

\* "ConditionReady is True when every enabled component is ready"
\* (dataplatform_types.go), asked of OPA: an OPA that stays down shows up.
OPAOutageReported ==
    <>[](objects["opa"].exists /\ "opa" \notin up) => <>[](~ReadyReported)

\* "seeds sample Iceberg tables once the warehouse and Trino are ready"
\* (dataplatform_controller_test.go): no seed Job without a warehouse.
SeedAfterWarehouse == objects["sampleData"].exists => warehouse

=============================================================================
