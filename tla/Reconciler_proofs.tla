-------------------------- MODULE Reconciler_proofs --------------------------
(***************************************************************************)
(* Proofs about Reconciler for every set of specs and every bound: type    *)
(* correctness, ReadyConsistent, WarehouseTruth, OPABeforeTrino and        *)
(* LakekeeperComplete.                                                     *)
(*                                                                         *)
(* None of the four is inductive.  Each rests on what a pass has already   *)
(* established when it reaches a step, which is what PassInv, ConfigInv    *)
(* and ClaimInv say.                                                       *)
(***************************************************************************)
EXTENDS Reconciler, TLAPS

\* Condition c was set True by the running pass, for its generation.
Claimed(c) == dp.cond[c] = [status |-> "True", gen |-> dp.gen]

\* The conditions that reconcileLakekeeperStack answers for.
StackConditions(s) ==
    {"MinioReady", "PostgresReady", "LakekeeperReady", "WarehouseReady",
     "OpenFGAReady"} \cup IF ~s.lakekeeper /\ s.auth # "off"
                          THEN {} ELSE {"AuthReady"}

AfterPostgres == {"objectStore", "auth", "authz", "lakekeeper", "warehouse"}
AfterStack    == {"opa", "trino", "superset", "sampleData", "conclude"}

\* No condition names a generation that does not exist yet.
GenBound(cond) == \A c \in Conditions : cond[c].gen <= Len(specs)
GenInv == GenBound(status) /\ GenBound(cache.cond) /\ GenBound(dp.cond)

\* What the conditions and locals of a pass stand for, by step.
PassInv ==
    /\ pc \in AfterPostgres =>
          Platform.lakekeeper /\ dp.cond["PostgresReady"].gen = dp.gen
    /\ pc \in {"auth", "authz", "lakekeeper", "warehouse"}
          /\ local.storeReady => Claimed("MinioReady")
    /\ pc \in {"authz", "lakekeeper", "warehouse"}
          /\ local.authReady => Claimed("AuthReady")
    /\ pc \in {"lakekeeper", "warehouse"}
          /\ local.fgaReady => Claimed("OpenFGAReady")
    /\ pc = "warehouse" =>
          /\ local.storeReady /\ local.authReady /\ local.fgaReady
          /\ Claimed("PostgresReady") /\ Claimed("LakekeeperReady")
    /\ pc \in AfterStack /\ ~local.progressing =>
          \A c \in StackConditions(Platform) : Claimed(c)
    /\ pc \in {"superset", "sampleData", "conclude"} /\ ~local.progressing =>
          Claimed("TrinoReady")
    /\ pc \in {"sampleData", "conclude"} /\ ~local.progressing =>
          Claimed("SupersetReady")
    /\ pc = "conclude" /\ ~local.progressing => Claimed("SampleDataReady")
    /\ pc = "patchStatus" => Vouched(dp.cond)

\* What the configs a pass carries stand for, by step.
ConfigInv ==
    /\ pc \in {"authz", "lakekeeper"} => local.oidc = (Platform.auth # "off")
    /\ pc = "lakekeeper" /\ local.fgaReady =>
          local.fga = IF Platform.authz = "off" THEN "disabled" ELSE "full"
    /\ pc = "trino" /\ local.oidc /\ local.fga # "disabled" =>
          objects["opa"].exists

\* WarehouseTruth, for any copy of the conditions.
WarehouseClaim(cond) ==
    LET c == cond["WarehouseReady"]
    IN  c.status = "True" /\ c.gen \in DOMAIN specs /\ specs[c.gen].lakekeeper
            => warehouse
ClaimInv ==
    WarehouseClaim(status) /\ WarehouseClaim(cache.cond)
                           /\ WarehouseClaim(dp.cond)

Inv == /\ TypeOK /\ GenInv /\ PassInv /\ ConfigInv /\ ClaimInv
       /\ ReadyConsistent /\ OPABeforeTrino

-----------------------------------------------------------------------------
(***************************************************************************)
(* What the helpers return.                                                *)
(***************************************************************************)

\* setCondition: exactly the named conditions change, and they name the
\* generation of the pass.
LEMMA SetConditionFacts ==
    ASSUME TypeOK, NEW cs \in SUBSET Conditions, NEW s \in {"True", "False"}
    PROVE  /\ SetCondition(cs, s) \in [gen : 1..Len(specs),
                                       cond : [Conditions -> ConditionValue]]
           /\ SetCondition(cs, s).gen = dp.gen
           /\ \A c \in Conditions : SetCondition(cs, s).cond[c] =
                 IF c \in cs THEN [status |-> s, gen |-> dp.gen]
                             ELSE dp.cond[c]
<1>1. dp.gen \in Nat /\ dp.gen \in 1..Len(specs)
      /\ dp \in [gen : 1..Len(specs), cond : [Conditions -> ConditionValue]]
  BY DEF TypeOK
<1>3. [status |-> s, gen |-> dp.gen] \in ConditionValue
  BY <1>1 DEF ConditionValue
<1>. QED
  BY <1>1, <1>3 DEF SetCondition

\* CreateOrUpdate: workloads stay in existence, and the ones applied get the
\* configs of the pass if their template depends on them.
LEMMA AppliedFacts ==
    ASSUME TypeOK, NEW ws
    PROVE  /\ Applied(ws) \in [Workloads -> Object]
           /\ \A w \in Workloads :
                 /\ objects[w].exists => Applied(ws)[w].exists
                 /\ w \in ws => Applied(ws)[w].exists
                 /\ w \notin ws => Applied(ws)[w] = objects[w]
                 /\ w \in ws /\ w \in Configured =>
                       /\ Applied(ws)[w].oidc = local.oidc
                       /\ Applied(ws)[w].fga = local.fga
<1>1. local.oidc \in BOOLEAN /\ local.fga \in FgaConfigs
  BY DEF TypeOK
<1>2. [exists |-> TRUE, oidc |-> local.oidc, fga |-> local.fga] \in Object
      /\ [exists |-> TRUE, oidc |-> FALSE, fga |-> "disabled"] \in Object
  BY <1>1 DEF Object, FgaConfigs
<1>. QED
  BY <1>2 DEF Applied, TypeOK

-----------------------------------------------------------------------------
(***************************************************************************)
(* Type correctness.                                                       *)
(***************************************************************************)

\* Applying objects keeps their table and the queue flag well-typed.
LEMMA ApplyType ==
    ASSUME TypeOK, NEW ws, Apply(ws)
    PROVE  objects' \in [Workloads -> Object] /\ queued' \in BOOLEAN
<1>1. objects' \in [Workloads -> Object]
  BY AppliedFacts DEF Apply
<1>2. queued' \in BOOLEAN
  BY DEF Apply
<1>. QED
  BY <1>1, <1>2

\* A pass that ends leaves the initial pass state behind.
LEMMA EndPassType ==
    ASSUME TypeOK, EndPass
    PROVE  /\ pc' = "idle"
           /\ dp' \in [gen : 1..Len(specs),
                       cond : [Conditions -> ConditionValue]]
           /\ local' \in [oidc : BOOLEAN, fga : FgaConfigs,
                          storeReady : BOOLEAN, authReady : BOOLEAN,
                          fgaReady : BOOLEAN, progressing : BOOLEAN]
<1>1. Unset \in [Conditions -> ConditionValue]
  BY DEF Unset, ConditionValue
<1>2. 1 \in 1..Len(specs)
  BY DEF TypeOK
<1>. QED
  BY <1>1, <1>2 DEF EndPass, NoPass, NoLocal, FgaConfigs

\* A failing handler marks its own condition, after some of its workloads.
LEMMA ModesFacts ==
    ASSUME NEW c, NEW chain, NEW m \in Modes(c, chain)
    PROVE  m.marked = {c} /\ m.created \in chain
  BY DEF Modes, Mode

\* A failing step marks component conditions only, and only the steps that
\* deploy LakeKeeper or Trino can leave a changed one behind.
LEMMA FailureModesFacts ==
    ASSUME NEW m \in FailureModes
    PROVE  /\ m.marked \in SUBSET (Conditions \ {"Ready"})
           /\ "lakekeeper" \in m.created =>
                 pc = "lakekeeper" /\ LakekeeperAllowed
           /\ "trino" \in m.created => pc = "trino"
<1>1. CASE pc = "postgres"
  <2>1. \/ m = Mode({}, {})
        \/ \E chain \in SUBSET {{}, {"postgres"}} :
              m \in Modes("PostgresReady", chain)
    BY <1>1 DEF FailureModes
  <2>. QED
    BY <1>1, <2>1, ModesFacts DEF Mode, Conditions
<1>2. CASE pc = "objectStore"
  <2>1. \E chain \in SUBSET {{}, {"minio"}, {"minio", "bucket"}} :
           m \in Modes("MinioReady", chain)
    BY <1>2 DEF FailureModes
  <2>. QED
    BY <1>2, <2>1, ModesFacts DEF Conditions
<1>3. CASE pc = "auth"
  <2>1. \E chain \in SUBSET {{}, {"keycloak"}} :
           m \in Modes("AuthReady", chain)
    BY <1>3 DEF FailureModes
  <2>. QED
    BY <1>3, <2>1, ModesFacts DEF Conditions
<1>4. CASE pc = "authz"
  <2>1. \E chain \in SUBSET {{}, {"openfgaPostgres"},
                             {"openfgaPostgres", "openfga"}} :
           m \in Modes("OpenFGAReady", chain)
    BY <1>4 DEF FailureModes
  <2>. QED
    BY <1>4, <2>1, ModesFacts DEF Conditions
<1>5. CASE pc = "lakekeeper"
  <2>1. /\ LakekeeperAllowed
        /\ m \in Modes("LakekeeperReady", {{}, {"lakekeeper"}})
    BY <1>5 DEF FailureModes
  <2>. QED
    BY <1>5, <2>1, ModesFacts DEF Conditions
<1>6. CASE pc = "opa"
  <2>1. m \in {Mode({}, {}), Mode({}, {"opa"})}
    BY <1>6 DEF FailureModes
  <2>. QED
    BY <1>6, <2>1 DEF Mode
<1>7. CASE pc = "trino"
  <2>1. m \in Modes("TrinoReady", {{}, {"trino"}})
    BY <1>7 DEF FailureModes
  <2>. QED
    BY <1>7, <2>1, ModesFacts DEF Conditions
<1>8. CASE pc = "superset"
  <2>1. m = Mode({}, {}) \/ m \in Modes("SupersetReady",
           {{}, {"supersetPostgres"}, {"supersetPostgres", "redis"},
            SupersetWorkloads})
    BY <1>8 DEF FailureModes
  <2>. QED
    BY <1>8, <2>1, ModesFacts DEF Mode, Conditions, SupersetWorkloads
<1>9. CASE pc = "sampleData"
  <2>1. m \in Modes("SampleDataReady", {{}, {"sampleData"}})
    BY <1>9 DEF FailureModes
  <2>. QED
    BY <1>9, <2>1, ModesFacts DEF Conditions
<1>10. pc \in {"postgres", "objectStore", "auth", "authz", "lakekeeper",
               "opa", "trino", "superset", "sampleData"}
  BY DEF FailureModes
<1>. QED
  BY <1>1, <1>2, <1>3, <1>4, <1>5, <1>6, <1>7, <1>8, <1>9, <1>10

\* Every step of worker, API server, cluster and user keeps the types.
LEMMA TypePreserved == TypeOK /\ [Next]_vars => TypeOK'
<1>. SUFFICES ASSUME TypeOK, [Next]_vars
              PROVE  TypeOK'
  OBVIOUS
<1>1. CASE StartPass
  BY <1>1 DEF StartPass, TypeOK, Goto, Steps, cluster
<1>2. CASE SkipLakekeeperStack
  <2>1. dp' \in [gen : 1..Len(specs), cond : [Conditions -> ConditionValue]]
    BY <1>2, SetConditionFacts DEF SkipLakekeeperStack, Conditions
  <2>. QED
    BY <1>2, <2>1 DEF SkipLakekeeperStack, TypeOK, Goto, Steps, cluster
<1>3. CASE ReconcilePostgres
  <2>1. dp' \in [gen : 1..Len(specs), cond : [Conditions -> ConditionValue]]
    BY <1>3, SetConditionFacts DEF ReconcilePostgres, Conditions, Status
  <2>2. objects' \in [Workloads -> Object] /\ queued' \in BOOLEAN
    BY <1>3, ApplyType DEF ReconcilePostgres
  <2>. QED
    BY <1>3, <2>1, <2>2
    DEF ReconcilePostgres, TypeOK, Goto, Steps, cluster
<1>4. CASE ExternalPostgres
  <2>1. dp' \in [gen : 1..Len(specs), cond : [Conditions -> ConditionValue]]
    BY <1>4, SetConditionFacts DEF ExternalPostgres, Conditions, Abort
  <2>. QED
    BY <1>4, <2>1
    DEF ExternalPostgres, Abort, TypeOK, Goto, Steps, cluster
<1>5. CASE ReconcileMinio
  <2>1. dp' \in [gen : 1..Len(specs), cond : [Conditions -> ConditionValue]]
    BY <1>5, SetConditionFacts DEF ReconcileMinio, Conditions, Status
  <2>2. objects' \in [Workloads -> Object] /\ queued' \in BOOLEAN
    BY <1>5, ApplyType DEF ReconcileMinio
  <2>3. local' \in [oidc : BOOLEAN, fga : FgaConfigs, storeReady : BOOLEAN,
                     authReady : BOOLEAN, fgaReady : BOOLEAN,
                     progressing : BOOLEAN]
    BY <1>5 DEF ReconcileMinio, TypeOK, FgaConfigs
  <2>. QED
    BY <1>5, <2>1, <2>2, <2>3
    DEF ReconcileMinio, TypeOK, Goto, Steps, cluster
<1>6. CASE ExternalObjectStore
  <2>1. dp' \in [gen : 1..Len(specs), cond : [Conditions -> ConditionValue]]
    BY <1>6, SetConditionFacts DEF ExternalObjectStore, Conditions, Abort
  <2>2. local' \in [oidc : BOOLEAN, fga : FgaConfigs, storeReady : BOOLEAN,
                     authReady : BOOLEAN, fgaReady : BOOLEAN,
                     progressing : BOOLEAN]
    BY <1>6 DEF ExternalObjectStore, TypeOK, FgaConfigs, Abort
  <2>. QED
    BY <1>6, <2>1, <2>2
    DEF ExternalObjectStore, Abort, TypeOK, Goto, Steps, cluster
<1>7. CASE ReconcileKeycloak
  <2>1. dp' \in [gen : 1..Len(specs), cond : [Conditions -> ConditionValue]]
    BY <1>7, SetConditionFacts DEF ReconcileKeycloak, Conditions, Status
  <2>2. objects' \in [Workloads -> Object] /\ queued' \in BOOLEAN
    BY <1>7, ApplyType DEF ReconcileKeycloak
  <2>3. local' \in [oidc : BOOLEAN, fga : FgaConfigs, storeReady : BOOLEAN,
                     authReady : BOOLEAN, fgaReady : BOOLEAN,
                     progressing : BOOLEAN]
    <3>1. \/ local' = [local EXCEPT !.oidc = TRUE, !.authReady = TRUE]
          \/ local' = [local EXCEPT !.oidc = TRUE, !.authReady = FALSE]
      <4>1. ("keycloak" \in up) = TRUE \/ ("keycloak" \in up) = FALSE
        OBVIOUS
      <4>. QED
        BY <1>7, <4>1 DEF ReconcileKeycloak
    <3>. QED
      BY <3>1 DEF TypeOK
  <2>. QED
    BY <1>7, <2>1, <2>2, <2>3
    DEF ReconcileKeycloak, TypeOK, Goto, Steps, cluster
<1>8. CASE ReconcileAuth
  <2>1. dp' \in [gen : 1..Len(specs), cond : [Conditions -> ConditionValue]]
    BY <1>8, SetConditionFacts DEF ReconcileAuth, Conditions, Abort
  <2>2. local' \in [oidc : BOOLEAN, fga : FgaConfigs, storeReady : BOOLEAN,
                     authReady : BOOLEAN, fgaReady : BOOLEAN,
                     progressing : BOOLEAN]
    BY <1>8 DEF ReconcileAuth, TypeOK, FgaConfigs, Abort
  <2>. QED
    BY <1>8, <2>1, <2>2
    DEF ReconcileAuth, Abort, TypeOK, Goto, Steps, cluster
<1>9. CASE ReconcileOpenFGA
  <2>1. dp' \in [gen : 1..Len(specs), cond : [Conditions -> ConditionValue]]
    BY <1>9, SetConditionFacts DEF ReconcileOpenFGA, Conditions, Status
  <2>2. objects' \in [Workloads -> Object] /\ queued' \in BOOLEAN
    BY <1>9, ApplyType DEF ReconcileOpenFGA
  <2>3. local' \in [oidc : BOOLEAN, fga : FgaConfigs, storeReady : BOOLEAN,
                     authReady : BOOLEAN, fgaReady : BOOLEAN,
                     progressing : BOOLEAN]
    BY <1>9 DEF ReconcileOpenFGA, TypeOK, FgaConfigs
  <2>. QED
    BY <1>9, <2>1, <2>2, <2>3
    DEF ReconcileOpenFGA, TypeOK, Goto, Steps, cluster
<1>10. CASE ReconcileAuthz
  <2>1. dp' \in [gen : 1..Len(specs), cond : [Conditions -> ConditionValue]]
    BY <1>10, SetConditionFacts DEF ReconcileAuthz, Conditions, Abort
  <2>2. local' \in [oidc : BOOLEAN, fga : FgaConfigs, storeReady : BOOLEAN,
                     authReady : BOOLEAN, fgaReady : BOOLEAN,
                     progressing : BOOLEAN]
    BY <1>10 DEF ReconcileAuthz, TypeOK, FgaConfigs, Abort
  <2>. QED
    BY <1>10, <2>1, <2>2
    DEF ReconcileAuthz, Abort, TypeOK, Goto, Steps, cluster
<1>11. CASE ReconcileLakekeeper
  <2>1. dp' \in [gen : 1..Len(specs), cond : [Conditions -> ConditionValue]]
    BY <1>11, SetConditionFacts DEF ReconcileLakekeeper, Conditions, Status
  <2>2. objects' \in [Workloads -> Object] /\ queued' \in BOOLEAN
    BY <1>11, ApplyType DEF ReconcileLakekeeper
  <2>3. local' \in [oidc : BOOLEAN, fga : FgaConfigs, storeReady : BOOLEAN,
                     authReady : BOOLEAN, fgaReady : BOOLEAN,
                     progressing : BOOLEAN]
    BY <1>11 DEF ReconcileLakekeeper, StackProgressing, TypeOK, FgaConfigs
  <2>. QED
    BY <1>11, <2>1, <2>2, <2>3
    DEF ReconcileLakekeeper, TypeOK, Goto, Steps, cluster
<1>12. CASE ReconcileWarehouse
  <2>1. dp' \in [gen : 1..Len(specs), cond : [Conditions -> ConditionValue]]
    BY <1>12, SetConditionFacts DEF ReconcileWarehouse, Conditions, Status
  <2>. QED
    BY <1>12, <2>1 DEF ReconcileWarehouse, TypeOK, Goto, Steps, cluster
<1>13. CASE SkipTrinoStack
  <2>1. dp' \in [gen : 1..Len(specs), cond : [Conditions -> ConditionValue]]
    BY <1>13, SetConditionFacts DEF SkipTrinoStack, Conditions, Status
  <2>. QED
    BY <1>13, <2>1 DEF SkipTrinoStack, TypeOK, Goto, Steps, cluster
<1>14. CASE ReconcileOPA
  <2>1. objects' \in [Workloads -> Object] /\ queued' \in BOOLEAN
    BY <1>14, ApplyType DEF ReconcileOPA
  <2>. QED
    BY <1>14, <2>1 DEF ReconcileOPA, TypeOK, Goto, Steps, cluster
<1>15. CASE ReconcileTrino
  <2>1. dp' \in [gen : 1..Len(specs), cond : [Conditions -> ConditionValue]]
    BY <1>15, SetConditionFacts DEF ReconcileTrino, Conditions, Status
  <2>2. objects' \in [Workloads -> Object] /\ queued' \in BOOLEAN
    BY <1>15, ApplyType DEF ReconcileTrino
  <2>3. local' \in [oidc : BOOLEAN, fga : FgaConfigs, storeReady : BOOLEAN,
                     authReady : BOOLEAN, fgaReady : BOOLEAN,
                     progressing : BOOLEAN]
    BY <1>15 DEF ReconcileTrino, TypeOK, FgaConfigs
  <2>. QED
    BY <1>15, <2>1, <2>2, <2>3 DEF ReconcileTrino, TypeOK, Goto, Steps, cluster
<1>16. CASE ReconcileSuperset
  <2>1. dp' \in [gen : 1..Len(specs), cond : [Conditions -> ConditionValue]]
    BY <1>16, SetConditionFacts DEF ReconcileSuperset, Conditions, Status
  <2>2. objects' \in [Workloads -> Object] /\ queued' \in BOOLEAN
    BY <1>16, ApplyType DEF ReconcileSuperset
  <2>3. local' \in [oidc : BOOLEAN, fga : FgaConfigs, storeReady : BOOLEAN,
                     authReady : BOOLEAN, fgaReady : BOOLEAN,
                     progressing : BOOLEAN]
    BY <1>16 DEF ReconcileSuperset, TypeOK, FgaConfigs
  <2>. QED
    BY <1>16, <2>1, <2>2, <2>3
    DEF ReconcileSuperset, TypeOK, Goto, Steps, cluster
<1>17. CASE ReconcileSampleData
  <2>1. dp' \in [gen : 1..Len(specs), cond : [Conditions -> ConditionValue]]
    BY <1>17, SetConditionFacts DEF ReconcileSampleData, Conditions, Status
  <2>2. objects' \in [Workloads -> Object] /\ queued' \in BOOLEAN
    BY <1>17, ApplyType DEF ReconcileSampleData
  <2>3. local' \in [oidc : BOOLEAN, fga : FgaConfigs, storeReady : BOOLEAN,
                     authReady : BOOLEAN, fgaReady : BOOLEAN,
                     progressing : BOOLEAN]
    BY <1>17 DEF ReconcileSampleData, TypeOK, FgaConfigs
  <2>. QED
    BY <1>17, <2>1, <2>2, <2>3
    DEF ReconcileSampleData, TypeOK, Goto, Steps, cluster
<1>18. CASE Conclude
  <2>1. dp' \in [gen : 1..Len(specs), cond : [Conditions -> ConditionValue]]
    BY <1>18, SetConditionFacts DEF Conclude, Conditions, Status
  <2>. QED
    BY <1>18, <2>1 DEF Conclude, TypeOK, Goto, Steps, cluster
<1>19. CASE PatchStatus
  BY <1>19, EndPassType DEF PatchStatus, TypeOK
<1>20. CASE FailStep
  <2>1. PICK m \in FailureModes : Apply(m.created) /\ Abort(m.marked)
    BY <1>20 DEF FailStep
  <2>2. m.marked \cup {"Ready"} \in SUBSET Conditions
    BY FailureModesFacts DEF Conditions
  <2>3. dp' \in [gen : 1..Len(specs), cond : [Conditions -> ConditionValue]]
    BY <2>1, <2>2, SetConditionFacts DEF Abort
  <2>4. objects' \in [Workloads -> Object] /\ queued' \in BOOLEAN
    BY <2>1, ApplyType
  <2>5. faults' \in 0..MaxFaults
    BY <1>20, BoundsAssumption DEF FailStep, Fault, TypeOK
  <2>. QED
    BY <1>20, <2>1, <2>3, <2>4, <2>5
    DEF FailStep, Abort, TypeOK, Goto, Steps
<1>21. CASE FailWarehouse
  <2>1. dp' \in [gen : 1..Len(specs), cond : [Conditions -> ConditionValue]]
    BY <1>21, SetConditionFacts DEF FailWarehouse, Conditions, Abort
  <2>2. faults' \in 0..MaxFaults
    BY <1>21, BoundsAssumption DEF FailWarehouse, Fault, TypeOK
  <2>. QED
    BY <1>21, <2>1, <2>2 DEF FailWarehouse, Abort, TypeOK, Goto, Steps
<1>22. CASE FailPatch \/ Crash
  <2>1. faults' \in 0..MaxFaults
    BY <1>22, BoundsAssumption DEF FailPatch, Crash, Fault, TypeOK
  <2>. QED
    BY <1>22, <2>1, EndPassType DEF FailPatch, Crash, TypeOK
<1>23. CASE EditSpec
  <2>1. specs' \in Seq(Specs) /\ Len(specs') = Len(specs) + 1
    BY <1>23 DEF EditSpec, TypeOK
  <2>2. /\ Len(specs') \in 1..MaxGeneration
        /\ 1..Len(specs) \subseteq 1..Len(specs')
    BY <1>23, <2>1, BoundsAssumption DEF EditSpec, TypeOK
  <2>. QED
    BY <1>23, <2>1, <2>2 DEF EditSpec, TypeOK
<1>24. CASE SyncCache
  <2>1. Server \in [gen : 1..Len(specs), cond : [Conditions -> ConditionValue]]
    BY DEF Server, TypeOK
  <2>. QED
    BY <1>24, <2>1 DEF SyncCache, TypeOK
<1>25. CASE \E w \in Workloads : Rise(w)
  BY <1>25 DEF Rise, TypeOK
<1>26. CASE \E w \in Workloads : Fall(w)
  <2>1. faults' \in 0..MaxFaults
    BY <1>26, BoundsAssumption DEF Fall, Fault, TypeOK
  <2>. QED
    BY <1>26, <2>1 DEF Fall, TypeOK
<1>27. CASE UNCHANGED vars
  BY <1>27 DEF vars, TypeOK
<1>. QED
  BY <1>1, <1>2, <1>3, <1>4, <1>5, <1>6, <1>7, <1>8, <1>9, <1>10, <1>11,
     <1>12, <1>13, <1>14, <1>15,
     <1>16, <1>17, <1>18, <1>19, <1>20, <1>21, <1>22, <1>23, <1>24, <1>25,
     <1>26, <1>27 DEF Next, Work, Failure

\* A new DataPlatform without conditions is well-typed.
LEMMA TypeInit == Init => TypeOK
<1>. SUFFICES ASSUME Init PROVE TypeOK
  OBVIOUS
<1>1. Unset \in [Conditions -> ConditionValue]
  BY DEF Unset, ConditionValue
<1>2. PICK s \in Specs : specs = <<s>>
  BY DEF Init
<1>3. specs \in Seq(Specs) /\ Len(specs) = 1
  BY <1>2
<1>4. Len(specs) \in 1..MaxGeneration /\ 0 \in 0..MaxFaults
  BY <1>3, BoundsAssumption
<1>5. /\ dp \in [gen : 1..Len(specs), cond : [Conditions -> ConditionValue]]
      /\ cache \in [gen : 1..Len(specs),
                    cond : [Conditions -> ConditionValue]]
  BY <1>1, <1>3 DEF Init, NoPass
<1>. QED
  BY <1>1, <1>3, <1>4, <1>5
  DEF Init, TypeOK, NoLocal, Absent, Object, FgaConfigs

\* Every reachable state of the operator is well-typed: for every set of
\* specs and all bounds.
THEOREM TypeCorrect == Spec => []TypeOK
  BY TypeInit, TypePreserved, PTL DEF Spec
-----------------------------------------------------------------------------
(***************************************************************************)
(* The invariant.                                                          *)
(***************************************************************************)

\* How a step can change the three copies of the conditions.
LEMMA ConditionSteps ==
    ASSUME TypeOK, [Next]_vars
    PROVE  \/ UNCHANGED <<specs, status, cache, dp>>
           \/ /\ UNCHANGED <<specs, status, cache>>
              /\ \/ dp' = cache
                 \/ \E cs \in SUBSET Conditions, s \in {"True", "False"} :
                       /\ dp' = SetCondition(cs, s)
                       /\ "WarehouseReady" \in cs /\ s = "True" =>
                             warehouse' \/ ~Platform.lakekeeper
           \/ /\ UNCHANGED <<specs, cache>>
              /\ dp' = NoPass
              /\ \/ status' = status
                 \/ pc = "patchStatus" /\ status' = dp.cond
           \/ /\ UNCHANGED <<specs, status, dp>>
              /\ cache' = Server
           \/ /\ UNCHANGED <<status, cache, dp>>
              /\ \E s \in Specs : specs' = Append(specs, s)
<1>1. CASE StartPass
  BY <1>1 DEF StartPass, cluster
<1>2. CASE SkipLakekeeperStack
  BY <1>2 DEF SkipLakekeeperStack, Conditions, cluster
<1>3. CASE ReconcilePostgres
  BY <1>3 DEF ReconcilePostgres, Status, Conditions, cluster
<1>4. CASE ExternalPostgres
  BY <1>4 DEF ExternalPostgres, Abort, Conditions, cluster
<1>5. CASE ReconcileMinio
  BY <1>5 DEF ReconcileMinio, Status, Conditions, cluster
<1>6. CASE ExternalObjectStore
  BY <1>6 DEF ExternalObjectStore, Abort, Conditions, cluster
<1>7. CASE ReconcileKeycloak
  BY <1>7 DEF ReconcileKeycloak, Status, Conditions, cluster
<1>8. CASE ReconcileAuth
  BY <1>8 DEF ReconcileAuth, Abort, Conditions, cluster
<1>9. CASE ReconcileOpenFGA
  BY <1>9 DEF ReconcileOpenFGA, Status, Conditions, cluster
<1>10. CASE ReconcileAuthz
  BY <1>10 DEF ReconcileAuthz, Abort, Conditions, cluster
<1>11. CASE ReconcileLakekeeper
  BY <1>11 DEF ReconcileLakekeeper, Status, Conditions, cluster
<1>12. CASE ReconcileWarehouse
  BY <1>12 DEF ReconcileWarehouse, Conditions, cluster
<1>13. CASE SkipTrinoStack
  BY <1>13 DEF SkipTrinoStack, Conditions, cluster
<1>14. CASE ReconcileOPA
  BY <1>14 DEF ReconcileOPA, cluster
<1>15. CASE ReconcileTrino
  BY <1>15 DEF ReconcileTrino, Status, Conditions, cluster
<1>16. CASE ReconcileSuperset
  BY <1>16 DEF ReconcileSuperset, Status, Conditions, cluster
<1>17. CASE ReconcileSampleData
  BY <1>17 DEF ReconcileSampleData, Status, Conditions, cluster
<1>18. CASE Conclude
  BY <1>18 DEF Conclude, Status, Conditions, cluster
<1>19. CASE PatchStatus
  BY <1>19 DEF PatchStatus, EndPass
<1>20. CASE FailStep
  <2>1. PICK m \in FailureModes : Abort(m.marked)
    BY <1>20 DEF FailStep
  <2>2. m.marked \cup {"Ready"} \in SUBSET Conditions
    BY FailureModesFacts DEF Conditions
  <2>. QED
    BY <1>20, <2>1, <2>2 DEF FailStep, Abort
<1>21. CASE FailWarehouse
  BY <1>21 DEF FailWarehouse, Abort, Conditions
<1>22. CASE FailPatch \/ Crash
  BY <1>22 DEF FailPatch, Crash, EndPass
<1>23. CASE EditSpec
  BY <1>23 DEF EditSpec
<1>24. CASE SyncCache
  BY <1>24 DEF SyncCache
<1>25. CASE \E w \in Workloads : Rise(w) \/ Fall(w)
  BY <1>25 DEF Rise, Fall
<1>26. CASE UNCHANGED vars
  BY <1>26 DEF vars
<1>. QED
  BY <1>1, <1>2, <1>3, <1>4, <1>5, <1>6, <1>7, <1>8, <1>9, <1>10, <1>11,
     <1>12, <1>13, <1>14, <1>15,
     <1>16, <1>17, <1>18, <1>19, <1>20, <1>21, <1>22, <1>23, <1>24, <1>25,
     <1>26 DEF Next, Work, Failure

\* Conditions are set for the generation of the pass, which exists.
LEMMA GenPreserved == TypeOK /\ GenInv /\ [Next]_vars => GenInv'
<1>. SUFFICES ASSUME TypeOK, GenInv, [Next]_vars
              PROVE  GenInv'
  OBVIOUS
<1>1. Len(specs) \in Nat /\ dp.gen \in Nat /\ dp.gen <= Len(specs)
      /\ status \in [Conditions -> ConditionValue]
      /\ cache.cond \in [Conditions -> ConditionValue]
      /\ dp.cond \in [Conditions -> ConditionValue]
  BY DEF TypeOK
<1>2. CASE UNCHANGED <<specs, status, cache, dp>>
  BY <1>2 DEF GenInv, GenBound
<1>3. CASE UNCHANGED <<specs, status, cache>> /\ dp' = cache
  BY <1>3 DEF GenInv, GenBound
<1>4. ASSUME UNCHANGED <<specs, status, cache>>,
             NEW cs \in SUBSET Conditions, NEW s \in {"True", "False"},
             dp' = SetCondition(cs, s)
      PROVE  GenInv'
  <2>1. \A c \in Conditions : dp'.cond[c].gen \in {dp.gen, dp.cond[c].gen}
    BY <1>4, SetConditionFacts
  <2>. QED
    BY <1>1, <1>4, <2>1 DEF GenInv, GenBound
<1>5. CASE /\ UNCHANGED <<specs, cache>>
           /\ dp' = NoPass
           /\ status' = status \/ status' = dp.cond
  BY <1>1, <1>5 DEF GenInv, GenBound, NoPass, Unset
<1>6. CASE UNCHANGED <<specs, status, dp>> /\ cache' = Server
  BY <1>6 DEF GenInv, GenBound, Server
<1>7. CASE /\ UNCHANGED <<status, cache, dp>>
           /\ \E s \in Specs : specs' = Append(specs, s)
  <2>1. Len(specs') = Len(specs) + 1
    BY <1>7 DEF TypeOK
  <2>. QED
    BY <1>1, <1>7, <2>1 DEF GenInv, GenBound, ConditionValue
<1>. QED
  BY <1>2, <1>3, <1>4, <1>5, <1>6, <1>7, ConditionSteps
\* An aborted pass marks Ready False, so it vouches for nothing.
LEMMA AbortPass ==
    ASSUME TypeOK, NEW cs \in SUBSET Conditions, Abort(cs)
    PROVE  PassInv' /\ ConfigInv'
<1>1. cs \cup {"Ready"} \in SUBSET Conditions /\ "Ready" \in Conditions
  BY DEF Conditions
<1>2. dp'.cond["Ready"].status = "False"
  BY <1>1, SetConditionFacts DEF Abort
<1>3. pc' = "patchStatus"
  BY DEF Abort, Goto
<1>. QED
  BY <1>2, <1>3 DEF PassInv, ConfigInv, Vouched, AfterPostgres, AfterStack

\* Between passes there is nothing to show.
LEMMA IdlePass ==
    ASSUME pc' = "idle"
    PROVE  PassInv' /\ ConfigInv'
  BY DEF PassInv, ConfigInv, AfterPostgres, AfterStack

\* Platform is the same spec as long as the pass keeps its generation.
LEMMA SamePlatform ==
    ASSUME TypeOK, dp'.gen = dp.gen,
           specs' = specs \/ \E s \in Specs : specs' = Append(specs, s)
    PROVE  Platform' = Platform
  BY DEF Platform, TypeOK

\* A growing history does not change what a condition list vouches for.
LEMMA VouchedStable ==
    ASSUME TypeOK, NEW s \in Specs, specs' = Append(specs, s),
           NEW cond, Vouched(cond)
    PROVE  cond["Ready"].status = "True" =>
              /\ cond["Ready"].gen \in DOMAIN specs'
              /\ \A c \in Reported(specs'[cond["Ready"].gen]) :
                    cond[c] = cond["Ready"]
<1>1. \A g \in DOMAIN specs : g \in DOMAIN specs' /\ specs'[g] = specs[g]
  BY DEF TypeOK
<1>. QED
  BY <1>1 DEF Vouched

\* Each handler claims its condition before it reports "ready" to the next.
LEMMA PassPreserved ==
    ASSUME TypeOK, PassInv, ConfigInv, [Next]_vars
    PROVE  PassInv'
<1>1. CASE StartPass
  BY <1>1 DEF StartPass, Goto, PassInv, AfterPostgres, AfterStack
<1>2. CASE SkipLakekeeperStack
  <2>1. /\ dp'.gen = dp.gen
        /\ \A c \in StackConditions(Platform) : Claimed(c)'
    BY <1>2, SetConditionFacts
    DEF SkipLakekeeperStack, Conditions, StackConditions, Claimed
  <2>2. Platform' = Platform
    BY <1>2, <2>1, SamePlatform DEF SkipLakekeeperStack, cluster
  <2>. QED
    BY <1>2, <2>1, <2>2
    DEF SkipLakekeeperStack, Goto, PassInv, AfterPostgres, AfterStack
<1>3. CASE ReconcilePostgres
  <2>1. dp'.gen = dp.gen /\ dp'.cond["PostgresReady"].gen = dp.gen
    BY <1>3, SetConditionFacts DEF ReconcilePostgres, Conditions, Status
  <2>2. Platform' = Platform
    BY <1>3, <2>1, SamePlatform DEF ReconcilePostgres, cluster
  <2>. QED
    BY <1>3, <2>1, <2>2
    DEF ReconcilePostgres, Goto, PassInv, AfterPostgres, AfterStack
<1>4. CASE ExternalPostgres
  <2>1. CASE Abort({"PostgresReady"})
    BY <2>1, AbortPass DEF Conditions
  <2>2. CASE ~Abort({"PostgresReady"})
    <3>1. dp'.gen = dp.gen /\ dp'.cond["PostgresReady"].gen = dp.gen
      BY <1>4, <2>2, SetConditionFacts DEF ExternalPostgres, Conditions
    <3>2. Platform' = Platform
      BY <1>4, <3>1, SamePlatform DEF ExternalPostgres, cluster
    <3>. QED
      BY <1>4, <2>2, <3>1, <3>2
      DEF ExternalPostgres, Goto, PassInv, AfterPostgres, AfterStack
  <2>. QED
    BY <2>1, <2>2
<1>5. CASE ReconcileMinio
  <2>1. /\ dp'.gen = dp.gen
        /\ \A d \in Conditions \ {"MinioReady"} : dp'.cond[d] = dp.cond[d]
    BY <1>5, SetConditionFacts DEF ReconcileMinio, Conditions, Status
  <2>2. local'.storeReady => Claimed("MinioReady")'
    <3>1. CASE "minio" \in up /\ "bucket" \in up
      <4>1. dp' = SetCondition({"MinioReady"}, "True")
        BY <1>5, <3>1 DEF ReconcileMinio, Status
      <4>. QED
        BY <4>1, SetConditionFacts DEF Conditions, Claimed
    <3>2. CASE ~("minio" \in up /\ "bucket" \in up)
      BY <1>5, <3>2 DEF ReconcileMinio, TypeOK
    <3>. QED
      BY <3>1, <3>2
  <2>3. Platform' = Platform
    BY <1>5, <2>1, SamePlatform DEF ReconcileMinio, cluster
  <2>. QED
    BY <1>5, <2>1, <2>2, <2>3
    DEF ReconcileMinio, Goto, PassInv, AfterPostgres, AfterStack,
        Conditions, Claimed, TypeOK
<1>6. CASE ExternalObjectStore
  <2>1. CASE Abort({"MinioReady"})
    BY <2>1, AbortPass DEF Conditions
  <2>2. CASE ~Abort({"MinioReady"})
    <3>1. /\ dp'.gen = dp.gen
          /\ Claimed("MinioReady")'
          /\ \A d \in Conditions \ {"MinioReady"} : dp'.cond[d] = dp.cond[d]
      BY <1>6, <2>2, SetConditionFacts
      DEF ExternalObjectStore, Conditions, Claimed
    <3>2. Platform' = Platform
      BY <1>6, <3>1, SamePlatform DEF ExternalObjectStore, cluster
    <3>. QED
      BY <1>6, <2>2, <3>1, <3>2
      DEF ExternalObjectStore, Goto, PassInv, AfterPostgres, AfterStack,
          Conditions, Claimed, TypeOK
  <2>. QED
    BY <2>1, <2>2
<1>7. CASE ReconcileKeycloak
  <2>1. /\ dp'.gen = dp.gen
        /\ \A d \in Conditions \ {"AuthReady"} : dp'.cond[d] = dp.cond[d]
    BY <1>7, SetConditionFacts DEF ReconcileKeycloak, Conditions, Status
  <2>2. local'.authReady => Claimed("AuthReady")'
    <3>1. CASE "keycloak" \in up
      <4>1. dp' = SetCondition({"AuthReady"}, "True")
        BY <1>7, <3>1 DEF ReconcileKeycloak, Status
      <4>. QED
        BY <4>1, SetConditionFacts DEF Conditions, Claimed
    <3>2. CASE ~("keycloak" \in up)
      BY <1>7, <3>2 DEF ReconcileKeycloak, TypeOK
    <3>. QED
      BY <3>1, <3>2
  <2>3. Platform' = Platform
    BY <1>7, <2>1, SamePlatform DEF ReconcileKeycloak, cluster
  <2>. QED
    BY <1>7, <2>1, <2>2, <2>3
    DEF ReconcileKeycloak, Goto, PassInv, AfterPostgres, AfterStack,
        Conditions, Claimed, TypeOK
<1>8. CASE ReconcileAuth
  <2>1. CASE Abort({"AuthReady"})
    BY <2>1, AbortPass DEF Conditions
  <2>2. CASE ~Abort({"AuthReady"})
    <3>1. /\ dp'.gen = dp.gen
          /\ Claimed("AuthReady")'
          /\ \A d \in Conditions \ {"AuthReady"} : dp'.cond[d] = dp.cond[d]
      BY <1>8, <2>2, SetConditionFacts DEF ReconcileAuth, Conditions, Claimed
    <3>2. Platform' = Platform
      BY <1>8, <3>1, SamePlatform DEF ReconcileAuth, cluster
    <3>. QED
      BY <1>8, <2>2, <3>1, <3>2
      DEF ReconcileAuth, Goto, PassInv, AfterPostgres, AfterStack,
          Conditions, Claimed, TypeOK
  <2>. QED
    BY <2>1, <2>2
<1>9. CASE ReconcileOpenFGA
  <2>1. /\ dp'.gen = dp.gen
        /\ \A d \in Conditions \ {"OpenFGAReady"} : dp'.cond[d] = dp.cond[d]
    BY <1>9, SetConditionFacts DEF ReconcileOpenFGA, Conditions, Status
  <2>2. local'.fgaReady => Claimed("OpenFGAReady")'
    <3>1. CASE "openfgaPostgres" \in up /\ "openfga" \in up
      <4>1. dp' = SetCondition({"OpenFGAReady"}, "True")
        BY <1>9, <3>1 DEF ReconcileOpenFGA, Status
      <4>. QED
        BY <4>1, SetConditionFacts DEF Conditions, Claimed
    <3>2. CASE ~("openfgaPostgres" \in up /\ "openfga" \in up)
      BY <1>9, <3>2 DEF ReconcileOpenFGA, TypeOK
    <3>. QED
      BY <3>1, <3>2
  <2>3. Platform' = Platform
    BY <1>9, <2>1, SamePlatform DEF ReconcileOpenFGA, cluster
  <2>. QED
    BY <1>9, <2>1, <2>2, <2>3
    DEF ReconcileOpenFGA, Goto, PassInv, AfterPostgres, AfterStack,
        Conditions, Claimed, TypeOK
<1>10. CASE ReconcileAuthz
  <2>1. CASE Abort({"OpenFGAReady"})
    BY <2>1, AbortPass DEF Conditions
  <2>2. CASE ~Abort({"OpenFGAReady"})
    <3>1. /\ dp'.gen = dp.gen
          /\ Claimed("OpenFGAReady")'
          /\ \A d \in Conditions \ {"OpenFGAReady"} : dp'.cond[d] = dp.cond[d]
      BY <1>10, <2>2, SetConditionFacts DEF ReconcileAuthz, Conditions, Claimed
    <3>2. Platform' = Platform
      BY <1>10, <3>1, SamePlatform DEF ReconcileAuthz, cluster
    <3>. QED
      BY <1>10, <2>2, <3>1, <3>2
      DEF ReconcileAuthz, Goto, PassInv, AfterPostgres, AfterStack,
          Conditions, Claimed, TypeOK
  <2>. QED
    BY <2>1, <2>2
<1>11. CASE ReconcileLakekeeper
  <2>1. /\ dp'.gen = dp.gen
        /\ \A d \in Conditions \ {"LakekeeperReady"} : dp'.cond[d] = dp.cond[d]
    BY <1>11, SetConditionFacts DEF ReconcileLakekeeper, Conditions, Status
  <2>2. Platform' = Platform
    BY <1>11, <2>1, SamePlatform DEF ReconcileLakekeeper, cluster
  <2>3. CASE pc' = "opa"
    <3>1. local'.progressing
      BY <1>11, <2>3 DEF ReconcileLakekeeper, Goto, TypeOK
    <3>. QED
      BY <2>3, <3>1 DEF PassInv, AfterPostgres, AfterStack
  <2>4. CASE pc' = "warehouse"
    <3>1. /\ ConditionTrue("PostgresReady")
          /\ local.authReady /\ local.fgaReady /\ local.storeReady
          /\ Claimed("LakekeeperReady")'
      BY <1>11, <2>4, SetConditionFacts
      DEF ReconcileLakekeeper, StackProgressing, Goto, Conditions, Status,
          Claimed
    <3>2. Claimed("PostgresReady")
      BY <1>11, <3>1
      DEF ReconcileLakekeeper, PassInv, AfterPostgres, ConditionTrue, Claimed,
          TypeOK, Conditions, ConditionValue
    <3>3. /\ local'.authReady = local.authReady
          /\ local'.fgaReady = local.fgaReady
          /\ local'.storeReady = local.storeReady
      BY <1>11 DEF ReconcileLakekeeper, TypeOK
    <3>4. Claimed("MinioReady") /\ Claimed("AuthReady")
          /\ Claimed("OpenFGAReady") /\ Platform.lakekeeper
      BY <1>11, <3>1 DEF ReconcileLakekeeper, PassInv, AfterPostgres
    <3>. QED
      BY <2>1, <2>2, <2>4, <3>1, <3>2, <3>3, <3>4
      DEF PassInv, AfterPostgres, AfterStack, Conditions, Claimed
  <2>. QED
    BY <1>11, <2>3, <2>4 DEF ReconcileLakekeeper, Goto
<1>12. CASE ReconcileWarehouse
  <2>1. /\ dp'.gen = dp.gen
        /\ Claimed("WarehouseReady")'
        /\ \A d \in Conditions \ {"WarehouseReady"} : dp'.cond[d] = dp.cond[d]
    BY <1>12, SetConditionFacts DEF ReconcileWarehouse, Conditions, Claimed
  <2>2. Platform' = Platform
    BY <1>12, <2>1, SamePlatform DEF ReconcileWarehouse, cluster
  <2>3. \A c \in {"MinioReady", "PostgresReady", "LakekeeperReady",
                  "OpenFGAReady", "AuthReady"} : Claimed(c)
    BY <1>12 DEF ReconcileWarehouse, PassInv
  <2>4. \A c \in StackConditions(Platform') : Claimed(c)'
    BY <2>1, <2>2, <2>3 DEF StackConditions, Claimed, Conditions
  <2>. QED
    BY <1>12, <2>4
    DEF ReconcileWarehouse, Goto, PassInv, AfterPostgres, AfterStack
<1>13. CASE SkipTrinoStack
  <2>1. /\ dp'.gen = dp.gen
        /\ Claimed("TrinoReady")'
        /\ \A d \in Conditions \ {"TrinoReady"} : dp'.cond[d] = dp.cond[d]
    BY <1>13, SetConditionFacts DEF SkipTrinoStack, Conditions, Claimed
  <2>2. Platform' = Platform
    BY <1>13, <2>1, SamePlatform DEF SkipTrinoStack, cluster
  <2>3. ~local.progressing => \A c \in StackConditions(Platform') : Claimed(c)'
    BY <1>13, <2>1, <2>2
    DEF SkipTrinoStack, PassInv, AfterStack, StackConditions, Claimed,
        Conditions
  <2>. QED
    BY <1>13, <2>1, <2>3
    DEF SkipTrinoStack, Goto, PassInv, AfterPostgres, AfterStack
<1>14. CASE ReconcileOPA
  <2>1. Platform' = Platform
    BY <1>14, SamePlatform DEF ReconcileOPA, cluster
  <2>. QED
    BY <1>14, <2>1
    DEF ReconcileOPA, Goto, PassInv, AfterPostgres, AfterStack, Claimed
<1>15. CASE ReconcileTrino
  <2>1. /\ dp'.gen = dp.gen
        /\ \A d \in Conditions \ {"TrinoReady"} : dp'.cond[d] = dp.cond[d]
    BY <1>15, SetConditionFacts DEF ReconcileTrino, Conditions, Status
  <2>2. ~local'.progressing => ~local.progressing /\ Claimed("TrinoReady")'
    <3>1. CASE "trino" \in up
      <4>1. dp' = SetCondition({"TrinoReady"}, "True")
        BY <1>15, <3>1 DEF ReconcileTrino, Status
      <4>2. local' = local
        BY <1>15, <3>1 DEF ReconcileTrino, TypeOK
      <4>. QED
        BY <4>1, <4>2, SetConditionFacts DEF Conditions, Claimed
    <3>2. CASE ~("trino" \in up)
      BY <1>15, <3>2 DEF ReconcileTrino, TypeOK
    <3>. QED
      BY <3>1, <3>2
  <2>3. Platform' = Platform
    BY <1>15, <2>1, SamePlatform DEF ReconcileTrino, cluster
  <2>4. ~local.progressing => \A c \in StackConditions(Platform') : Claimed(c)'
    BY <1>15, <2>1, <2>3
    DEF ReconcileTrino, PassInv, AfterStack, StackConditions, Claimed,
        Conditions
  <2>. QED
    BY <1>15, <2>1, <2>2, <2>4
    DEF ReconcileTrino, Goto, PassInv, AfterPostgres, AfterStack, Conditions,
        Claimed
<1>16. CASE ReconcileSuperset
  <2>1. /\ dp'.gen = dp.gen
        /\ \A d \in Conditions \ {"SupersetReady"} : dp'.cond[d] = dp.cond[d]
    BY <1>16, SetConditionFacts DEF ReconcileSuperset, Conditions, Status
  <2>2. ~local'.progressing => ~local.progressing /\ Claimed("SupersetReady")'
    <3>1. CASE Platform.superset => SupersetWorkloads \subseteq up
      <4>1. dp' = SetCondition({"SupersetReady"}, "True")
        BY <1>16, <3>1 DEF ReconcileSuperset, Status
      <4>2. local' = local
        BY <1>16, <3>1 DEF ReconcileSuperset, TypeOK
      <4>. QED
        BY <4>1, <4>2, SetConditionFacts DEF Conditions, Claimed
    <3>2. CASE ~(Platform.superset => SupersetWorkloads \subseteq up)
      BY <1>16, <3>2 DEF ReconcileSuperset, TypeOK
    <3>. QED
      BY <3>1, <3>2
  <2>3. Platform' = Platform
    BY <1>16, <2>1, SamePlatform DEF ReconcileSuperset, cluster
  <2>4. ~local.progressing => \A c \in StackConditions(Platform') : Claimed(c)'
    BY <1>16, <2>1, <2>3
    DEF ReconcileSuperset, PassInv, AfterStack, StackConditions, Claimed,
        Conditions
  <2>. QED
    BY <1>16, <2>1, <2>2, <2>4
    DEF ReconcileSuperset, Goto, PassInv, AfterPostgres, AfterStack,
        Conditions, Claimed
<1>17. CASE ReconcileSampleData
  <2>1. /\ dp'.gen = dp.gen
        /\ \A d \in Conditions \ {"SampleDataReady"} : dp'.cond[d] = dp.cond[d]
    BY <1>17, SetConditionFacts DEF ReconcileSampleData, Conditions, Status
  <2>2. ~local'.progressing =>
           ~local.progressing /\ Claimed("SampleDataReady")'
    <3>1. CASE SampleDataWanted =>
             SampleDataAllowed /\ "sampleData" \in up
      <4>1. dp' = SetCondition({"SampleDataReady"}, "True")
        BY <1>17, <3>1 DEF ReconcileSampleData, Status
      <4>2. local' = local
        BY <1>17, <3>1 DEF ReconcileSampleData, TypeOK
      <4>. QED
        BY <4>1, <4>2, SetConditionFacts DEF Conditions, Claimed
    <3>2. CASE ~(SampleDataWanted =>
             SampleDataAllowed /\ "sampleData" \in up)
      BY <1>17, <3>2 DEF ReconcileSampleData, TypeOK
    <3>. QED
      BY <3>1, <3>2
  <2>3. Platform' = Platform
    BY <1>17, <2>1, SamePlatform DEF ReconcileSampleData, cluster
  <2>4. ~local.progressing => \A c \in StackConditions(Platform') : Claimed(c)'
    BY <1>17, <2>1, <2>3
    DEF ReconcileSampleData, PassInv, AfterStack, StackConditions, Claimed,
        Conditions
  <2>. QED
    BY <1>17, <2>1, <2>2, <2>4
    DEF ReconcileSampleData, Goto, PassInv, AfterPostgres, AfterStack,
        Conditions, Claimed
<1>18. CASE Conclude
  <2>1. /\ dp'.gen = dp.gen
        /\ dp'.cond["Ready"] = [status |-> Status(~local.progressing),
                                gen |-> dp.gen]
        /\ \A d \in Conditions \ {"Ready"} : dp'.cond[d] = dp.cond[d]
    BY <1>18, SetConditionFacts DEF Conclude, Conditions, Status
  <2>2. Platform' = Platform
    BY <1>18, <2>1, SamePlatform DEF Conclude, cluster
  <2>3. dp.gen \in DOMAIN specs
    BY DEF TypeOK
  <2>4. CASE local.progressing
    <3>1. dp'.cond["Ready"].status # "True"
      BY <2>1, <2>4 DEF Status
    <3>. QED
      BY <1>18, <3>1
      DEF Conclude, Goto, PassInv, AfterPostgres, AfterStack, Vouched
  <2>5. CASE ~local.progressing
    <3>1. \A c \in StackConditions(Platform)
              \cup {"TrinoReady", "SupersetReady", "SampleDataReady"} :
             Claimed(c)
      BY <1>18, <2>5 DEF Conclude, PassInv, AfterStack
    <3>2. dp'.cond["Ready"] = [status |-> "True", gen |-> dp.gen]
      BY <2>1, <2>5 DEF Status
    <3>3. Reported(Platform) = StackConditions(Platform)
              \cup {"TrinoReady", "SupersetReady", "SampleDataReady", "Ready"}
      BY DEF Reported, StackConditions, Conditions
    <3>4. \A c \in Reported(Platform) : dp'.cond[c] = dp'.cond["Ready"]
      BY <2>1, <3>1, <3>2, <3>3 DEF Claimed, Reported
    <3>5. Vouched(dp.cond)'
      BY <1>18, <2>1, <2>3, <3>2, <3>4 DEF Vouched, Platform, Conclude, cluster
    <3>. QED
      BY <1>18, <3>5 DEF Conclude, Goto, PassInv, AfterPostgres, AfterStack
  <2>. QED
    BY <2>4, <2>5
<1>19. CASE PatchStatus \/ FailPatch \/ Crash
  BY <1>19, IdlePass DEF PatchStatus, FailPatch, Crash, EndPass
<1>20. CASE FailStep
  <2>1. PICK m \in FailureModes : Abort(m.marked)
    BY <1>20 DEF FailStep
  <2>2. m.marked \in SUBSET Conditions
    BY FailureModesFacts
  <2>. QED
    BY <2>1, <2>2, AbortPass
<1>21. CASE FailWarehouse
  BY <1>21, AbortPass DEF FailWarehouse, Conditions
<1>22. CASE EditSpec
  <2>1. PICK s \in Specs : specs' = Append(specs, s)
    BY <1>22 DEF EditSpec
  <2>2. Platform' = Platform
    BY <1>22, <2>1, SamePlatform DEF EditSpec
  <2>3. Vouched(dp.cond) => Vouched(dp.cond)'
    BY <1>22, <2>1, VouchedStable DEF EditSpec, Vouched
  <2>. QED
    BY <1>22, <2>2, <2>3 DEF EditSpec, PassInv, Claimed
<1>23. CASE \/ SyncCache
            \/ \E w \in Workloads : Rise(w) \/ Fall(w)
            \/ UNCHANGED vars
  <2>1. UNCHANGED <<specs, pc, dp, local>>
    BY <1>23 DEF SyncCache, Rise, Fall, vars
  <2>. QED
    BY <2>1 DEF PassInv, Claimed, Vouched, Platform
<1>. QED
  BY <1>1, <1>2, <1>3, <1>4, <1>5, <1>6, <1>7, <1>8, <1>9, <1>10, <1>11,
     <1>12, <1>13, <1>14, <1>15,
     <1>16, <1>17, <1>18, <1>19, <1>20, <1>21, <1>22, <1>23
  DEF Next, Work, Failure

\* Only a pass that has both configs leaves a step with them, and OPA is
\* applied before a pass that has both reaches Trino.
LEMMA ConfigPreserved ==
    ASSUME TypeOK, ConfigInv, [Next]_vars
    PROVE  ConfigInv'
<1>1. CASE pc' \notin {"authz", "lakekeeper", "trino"}
  BY <1>1 DEF ConfigInv
<1>2. CASE (ReconcileKeycloak \/ ReconcileAuth) /\ pc' # "patchStatus"
  <2>1. dp'.gen = dp.gen
    BY <1>2, SetConditionFacts
    DEF ReconcileKeycloak, ReconcileAuth, Abort, Goto, Conditions, Status
  <2>2. Platform' = Platform
    BY <1>2, <2>1, SamePlatform DEF ReconcileKeycloak, ReconcileAuth, cluster
  <2>3. local'.oidc = (Platform.auth # "off") /\ pc' = "authz"
    BY <1>2 DEF ReconcileKeycloak, ReconcileAuth, Abort, Goto, TypeOK
  <2>. QED
    BY <2>2, <2>3 DEF ConfigInv
<1>3. CASE (ReconcileOpenFGA \/ ReconcileAuthz) /\ pc' # "patchStatus"
  <2>1. dp'.gen = dp.gen
    BY <1>3, SetConditionFacts
    DEF ReconcileOpenFGA, ReconcileAuthz, Abort, Goto, Conditions, Status
  <2>2. Platform' = Platform
    BY <1>3, <2>1, SamePlatform DEF ReconcileOpenFGA, ReconcileAuthz, cluster
  <2>3. /\ pc' = "lakekeeper"
        /\ local'.oidc = local.oidc
        /\ local.oidc = (Platform.auth # "off")
    BY <1>3
    DEF ReconcileOpenFGA, ReconcileAuthz, Abort, Goto, TypeOK, ConfigInv
  <2>4. local'.fgaReady =>
           local'.fga = IF Platform.authz = "off" THEN "disabled" ELSE "full"
    BY <1>3 DEF ReconcileOpenFGA, ReconcileAuthz, Abort, Goto, TypeOK
  <2>. QED
    BY <2>2, <2>3, <2>4 DEF ConfigInv
<1>4. CASE ReconcileOPA
  <2>1. pc' = "trino" /\ local' = local
    BY <1>4 DEF ReconcileOPA, Goto
  <2>2. local.fga # "disabled" /\ local.oidc => objects' = Applied({"opa"})
    BY <1>4 DEF ReconcileOPA, OPAWanted, Apply
  <2>3. local.fga # "disabled" /\ local.oidc => objects'["opa"].exists
    BY <2>2, AppliedFacts DEF Workloads
  <2>. QED
    BY <2>1, <2>3 DEF ConfigInv
<1>5. CASE EditSpec
  <2>1. Platform' = Platform
    BY <1>5, SamePlatform DEF EditSpec
  <2>. QED
    BY <1>5, <2>1 DEF EditSpec, ConfigInv
<1>6. CASE \/ SyncCache
           \/ \E w \in Workloads : Rise(w) \/ Fall(w)
           \/ UNCHANGED vars
  <2>1. UNCHANGED <<specs, pc, dp, local, objects>>
    BY <1>6 DEF SyncCache, Rise, Fall, vars
  <2>. QED
    BY <2>1 DEF ConfigInv, Platform
<1>7. CASE StartPass \/ SkipLakekeeperStack \/ ReconcilePostgres
           \/ ExternalPostgres
  BY <1>1, <1>7
  DEF StartPass, SkipLakekeeperStack, ReconcilePostgres, ExternalPostgres,
      Abort, Goto
<1>8. CASE ReconcileMinio \/ ExternalObjectStore \/ ReconcileLakekeeper
           \/ ReconcileWarehouse
  BY <1>1, <1>8
  DEF ReconcileMinio, ExternalObjectStore, ReconcileLakekeeper,
      ReconcileWarehouse, Abort, Goto
<1>9. CASE SkipTrinoStack \/ ReconcileTrino \/ ReconcileSuperset
           \/ ReconcileSampleData \/ Conclude
  BY <1>1, <1>9
  DEF SkipTrinoStack, ReconcileTrino, ReconcileSuperset, ReconcileSampleData,
      Conclude, Goto
<1>10. CASE PatchStatus \/ FailPatch \/ Crash
  BY <1>1, <1>10 DEF PatchStatus, FailPatch, Crash, EndPass
<1>11. CASE FailStep \/ FailWarehouse
  BY <1>1, <1>11 DEF FailStep, FailWarehouse, Abort, Goto
<1>. QED
  BY <1>1, <1>2, <1>3, <1>4, <1>5, <1>6, <1>7, <1>8, <1>9, <1>10, <1>11
  DEF Next, Work, Failure

\* Nothing removes the warehouse.
LEMMA WarehouseKept ==
    ASSUME TypeOK, [Next]_vars, warehouse
    PROVE  warehouse'
<1>1. CASE Work
  BY <1>1
  DEF Work, StartPass, SkipLakekeeperStack, ReconcilePostgres,
      ExternalPostgres, ReconcileMinio, ExternalObjectStore,
      ReconcileKeycloak, ReconcileAuth, ReconcileOpenFGA, ReconcileAuthz,
      ReconcileLakekeeper, ReconcileWarehouse, SkipTrinoStack, ReconcileOPA,
      ReconcileTrino, ReconcileSuperset, ReconcileSampleData, Conclude,
      PatchStatus
<1>2. CASE Failure
  BY <1>2 DEF Failure, FailStep, FailWarehouse, FailPatch, Crash
<1>3. CASE EditSpec \/ SyncCache \/ UNCHANGED vars
           \/ \E w \in Workloads : Rise(w) \/ Fall(w)
  BY <1>3 DEF EditSpec, SyncCache, Rise, Fall, vars
<1>. QED
  BY <1>1, <1>2, <1>3 DEF Next

\* The three copies of WarehouseReady keep telling the truth: a stale copy is
\* still true, since the warehouse is never removed.
LEMMA ClaimPreserved ==
    ASSUME TypeOK, GenInv, ClaimInv, [Next]_vars
    PROVE  ClaimInv'
<1>1. /\ Len(specs) \in Nat /\ DOMAIN specs = 1..Len(specs)
      /\ dp.gen \in DOMAIN specs
      /\ status \in [Conditions -> ConditionValue]
      /\ cache.cond \in [Conditions -> ConditionValue]
      /\ dp.cond \in [Conditions -> ConditionValue]
      /\ "WarehouseReady" \in Conditions
  BY DEF TypeOK, Conditions
<1>2. CASE UNCHANGED <<specs, status, cache, dp>>
  BY <1>2, WarehouseKept DEF ClaimInv, WarehouseClaim
<1>3. CASE UNCHANGED <<specs, status, cache>> /\ dp' = cache
  BY <1>3, WarehouseKept DEF ClaimInv, WarehouseClaim
<1>4. ASSUME UNCHANGED <<specs, status, cache>>,
             NEW cs \in SUBSET Conditions, NEW s \in {"True", "False"},
             dp' = SetCondition(cs, s),
             "WarehouseReady" \in cs /\ s = "True" =>
                 warehouse' \/ ~Platform.lakekeeper
      PROVE  ClaimInv'
  <2>1. dp'.cond["WarehouseReady"] =
           IF "WarehouseReady" \in cs THEN [status |-> s, gen |-> dp.gen]
                                      ELSE dp.cond["WarehouseReady"]
    BY <1>1, <1>4, SetConditionFacts
  <2>2. WarehouseClaim(dp.cond)'
    <3>1. CASE "WarehouseReady" \in cs
      BY <1>4, <2>1, <3>1 DEF WarehouseClaim, Platform
    <3>2. CASE "WarehouseReady" \notin cs
      BY <1>4, <2>1, <3>2, WarehouseKept DEF ClaimInv, WarehouseClaim
    <3>. QED
      BY <3>1, <3>2
  <2>. QED
    BY <1>4, <2>2, WarehouseKept DEF ClaimInv, WarehouseClaim
<1>5. CASE /\ UNCHANGED <<specs, cache>>
           /\ dp' = NoPass
           /\ status' = status \/ status' = dp.cond
  BY <1>1, <1>5, WarehouseKept DEF ClaimInv, WarehouseClaim, NoPass, Unset
<1>6. CASE UNCHANGED <<specs, status, dp>> /\ cache' = Server
  BY <1>6, WarehouseKept DEF ClaimInv, WarehouseClaim, Server
<1>7. CASE /\ UNCHANGED <<status, cache, dp>>
           /\ \E s \in Specs : specs' = Append(specs, s)
  <2>1. /\ Len(specs') = Len(specs) + 1
        /\ DOMAIN specs' = 1..Len(specs')
        /\ \A g \in DOMAIN specs : specs'[g] = specs[g]
    BY <1>7 DEF TypeOK
  <2>2. \A cond \in [Conditions -> ConditionValue] :
           GenBound(cond) /\ WarehouseClaim(cond) =>
              \/ warehouse
              \/ ~( /\ cond["WarehouseReady"].status = "True"
                    /\ cond["WarehouseReady"].gen \in DOMAIN specs'
                    /\ specs'[cond["WarehouseReady"].gen].lakekeeper )
    BY <1>1, <2>1 DEF GenBound, WarehouseClaim, ConditionValue
  <2>. QED
    BY <1>1, <1>7, <2>2, WarehouseKept DEF ClaimInv, GenInv, WarehouseClaim
<1>. QED
  BY <1>2, <1>3, <1>4, <1>5, <1>6, <1>7, ConditionSteps

\* What is stored was vouched for when it was written, and an edit of the
\* spec does not rewrite earlier generations.
LEMMA ReadyPreserved ==
    ASSUME TypeOK, PassInv, ReadyConsistent, [Next]_vars
    PROVE  ReadyConsistent'
<1>1. CASE UNCHANGED <<specs, status>>
  BY <1>1 DEF ReadyConsistent, Vouched
<1>2. CASE specs' = specs /\ pc = "patchStatus" /\ status' = dp.cond
  BY <1>2 DEF ReadyConsistent, Vouched, PassInv
<1>3. CASE status' = status /\ \E s \in Specs : specs' = Append(specs, s)
  BY <1>3, VouchedStable DEF ReadyConsistent, Vouched
<1>. QED
  BY <1>1, <1>2, <1>3, ConditionSteps

\* LakeKeeper is applied only by its own step with its gate open, Trino only
\* by its own step, and no workload is removed.
LEMMA ObjectSteps ==
    ASSUME TypeOK, [Next]_vars
    PROVE  \/ objects' = objects
           \/ \E ws :
                 /\ objects' = Applied(ws)
                 /\ "lakekeeper" \in ws =>
                       pc = "lakekeeper" /\ LakekeeperAllowed
                 /\ "trino" \in ws => pc = "trino"
<1>1. CASE ReconcilePostgres
  BY <1>1 DEF ReconcilePostgres, Apply
<1>2. CASE ReconcileMinio
  <2>1. \E ws \in {{"minio"}, {"minio", "bucket"}} : objects' = Applied(ws)
    BY <1>2 DEF ReconcileMinio, Apply
  <2>. QED
    BY <2>1
<1>3. CASE ReconcileKeycloak
  BY <1>3 DEF ReconcileKeycloak, Apply
<1>4. CASE ReconcileOpenFGA
  BY <1>4 DEF ReconcileOpenFGA, Apply
<1>5. CASE ExternalPostgres \/ ExternalObjectStore \/ ReconcileAuth
            \/ ReconcileAuthz
  BY <1>5
  DEF ExternalPostgres, ExternalObjectStore, ReconcileAuth, ReconcileAuthz
<1>6. CASE ReconcileLakekeeper
  BY <1>6 DEF ReconcileLakekeeper, Apply
<1>7. CASE ReconcileOPA
  BY <1>7 DEF ReconcileOPA, Apply
<1>8. CASE ReconcileTrino
  BY <1>8 DEF ReconcileTrino, Apply
<1>9. CASE ReconcileSuperset
  BY <1>9 DEF ReconcileSuperset, Apply, SupersetWorkloads
<1>10. CASE ReconcileSampleData
  BY <1>10 DEF ReconcileSampleData, Apply
<1>11. CASE FailStep
  <2>1. PICK m \in FailureModes : Apply(m.created)
    BY <1>11 DEF FailStep
  <2>. QED
    BY <2>1, FailureModesFacts DEF Apply
<1>12. CASE StartPass \/ SkipLakekeeperStack \/ ReconcileWarehouse
            \/ SkipTrinoStack \/ Conclude \/ PatchStatus
  BY <1>12
  DEF StartPass, SkipLakekeeperStack, ReconcileWarehouse, SkipTrinoStack,
      Conclude, PatchStatus
<1>13. CASE FailWarehouse \/ FailPatch \/ Crash
  BY <1>13 DEF FailWarehouse, FailPatch, Crash
<1>14. CASE \/ EditSpec \/ SyncCache \/ UNCHANGED vars
            \/ \E w \in Workloads : Rise(w) \/ Fall(w)
  BY <1>14 DEF EditSpec, SyncCache, Rise, Fall, vars
<1>. QED
  BY <1>1, <1>2, <1>3, <1>4, <1>5, <1>6, <1>7, <1>8, <1>9, <1>10, <1>11, <1>12,
     <1>13, <1>14 DEF Next, Work, Failure

\* Only ReconcileTrino configures Trino, with what ReconcileOPA left.
LEMMA GuardPreserved ==
    ASSUME TypeOK, ConfigInv, OPABeforeTrino, [Next]_vars
    PROVE  OPABeforeTrino'
<1>1. CASE objects' = objects
  BY <1>1 DEF OPABeforeTrino, TrinoGuarded
<1>2. ASSUME NEW ws, objects' = Applied(ws),
             "trino" \in ws => pc = "trino"
      PROVE  OPABeforeTrino'
  <2>1. objects["opa"].exists => objects'["opa"].exists
    BY <1>2, AppliedFacts DEF Workloads
  <2>2. CASE "trino" \notin ws
    <3>1. objects'["trino"] = objects["trino"]
      BY <1>2, <2>2, AppliedFacts DEF Workloads
    <3>. QED
      BY <2>1, <3>1 DEF OPABeforeTrino, TrinoGuarded
  <2>3. CASE "trino" \in ws
    <3>1. /\ objects'["trino"].oidc = local.oidc
          /\ objects'["trino"].fga = local.fga
      BY <1>2, <2>3, AppliedFacts DEF Workloads, Configured
    <3>. QED
      BY <1>2, <2>1, <2>3, <3>1
      DEF ConfigInv, OPABeforeTrino, TrinoGuarded
  <2>. QED
    BY <2>2, <2>3
<1>. QED
  BY <1>1, <1>2, ObjectSteps

-----------------------------------------------------------------------------
(***************************************************************************)
(* The theorems.                                                           *)
(***************************************************************************)

\* Nothing is claimed to begin with.
LEMMA InvInit == Init => Inv
<1>. SUFFICES ASSUME Init PROVE Inv
  OBVIOUS
<1>1. PICK s \in Specs : specs = <<s>>
  BY DEF Init
<1>2. /\ \A c \in Conditions : Unset[c] = [status |-> "Unknown", gen |-> 0]
      /\ Len(specs) = 1
      /\ "Ready" \in Conditions /\ "WarehouseReady" \in Conditions
  BY <1>1 DEF Unset, Conditions
<1>3. GenInv
  BY <1>2 DEF Init, GenInv, GenBound, NoPass
<1>4. PassInv /\ ConfigInv
  BY DEF Init, PassInv, ConfigInv, AfterPostgres, AfterStack
<1>5. ClaimInv /\ ReadyConsistent
  BY <1>2 DEF Init, ClaimInv, WarehouseClaim, NoPass, ReadyConsistent, Vouched
<1>6. OPABeforeTrino
  BY DEF Init, OPABeforeTrino, TrinoGuarded, Absent, Workloads
<1>. QED
  BY <1>3, <1>4, <1>5, <1>6, TypeInit DEF Inv

\* Inv is inductive.
LEMMA InvStep == Inv /\ [Next]_vars => Inv'
<1>. SUFFICES ASSUME Inv, [Next]_vars PROVE Inv'
  OBVIOUS
<1>1. TypeOK' /\ GenInv'
  BY TypePreserved, GenPreserved DEF Inv
<1>2. PassInv' /\ ConfigInv'
  BY PassPreserved, ConfigPreserved DEF Inv
<1>3. ClaimInv' /\ ReadyConsistent' /\ OPABeforeTrino'
  BY ClaimPreserved, ReadyPreserved, GuardPreserved DEF Inv
<1>. QED
  BY <1>1, <1>2, <1>3 DEF Inv

\* Inv is an inductive invariant of the operator.
THEOREM InvCorrect == Spec => []Inv
  BY InvInit, InvStep, PTL DEF Spec

\* A stored Ready=True vouches for every component condition of one
\* generation, whatever the interleaving of passes, edits, failures, refused
\* writes and crashes.
THEOREM ReadyCorrect == Spec => []ReadyConsistent
<1>1. Inv => ReadyConsistent
  BY DEF Inv
<1>. QED
  BY <1>1, InvCorrect, PTL

\* WarehouseReady=True of a generation with LakeKeeper is never a false claim,
\* in the API server or in any stale copy.
THEOREM WarehouseCorrect == Spec => []WarehouseTruth
<1>1. Inv => WarehouseTruth
  BY DEF Inv, ClaimInv, WarehouseClaim, WarehouseTruth
<1>. QED
  BY <1>1, InvCorrect, PTL

\* Trino is never pointed at an OPA that was not applied first.
THEOREM GuardCorrect == Spec => []OPABeforeTrino
<1>1. Inv => OPABeforeTrino
  BY DEF Inv
<1>. QED
  BY <1>1, InvCorrect, PTL

\* No step ever deploys LakeKeeper with a partial identity or authorization
\* configuration.
THEOREM LakekeeperCorrect == Spec => LakekeeperComplete
<1>1. Inv /\ [Next]_vars =>
        [objects'["lakekeeper"] # objects["lakekeeper"] =>
           /\ objects'["lakekeeper"].oidc = (Platform.auth # "off")
           /\ objects'["lakekeeper"].fga =
                  IF Platform.authz = "off" THEN "disabled" ELSE "full"]_vars
  <2>. SUFFICES ASSUME Inv, [Next]_vars,
                       objects'["lakekeeper"] # objects["lakekeeper"]
                PROVE  /\ objects'["lakekeeper"].oidc =
                              (Platform.auth # "off")
                       /\ objects'["lakekeeper"].fga =
                              IF Platform.authz = "off" THEN "disabled"
                                                        ELSE "full"
    OBVIOUS
  <2>1. PICK ws :
           /\ objects' = Applied(ws)
           /\ "lakekeeper" \in ws => pc = "lakekeeper" /\ LakekeeperAllowed
    BY ObjectSteps DEF Inv
  <2>2. TypeOK /\ ConfigInv
    BY DEF Inv
  <2>3. "lakekeeper" \in ws
    BY <2>1, <2>2, AppliedFacts DEF Workloads
  <2>4. /\ objects'["lakekeeper"].oidc = local.oidc
        /\ objects'["lakekeeper"].fga = local.fga
    BY <2>1, <2>2, <2>3, AppliedFacts DEF Workloads, Configured
  <2>. QED
    BY <2>1, <2>2, <2>3, <2>4 DEF ConfigInv, LakekeeperAllowed
<1>. QED
  BY <1>1, InvCorrect, PTL DEF Spec, LakekeeperComplete

=============================================================================
