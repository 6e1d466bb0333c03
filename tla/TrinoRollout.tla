---------------------------- MODULE TrinoRollout ----------------------------
(***************************************************************************)
(* How a change of spec.trino reaches the running Trino: reconcileTrino    *)
(* (trino.go) writes two Secrets with configuration, then a Deployment for *)
(* the coordinator and one for the workers, each annotated with a hash of  *)
(* that configuration.  A changed hash makes Kubernetes replace the pods,  *)
(* and a pod reads the Secrets when it starts and never again.             *)
(*                                                                         *)
(* The operator reads its objects from caches, one per kind, which lag     *)
(* behind the API server independently of each other.  Keycloak and        *)
(* Superset are rolled in the same way, with a ConfigMap for the Secrets.  *)
(* The pods followed here are the coordinator's.                           *)
(***************************************************************************)
EXTENDS Naturals, Sequences

CONSTANTS
    Orders,     \* orders in which extraCatalogs may be hashed: 1 with at most
                \* one extra catalog, 2 with two of them
    Workers,    \* the values of spec.trino.workers; 1 stands for all above 0
    MaxEdits,   \* bound: edits of the spec
    MaxFaults   \* bound: failed calls, operator restarts and lost pods

ASSUME RolloutAssumption ==
    /\ Orders \in Nat \ {0}
    /\ Workers # {} /\ Workers \subseteq 0 .. 1
    /\ MaxEdits \in Nat
    /\ MaxFaults \in Nat

VARIABLES
    want,       \* the spec: its configuration, numbered, and its workers
    edits,      \* edits made, at most MaxEdits
    restored,   \* whether an edit has left the configuration as it was and
                \* changed the workers only, or has restored an older one
    secrets,    \* the two Secrets as the API server had them, from what the
                \* cache shows (first) to what is stored (last)
    deploys,    \* the two Deployments, in the same way
    pods,       \* the pods of the coordinator
    pc,         \* the call that the pass makes next
    req,        \* the spec that the pass works on
    order,      \* the order in which this pass hashes the extra catalogs
    ready,      \* the condition TrinoReady
    faults      \* faults spent, at most MaxFaults

vars == <<want, edits, restored, secrets, deploys, pods, pc, req, order, ready,
          faults>>
spec == <<want, edits, restored>>
objects == <<secrets, deploys>>
operator == <<pc, req, order, ready>>

SpecType == [config : Nat \ {0}, workers : Workers]

\* What an object is made from; Nothing if there is none.  solo: the
\* coordinator schedules work on itself.  Only a hash depends on an order.
Content == [config : Nat \ {0}, solo : BOOLEAN, order : {0}]
Hash == [config : Nat \ {0}, solo : BOOLEAN, order : 1 .. Orders]
Nothing == [config |-> 0, solo |-> FALSE, order |-> 0]

\* up: the coordinator's status counts a ready pod.
SecretsType == [config : Content \cup {Nothing},
                catalog : Content \cup {Nothing}]
DeploysType == [coordinator : Hash \cup {Nothing},
                worker : Hash \cup {Nothing}, up : BOOLEAN]
PodType == [tmpl : Hash, config : Content \cup {Nothing},
            catalog : Content \cup {Nothing}]

Steps == {"idle", "config", "catalog", "coordinator", "worker", "check"}

Last(versions) == versions[Len(versions)]
Wanted(o) == Last(deploys)[o]

\* An update is refused if the object has changed since the cached version, if
\* only in its status.
Stale(versions, o) ==
    \E i \in DOMAIN versions :
        \/ versions[i][o] # versions[1][o]
        \/ o = "coordinator" /\ versions[i].up # versions[1].up

-----------------------------------------------------------------------------
(***************************************************************************)
(* The pass, one call at a time.                                           *)
(***************************************************************************)
Solo(s) == s.workers = 0

\* trinoConfigProperties and trinoCatalogData.
ConfigOf(s) == [config |-> s.config, solo |-> Solo(s), order |-> 0]
CatalogOf(s) == [config |-> s.config, solo |-> FALSE, order |-> 0]

\* Mutant: the hash leaves the catalogs and extra properties out.
HashOfPart(s) == [config |-> 1, solo |-> Solo(s), order |-> order]

\* Mutant: the hash covers a status, too.
HashOfStatus(s) == [config |-> s.config, solo |-> Solo(s),
                    order |-> IF ready THEN 1 ELSE 0]

\* The hash covers both Secrets, and the order of the catalogs' names.
HashOf(s) == [config |-> s.config, solo |-> Solo(s), order |-> order]

\* A call that fails ends the pass and makes the condition False.
Refused == pc' = "idle" /\ ready' = FALSE

\* CreateOrUpdate of object o, one of those in versions: it leaves alone what
\* the cache shows as wanted and writes the rest, unless the API server
\* refuses to create what exists or to update what has changed.
Apply(versions, o, content, next) ==
    \/ /\ versions[1][o] = content
       /\ pc' = next
       /\ UNCHANGED <<versions, ready>>
    \/ /\ versions[1][o] # content /\ ~Stale(versions, o)
       /\ versions' = Append(versions, [Last(versions) EXCEPT ![o] = content])
       /\ pc' = next
       /\ UNCHANGED ready
    \/ /\ versions[1][o] # content /\ Stale(versions, o)
       /\ Refused
       /\ UNCHANGED versions

Begin ==
    /\ pc = "idle"
    /\ req' = want
    /\ order' \in 1 .. Orders
    /\ pc' = "config"
    /\ UNCHANGED <<spec, objects, pods, ready, faults>>

\* Mutant: the Deployment comes first.
ApplyConfigLast ==
    /\ \/ /\ pc = "config"
          /\ Apply(deploys, "coordinator", HashOf(req), "catalog")
          /\ UNCHANGED secrets
       \/ /\ pc = "catalog"
          /\ Apply(secrets, "catalog", CatalogOf(req), "coordinator")
          /\ UNCHANGED deploys
       \/ /\ pc = "coordinator"
          /\ Apply(secrets, "config", ConfigOf(req), "worker")
          /\ UNCHANGED deploys
    /\ UNCHANGED <<spec, pods, req, order, faults>>

\* applyTrinoConfigMap, applyTrinoCatalogSecret and applyTrinoCoordinator.
ApplyConfig ==
    /\ \/ /\ pc = "config"
          /\ Apply(secrets, "config", ConfigOf(req), "catalog")
          /\ UNCHANGED deploys
       \/ /\ pc = "catalog"
          /\ Apply(secrets, "catalog", CatalogOf(req), "coordinator")
          /\ UNCHANGED deploys
       \/ /\ pc = "coordinator"
          /\ Apply(deploys, "coordinator", HashOf(req), "worker")
          /\ UNCHANGED secrets
    /\ UNCHANGED <<spec, pods, req, order, faults>>

\* Mutant: workers that are no longer wanted are left alone.
ReconcileWorkersKept ==
    /\ pc = "worker"
    /\ IF Solo(req) THEN pc' = "check" /\ UNCHANGED <<deploys, ready>>
                    ELSE Apply(deploys, "worker", HashOf(req), "check")
    /\ UNCHANGED <<spec, secrets, pods, req, order, faults>>

\* Without workers their Deployment is deleted by name, if the cache shows it.
ReconcileWorkers ==
    /\ pc = "worker"
    /\ \/ ~Solo(req) /\ Apply(deploys, "worker", HashOf(req), "check")
       \/ /\ Solo(req)
          /\ IF deploys[1].worker # Nothing /\ Wanted("worker") # Nothing
             THEN deploys' = Append(deploys,
                                    [Last(deploys) EXCEPT !.worker = Nothing])
             ELSE UNCHANGED deploys
          /\ pc' = "check"
          /\ UNCHANGED ready
    /\ UNCHANGED <<spec, secrets, pods, req, order, faults>>

\* Mutant: an object that is there is ready.
CheckExists ==
    /\ pc = "check"
    /\ ready' = (deploys[1].coordinator # Nothing)
    /\ pc' = "idle"
    /\ UNCHANGED <<spec, objects, pods, req, order, faults>>

\* deploymentReady: one ready pod is enough, whatever its template; it is an
\* error for the cache not to show the Deployment.
Check ==
    /\ pc = "check"
    /\ ready' = deploys[1].up
    /\ pc' = "idle"
    /\ UNCHANGED <<spec, objects, pods, req, order, faults>>

\* A call fails before or after its effect; or the operator restarts, which
\* leaves the condition as it is.
Fail ==
    /\ pc # "idle"
    /\ faults < MaxFaults
    /\ faults' = faults + 1
    /\ pc' = "idle"
    /\ ready' \in {FALSE, ready}
    /\ UNCHANGED <<spec, objects, pods, req, order>>

Handle == ApplyConfig \/ ReconcileWorkers \/ Check

-----------------------------------------------------------------------------
(***************************************************************************)
(* The cluster and the user.                                               *)
(***************************************************************************)

\* A cache advances by one version.
SyncSecrets ==
    /\ Len(secrets) > 1
    /\ secrets' = Tail(secrets)
    /\ UNCHANGED <<spec, deploys, pods, operator, faults>>

SyncDeploys ==
    /\ Len(deploys) > 1
    /\ deploys' = Tail(deploys)
    /\ UNCHANGED <<spec, secrets, pods, operator, faults>>

\* A pod has the template that it was made from and the Secrets that it read.
Loaded == {x \in pods : x.config # Nothing}
Current == {x \in pods : x.tmpl = Wanted("coordinator")}

StartPod ==
    /\ Wanted("coordinator") # Nothing
    /\ Current = {}
    /\ pods' = pods \cup {[tmpl |-> Wanted("coordinator"),
                           config |-> Nothing, catalog |-> Nothing]}
    /\ UNCHANGED <<spec, objects, operator, faults>>

LoadPod ==
    LET new == Last(secrets) IN
    /\ new.config # Nothing /\ new.catalog # Nothing
    /\ \E x \in pods \ Loaded :
           pods' = (pods \ {x}) \cup {[x EXCEPT !.config = new.config,
                                               !.catalog = new.catalog]}
    /\ UNCHANGED <<spec, objects, operator, faults>>

\* A rolling update keeps a ready pod until a new one is ready.
RetirePod ==
    /\ \E x \in pods \ Current :
           /\ x \notin Loaded \/ Loaded \cap Current # {}
           /\ pods' = pods \ {x}
    /\ UNCHANGED <<spec, objects, operator, faults>>

LosePod ==
    /\ faults < MaxFaults
    /\ faults' = faults + 1
    /\ \E x \in pods : pods' = pods \ {x}
    /\ UNCHANGED <<spec, objects, operator>>

\* The Deployment controller writes the status, which makes a new version.
ReportStatus ==
    /\ Wanted("coordinator") # Nothing
    /\ Last(deploys).up # (Loaded # {})
    /\ deploys' = Append(deploys, [Last(deploys) EXCEPT !.up = ~@])
    /\ UNCHANGED <<spec, secrets, pods, operator, faults>>

EditSpec ==
    /\ edits < MaxEdits
    /\ edits' = edits + 1
    /\ \E config \in 1 .. edits + 2, workers \in Workers :
          /\ want' = [config |-> config, workers |-> workers]
          /\ want' # want
          /\ restored' = (restored \/ config # edits + 2)
    /\ UNCHANGED <<objects, pods, operator, faults>>

Init ==
    /\ want \in [config : {1}, workers : Workers]
    /\ edits = 0
    /\ restored = FALSE
    /\ secrets = <<[config |-> Nothing, catalog |-> Nothing]>>
    /\ deploys = <<[coordinator |-> Nothing, worker |-> Nothing, up |-> FALSE]>>
    /\ pods = {}
    /\ pc = "idle"
    /\ req = want
    /\ order = 1
    /\ ready = FALSE
    /\ faults = 0

Next ==
    \/ Begin
    \/ Handle
    \/ Fail
    \/ SyncSecrets \/ SyncDeploys
    \/ StartPod \/ LoadPod \/ RetirePod \/ LosePod \/ ReportStatus
    \/ EditSpec

\* The operator is called again by the events of what it owns and by its
\* timers; caches catch up and the Deployment controller does its work.
Fairness ==
    /\ WF_vars(Begin) /\ WF_vars(Handle)
    /\ WF_vars(SyncSecrets) /\ WF_vars(SyncDeploys)
    /\ WF_vars(StartPod) /\ WF_vars(LoadPod) /\ WF_vars(RetirePod)
    /\ WF_vars(ReportStatus)

Spec == Init /\ [][Next]_vars
FairSpec == Spec /\ Fairness

-----------------------------------------------------------------------------
(***************************************************************************)
(* Properties.                                                             *)
(***************************************************************************)

TypeOK ==
    /\ want \in SpecType
    /\ edits \in 0 .. MaxEdits
    /\ restored \in BOOLEAN
    /\ secrets \in Seq(SecretsType) /\ secrets # << >>
    /\ deploys \in Seq(DeploysType) /\ deploys # << >>
    /\ pods \subseteq PodType
    /\ pc \in Steps
    /\ req \in SpecType
    /\ order \in 1 .. Orders
    /\ ready \in BOOLEAN
    /\ faults \in 0 .. MaxFaults

\* A pod never runs a configuration older than the one its Deployment was
\* rolled for, whatever calls failed and whenever it started: the Secrets are
\* written before the hash.  (Configurations are numbered in their order; the
\* promise ends with the first edit that brings no new configuration: one that
\* takes an older one up again, or that changes the workers only.)
PodsNotStale ==
    ~restored =>
        \A x \in Loaded : /\ x.config.config >= x.tmpl.config
                          /\ x.catalog.config >= x.tmpl.config

\* The coordinator is rolled for a newer configuration or not at all, although
\* the passes work from caches that lag: it never goes back to one that was
\* replaced, and is never restarted for nothing.  (Again until the first edit
\* without a new configuration: workers that come or go roll it, too.)
RollsForward ==
    [][LET old == Wanted("coordinator")
           new == Wanted("coordinator")'
       IN ~restored' /\ old # Nothing /\ new # old
              => new.config > old.config]_vars

\* When the edits end, TrinoReady comes to be True, a Deployment of workers is
\* there just if it is wanted, and every pod runs exactly what the spec says;
\* deploymentReady may have counted a pod of the previous template before.
\* Of what the pods run nothing is said after an edit without a new
\* configuration: when an older one, or older workers, are restored, a pod that
\* loaded the Secrets in between is kept, since its hash fits again.
Converges ==
    <>[](/\ ready
         /\ pods # {}
         /\ (Wanted("worker") # Nothing) <=> (want.workers > 0)
         /\ ~restored =>
                \A x \in pods :
                    x.config = ConfigOf(want) /\ x.catalog = CatalogOf(want))

\* TrinoReady is not kept up by the mere objects: the operator vouches for
\* the coordinator only after one of its pods was ready.
ReadyAfterPod ==
    ready => Loaded # {} \/ faults > 0
=============================================================================
