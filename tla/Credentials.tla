---------------------------- MODULE Credentials ----------------------------
(***************************************************************************)
(* Generated secrets and the objects made from them: the Keycloak part of  *)
(* a reconcile pass (keycloak.go), the copy of OPA's client secret         *)
(* (opa.go), and the helpers both use (apply.go, namespace.go).            *)
(*                                                                         *)
(* One worker reconciles the DataPlatforms in turn.  It reads every object *)
(* from an informer's cache and writes to the API server, which refuses to *)
(* create what exists and to update what has changed since it was read.    *)
(* Pods read their configuration when they start and never again.          *)
(***************************************************************************)
EXTENDS Naturals, Sequences, FiniteSets

CONSTANTS
    Platforms,  \* DataPlatform resources
    None,       \* no platform
    Namespaces, \* namespaces of the cluster
    KcNs,       \* spec.auth.keycloak.namespace of each platform
    FgaNs,      \* spec.authz.openFGA.namespace of each platform
    MaxDeletes, \* bound: generated Secrets that an administrator deletes
    MaxFaults   \* bound: failed calls, operator restarts and lost pods

ASSUME PlatformsAssumption == Platforms # {} /\ None \notin Platforms
ASSUME NamespacesAssumption ==
    /\ KcNs \in [Platforms -> Namespaces]
    /\ FgaNs \in [Platforms -> Namespaces]
ASSUME CredentialBounds == MaxDeletes \in Nat /\ MaxFaults \in Nat

VARIABLES
    view,       \* the versions of each object from the one that the cache
                \* shows (first) to the one that the API server holds (last)
    pods,       \* the pods of each Deployment
    who,        \* the platform of the current pass, None between passes
    pc,         \* the call that the pass makes next
    got,        \* the secrets that the pass has read
    made,       \* secrets generated so far; their numbers are their values
    deletes,    \* Secrets deleted by hand, at most MaxDeletes
    faults      \* faults spent, at most MaxFaults

vars == <<view, pods, who, pc, got, made, deletes, faults>>
budget == <<deletes, faults>>

\* The signing key of the realm, and two client secrets: trino stands also
\* for the operator's, which is never added to a Secret that lacks it, and
\* opa for Superset's, which is.
Fields == {"key", "trino", "opa"}
Content == [Fields -> Nat]
Blank == [f \in Fields |-> 0]

\* A Deployment's content is what its config-hash annotation was made from.
Kinds == {"namespace", "signing-key", "oidc", "realm", "keycloak", "opa"}
Objects == Kinds \X Namespaces
Generated == {"signing-key", "oidc"} \X Namespaces
Workloads == {"keycloak", "opa"} \X Namespaces

Absent == [owner |-> None, data |-> Blank]
Object == [owner : Platforms, data : Content]

Cached(o) == view[o][1]
Stored(o) == view[o][Len(view[o])]
Write(o, x) == view' = [view EXCEPT ![o] = Append(@, x)]

\* The objects that the pass is about.
Kc(kind) == <<kind, KcNs[who]>>
Fga(kind) == <<kind, FgaNs[who]>>

Steps == {"idle", "namespace", "signing-key", "oidc", "trino", "opa", "key",
          "realm", "keycloak", "config", "opa secret", "opa deploy"}

Continue(step) ==
    /\ pc' = step
    /\ who' = IF step = "idle" THEN None ELSE who
Stop == Continue("idle")

\* A secret is generated for a call that may be refused; only the stored
\* ones are numbered.
Number(o, n) == made' = IF Len(view'[o]) > Len(view[o]) THEN made + n ELSE made

-----------------------------------------------------------------------------
(***************************************************************************)
(* apply.go: the two ways to write an object.                              *)
(***************************************************************************)

\* Create is refused when the API server has the object, whatever the cache
\* shows; the error ends the pass.
Create(o, x, next) ==
    \/ Stored(o) = Absent /\ Write(o, x) /\ Continue(next)
    \/ Stored(o) # Absent /\ Stop /\ UNCHANGED view

\* Update is refused when the API server has a later version than the cache.
Update(o, x, next) ==
    \/ Len(view[o]) = 1 /\ Write(o, x) /\ Continue(next)
    \/ Len(view[o]) > 1 /\ Stop /\ UNCHANGED view

\* Mutant: no controller reference is set.
ApplyUnowned(o, data, next) ==
    LET x == [owner |-> who, data |-> data] IN
    \/ Cached(o) = Absent /\ Create(o, x, next)
    \/ Cached(o) # Absent /\ Cached(o) # x /\ Update(o, x, next)
    \/ Cached(o) = x /\ Continue(next) /\ UNCHANGED view

\* CreateOrUpdate with SetControllerReference, which fails for an object of
\* another owner.  An object that needs no change is not written.
Apply(o, data, next) ==
    LET x == [owner |-> who, data |-> data] IN
    \/ Cached(o) = Absent /\ Create(o, x, next)
    \/ Cached(o) \notin {Absent, x} /\ Cached(o).owner = who /\ Update(o, x, next)
    \/ Cached(o) = x /\ Continue(next) /\ UNCHANGED view
    \/ Cached(o).owner \notin {None, who} /\ Stop /\ UNCHANGED view

-----------------------------------------------------------------------------
(***************************************************************************)
(* The pass, one call at a time.                                           *)
(***************************************************************************)

Begin(p) ==
    /\ pc = "idle"
    /\ who' = p
    /\ pc' = "namespace"
    /\ got' = Blank
    /\ UNCHANGED <<view, pods, made, budget>>

EnsureNamespace ==
    /\ pc = "namespace"
    /\ \/ Cached(Kc("namespace")) = Absent
          /\ Create(Kc("namespace"), [owner |-> who, data |-> Blank],
                    "signing-key")
       \/ Cached(Kc("namespace")) # Absent
          /\ Continue("signing-key") /\ UNCHANGED view
    /\ UNCHANGED <<pods, got, made, budget>>

\* Mutant: the key is written without asking whether it exists.
EnsureRealmKeyOverwriting ==
    /\ pc = "signing-key"
    /\ IF Cached(Kc("signing-key")) = Absent
       THEN /\ Write(Kc("signing-key"),
                     [owner |-> who,
                      data |-> [Blank EXCEPT !.key = made + 1]])
            /\ made' = made + 1
       ELSE UNCHANGED <<view, made>>
    /\ Continue("oidc")
    /\ UNCHANGED <<pods, got, budget>>

\* Mutant: the Secret is made without an owner.
EnsureRealmKeyOrphan ==
    /\ pc = "signing-key"
    /\ IF Cached(Kc("signing-key")) = Absent
       THEN /\ Create(Kc("signing-key"),
                      [owner |-> None,
                       data |-> [Blank EXCEPT !.key = made + 1]], "oidc")
            /\ Number(Kc("signing-key"), 1)
       ELSE Continue("oidc") /\ UNCHANGED <<view, made>>
    /\ UNCHANGED <<pods, got, budget>>

EnsureRealmKey ==
    /\ pc = "signing-key"
    /\ \/ /\ Cached(Kc("signing-key")) = Absent
          /\ Create(Kc("signing-key"),
                    [owner |-> who, data |-> [Blank EXCEPT !.key = made + 1]],
                    "oidc")
          /\ Number(Kc("signing-key"), 1)
       \/ /\ Cached(Kc("signing-key")) # Absent
          /\ Continue("oidc")
          /\ UNCHANGED <<view, made>>
    /\ UNCHANGED <<pods, got, budget>>

\* Mutant: secrets are not added to a Secret of an older operator.
EnsureOIDCSecretFixed ==
    /\ pc = "oidc"
    /\ IF Cached(Kc("oidc")) = Absent
       THEN /\ Create(Kc("oidc"), [owner |-> who,
                                  data |-> [Blank EXCEPT !.trino = made + 1,
                                                         !.opa = made + 2]],
                      "trino")
            /\ Number(Kc("oidc"), 2)
       ELSE Continue("trino") /\ UNCHANGED <<view, made>>
    /\ UNCHANGED <<pods, got, budget>>

\* ensureOIDCSecretKeys adds OPA's secret to a Secret that has none, whoever
\* owns it.
EnsureOIDCSecret ==
    LET o == Kc("oidc") IN
    /\ pc = "oidc"
    /\ \/ /\ Cached(o) = Absent
          /\ Create(o, [owner |-> who,
                        data |-> [Blank EXCEPT !.trino = made + 1,
                                               !.opa = made + 2]], "trino")
          /\ Number(o, 2)
       \/ /\ Cached(o) # Absent /\ Cached(o).data.opa = 0
          /\ Update(o, [owner |-> Cached(o).owner,
                        data |-> [Cached(o).data EXCEPT !.opa = made + 1]],
                    "trino")
          /\ Number(o, 1)
       \/ /\ Cached(o) # Absent /\ Cached(o).data.opa # 0
          /\ Continue("trino")
          /\ UNCHANGED <<view, made>>
    /\ UNCHANGED <<pods, got, budget>>

\* getSecretData: a Secret or a key that the cache does not show is an error.
Read(o, field, next) ==
    \/ /\ Cached(o).data[field] # 0
       /\ got' = [got EXCEPT ![field] = Cached(o).data[field]]
       /\ Continue(next)
    \/ /\ Cached(o).data[field] = 0
       /\ Stop
       /\ UNCHANGED got

ReadSecrets ==
    /\ \/ pc = "trino" /\ Read(Kc("oidc"), "trino", "opa")
       \/ pc = "opa" /\ Read(Kc("oidc"), "opa", "key")
       \/ pc = "key" /\ Read(Kc("signing-key"), "key", "realm")
    /\ UNCHANGED <<view, pods, made, budget>>

\* The Deployment is applied with the hash of the realm as it was rendered.
ApplyRealm ==
    /\ pc = "realm"
    /\ Apply(Kc("realm"), got, "keycloak")
    /\ UNCHANGED <<pods, got, made, budget>>

\* Mutant: the hash annotation is written once.
ApplyKeycloakOnce ==
    /\ pc = "keycloak"
    /\ IF Cached(Kc("keycloak")) = Absent
       THEN Apply(Kc("keycloak"), got, "config")
       ELSE Continue("config") /\ UNCHANGED view
    /\ UNCHANGED <<pods, got, made, budget>>

ApplyKeycloak ==
    /\ pc = "keycloak"
    /\ Apply(Kc("keycloak"), got, "config")
    /\ UNCHANGED <<pods, got, made, budget>>

\* embeddedOIDCConfig reads the client secrets again.  Whether Keycloak has a
\* ready pod only decides AuthReady: the pass goes on to OPA either way.
ReadConfig ==
    LET data == Cached(Kc("oidc")).data IN
    /\ pc = "config"
    /\ \/ /\ data.trino # 0 /\ data.opa # 0
          /\ got' = [got EXCEPT !.trino = data.trino, !.opa = data.opa]
          /\ Continue("opa secret")
       \/ /\ data.trino = 0 \/ data.opa = 0
          /\ Stop
          /\ UNCHANGED got
    /\ UNCHANGED <<view, pods, made, budget>>

\* Mutant: the copy is made once.
ApplyOPASecretOnce ==
    /\ pc = "opa secret"
    /\ \/ /\ Cached(Fga("oidc")) = Absent
          /\ Apply(Fga("oidc"), [Blank EXCEPT !.opa = got.opa], "opa deploy")
       \/ /\ Cached(Fga("oidc")) # Absent
          /\ Continue("opa deploy")
          /\ UNCHANGED view
    /\ UNCHANGED <<pods, got, made, budget>>

\* The copy replaces all data of a Secret of that name.
ApplyOPASecret ==
    /\ pc = "opa secret"
    /\ Apply(Fga("oidc"), [Blank EXCEPT !.opa = got.opa], "opa deploy")
    /\ UNCHANGED <<pods, got, made, budget>>

\* The Deployment carries no hash of the Secret that its pod reads.
ApplyOPADeployment ==
    /\ pc = "opa deploy"
    /\ Apply(Fga("opa"), Blank, "idle")
    /\ UNCHANGED <<pods, got, made, budget>>

\* A call fails, before or after its effect, or the operator restarts.
Fail ==
    /\ pc # "idle"
    /\ faults < MaxFaults
    /\ faults' = faults + 1
    /\ Stop
    /\ UNCHANGED <<view, pods, got, made, deletes>>

Handle ==
    \/ EnsureNamespace \/ EnsureRealmKey \/ EnsureOIDCSecret \/ ReadSecrets
    \/ ApplyRealm \/ ApplyKeycloak \/ ReadConfig
    \/ ApplyOPASecret \/ ApplyOPADeployment

-----------------------------------------------------------------------------
(***************************************************************************)
(* The cluster.                                                            *)
(***************************************************************************)
operator == <<who, pc, got, made>>

\* The informer's cache advances by one version.
Sync(o) ==
    /\ Len(view[o]) > 1
    /\ view' = [view EXCEPT ![o] = Tail(@)]
    /\ UNCHANGED <<pods, operator, budget>>

\* What the pods of a Deployment load when they start.  Keycloak imports the
\* realm into an emptyDir; OPA's Secret is an environment variable.
Source(w) == IF w[1] = "keycloak" THEN <<"realm", w[2]>> ELSE <<"oidc", w[2]>>
Loadable(w) ==
    LET x == Stored(Source(w)) IN
    IF w[1] = "keycloak" THEN x.data ELSE [Blank EXCEPT !.opa = x.data.opa]

\* The pods that are ready.
Loaded(w) == {x \in pods[w] : x.got # Blank}

StartPod(w) ==
    LET new == [tmpl |-> Stored(w).data, got |-> Blank] IN
    /\ Stored(w) # Absent
    /\ \A x \in pods[w] : x.tmpl # new.tmpl
    /\ pods' = [pods EXCEPT ![w] = @ \cup {new}]
    /\ UNCHANGED <<view, operator, budget>>

LoadPod(w) ==
    /\ Loadable(w) # Blank
    /\ \E x \in pods[w] \ Loaded(w) :
           pods' = [pods EXCEPT ![w] = (@ \ {x})
                                       \cup {[x EXCEPT !.got = Loadable(w)]}]
    /\ UNCHANGED <<view, operator, budget>>

\* A rolling update keeps a ready pod until one of the new template is ready.
RetirePod(w) ==
    /\ \E x \in pods[w] :
           /\ x.tmpl # Stored(w).data
           /\ \/ x \notin Loaded(w)
              \/ \E y \in Loaded(w) : y.tmpl = Stored(w).data
           /\ pods' = [pods EXCEPT ![w] = @ \ {x}]
    /\ UNCHANGED <<view, operator, budget>>

LosePod(w) ==
    /\ faults < MaxFaults
    /\ faults' = faults + 1
    /\ \E x \in pods[w] : pods' = [pods EXCEPT ![w] = @ \ {x}]
    /\ UNCHANGED <<view, operator, deletes>>

RunPods(w) == StartPod(w) \/ LoadPod(w) \/ RetirePod(w)

DeleteSecret(o) ==
    /\ deletes < MaxDeletes
    /\ deletes' = deletes + 1
    /\ Stored(o) # Absent
    /\ Write(o, Absent)
    /\ UNCHANGED <<pods, operator, faults>>

-----------------------------------------------------------------------------
\* What an operator left that knew no signing key and no OPA.
Old == [Blank EXCEPT !.trino = 1]
OldObject(o) ==
    IF \E p \in Platforms : KcNs[p] = o[2]
    THEN [owner |-> CHOOSE p \in Platforms : KcNs[p] = o[2],
          data |-> IF o[1] = "namespace" THEN Blank ELSE Old]
    ELSE Absent
OldKinds == {"namespace", "oidc", "realm", "keycloak"}

\* An empty cluster, or one with an older operator's objects.
InitObjects(upgraded) ==
    /\ view = [o \in Objects |->
                  IF upgraded /\ o[1] \in OldKinds THEN <<OldObject(o)>>
                                                   ELSE <<Absent>>]
    /\ made = (IF upgraded THEN 1 ELSE 0)

Init ==
    /\ \E upgraded \in BOOLEAN : InitObjects(upgraded)
    /\ pods = [w \in Workloads |->
                  IF w[1] = "keycloak" /\ Stored(w) # Absent
                  THEN {[tmpl |-> Old, got |-> Old]} ELSE {}]
    /\ who = None
    /\ pc = "idle"
    /\ got = Blank
    /\ deletes = 0
    /\ faults = 0

Next ==
    \/ \E p \in Platforms : Begin(p)
    \/ Handle
    \/ Fail
    \/ \E o \in Objects : Sync(o)
    \/ \E w \in Workloads : RunPods(w) \/ LosePod(w)
    \/ \E p \in Platforms, kind \in {"signing-key", "oidc"} :
           DeleteSecret(<<kind, KcNs[p]>>)

\* The work queue is first in, first out, and an unfinished or failed pass
\* is queued again, so every platform gets its turn.  Informers deliver, and
\* the Deployment controller acts.
Fairness ==
    /\ \A p \in Platforms : SF_vars(Begin(p))
    /\ WF_vars(Handle)
    /\ \A o \in Objects : WF_vars(Sync(o))
    /\ \A w \in Workloads :
           WF_vars(StartPod(w)) /\ WF_vars(LoadPod(w)) /\ WF_vars(RetirePod(w))

Spec == Init /\ [][Next]_vars
FairSpec == Spec /\ Fairness

-----------------------------------------------------------------------------
(***************************************************************************)
(* Properties.                                                             *)
(***************************************************************************)

\* Every version of an object is absent or has one of the platforms as its
\* owner, and pods hold contents.
TypeOK ==
    /\ view \in [Objects -> Seq(Object \cup {Absent})]
    /\ \A o \in Objects : view[o] # << >>
    /\ pods \in [Workloads -> SUBSET [tmpl : Content, got : Content]]
    /\ who \in Platforms \cup {None}
    /\ pc \in Steps
    /\ (who = None) <=> (pc = "idle")
    /\ got \in Content
    /\ made \in Nat
    /\ deletes \in 0 .. MaxDeletes
    /\ faults \in 0 .. MaxFaults

\* The realm's signing key in namespace n, and the keys that the running
\* Keycloak pods there sign with.
SigningKey(n) == Stored(<<"signing-key", n>>).data.key
Imported(n) == {x.got.key : x \in Loaded(<<"keycloak", n>>)} \ {0}

SigningKeys == [n \in Namespaces |-> SigningKey(n)]
ImportedKeys == [n \in Namespaces |-> Imported(n)]

Keys == INSTANCE WriteOnce WITH Secrets <- Namespaces, value <- SigningKeys,
                                inUse <- ImportedKeys

\* The signing key is generated once and every Keycloak pod signs with it,
\* although the Secret is looked up in a cache that may not show it yet, two
\* platforms may share the namespace, and pods lose their database
\* (ensureKeycloakRealmKey: "without importing a stable key every pod
\* recreate would resign with a fresh key").
KeyIsWriteOnce == Keys!Spec

\* An applied object is only ever written by a pass of its owner.
Applied == {"realm", "keycloak", "opa"} \X Namespaces
OwnerWrites ==
    [][\A o \in Applied :
          Stored(o)' # Stored(o) /\ Stored(o) # Absent
          => Stored(o).owner = who]_vars

\* The realm and the Keycloak that imports it belong to the same platform,
\* whichever of the platforms that compete for a namespace made its secrets
\* (those are shared without asking for an owner).
OneOwner ==
    \A n \in Namespaces :
        LET deploy == Stored(<<"keycloak", n>>) IN
        deploy # Absent => deploy.owner = Stored(<<"realm", n>>).owner

\* The secrets of namespace n as the API server has them.
Secrets(n) == [key |-> SigningKey(n),
               trino |-> Stored(<<"oidc", n>>).data.trino,
               opa |-> Stored(<<"oidc", n>>).data.opa]

\* In the end every Keycloak accepts exactly the secrets that are stored,
\* also after a Secret was deleted and generated again.
KeycloakConverges ==
    <>[](\A n \in {KcNs[p] : p \in Platforms} :
             /\ \A f \in Fields : Secrets(n)[f] # 0
             /\ pods[<<"keycloak", n>>] # {}
             /\ \A x \in pods[<<"keycloak", n>>] : x.got = Secrets(n))

\* In the end OPA's Secret is a copy of the secret that Keycloak knows, also
\* after that one was deleted and generated again in the middle of a pass, so
\* that every OPA pod that starts then logs in.  A pod that runs already is
\* rolled by nothing (applyOPADeployment has no hash of the Secret): it holds
\* another secret only if one was deleted.
OPAConverges ==
    \A p \in Platforms :
        LET known == Secrets(KcNs[p]).opa
            opa == <<"opa", FgaNs[p]>>
        IN  <>[](/\ known # 0
                 /\ Stored(Source(opa)).data = [Blank EXCEPT !.opa = known]
                 /\ pods[opa] # {}
                 /\ deletes = 0 => \A x \in pods[opa] : x.got.opa = known)
=============================================================================
