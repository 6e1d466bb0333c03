------------------------ MODULE TrinoRollout_proofs ------------------------
(***************************************************************************)
(* Proofs about TrinoRollout for all bounds, any lag of the caches and any *)
(* number of edits.                                                        *)
(***************************************************************************)
EXTENDS TrinoRollout, SequenceTheorems, TLAPS

\* v is a version that the cache shows, will show, or that is stored.
Among(v, versions) == \E i \in 1..Len(versions) : versions[i] = v

\* Configurations are numbered in the order of the edits, and everything the
\* operator has written is for the configuration of its pass or an older one.
Forward ==
    /\ want.config = edits + 1
    /\ req.config <= want.config
    /\ req.config = want.config => req = want
    /\ \A v \in SecretsType : Among(v, secrets) =>
          v.config.config <= req.config /\ v.catalog.config <= req.config
    /\ \A v \in DeploysType : Among(v, deploys) =>
          /\ v.coordinator.config <= req.config
          /\ v.coordinator.config = req.config =>
                v.coordinator.solo = Solo(req)

\* Both Secrets are at configuration n or past it.
Reached(n) ==
    /\ n <= Last(secrets).config.config
    /\ n <= Last(secrets).catalog.config

\* The Secrets only advance, and no hash is ahead of them.
SecretsFirst ==
    /\ \A v \in SecretsType : Among(v, secrets) =>
          /\ v.config.config <= Last(secrets).config.config
          /\ v.catalog.config <= Last(secrets).catalog.config
    /\ pc \in {"catalog", "coordinator"} =>
          req.config <= Last(secrets).config.config
    /\ pc = "coordinator" => req.config <= Last(secrets).catalog.config
    /\ Reached(Last(deploys).coordinator.config)
    /\ \A x \in pods : Reached(x.tmpl.config)
    /\ \A x \in Loaded : /\ x.config.config >= x.tmpl.config
                         /\ x.catalog.config >= x.tmpl.config

RolloutInv == ~restored => Forward /\ SecretsFirst

\* A status that counts a ready pod, known or yet to be seen, is true to the
\* pods as long as none is lost.
UpInv ==
    faults = 0 =>
        /\ (\E v \in DeploysType : Among(v, deploys) /\ v.up) => Loaded # {}
        /\ ready => Loaded # {}

-----------------------------------------------------------------------------
(***************************************************************************)
(* Versions.                                                               *)
(***************************************************************************)

\* A write adds a version that the cache has not seen.
LEMMA VersionAdded ==
    ASSUME NEW T, NEW s \in Seq(T), s # << >>, NEW w \in T
    PROVE  /\ Append(s, w) \in Seq(T) /\ Append(s, w) # << >>
           /\ Last(Append(s, w)) = w
           /\ \A v : Among(v, Append(s, w)) => Among(v, s) \/ v = w
<1>1. /\ Append(s, w) \in Seq(T) /\ Len(Append(s, w)) = Len(s) + 1
      /\ \A i \in 1..Len(s) : Append(s, w)[i] = s[i]
      /\ Append(s, w)[Len(s) + 1] = w
      /\ Len(s) \in Nat
  BY AppendProperties, LenProperties
<1>2. Append(s, w) # << >>
  BY <1>1, EmptySeq
<1>3. ASSUME NEW v, Among(v, Append(s, w)) PROVE Among(v, s) \/ v = w
  <2>1. PICK i \in 1..Len(Append(s, w)) : Append(s, w)[i] = v
    BY <1>3 DEF Among
  <2>2. i \in 1..Len(s) \/ i = Len(s) + 1
    BY <1>1
  <2> QED
    BY <1>1, <2>1, <2>2 DEF Among
<1> QED
  BY <1>1, <1>2, <1>3 DEF Last

\* The cache moves on to the next version.
LEMMA VersionSeen ==
    ASSUME NEW T, NEW s \in Seq(T), Len(s) > 1
    PROVE  /\ Tail(s) \in Seq(T) /\ Tail(s) # << >>
           /\ Last(Tail(s)) = Last(s)
           /\ \A v : Among(v, Tail(s)) => Among(v, s)
<1>1. s # << >> /\ Len(s) \in Nat
  BY EmptySeq, LenProperties
<1>2. /\ Tail(s) \in Seq(T) /\ Len(Tail(s)) = Len(s) - 1
      /\ \A i \in 1..Len(Tail(s)) : Tail(s)[i] = s[i + 1]
  BY <1>1, HeadTailProperties
<1>3. Len(Tail(s)) \in 1..Len(Tail(s)) /\ Len(Tail(s)) + 1 = Len(s)
  BY <1>1, <1>2
<1>4. Tail(s) # << >>
  <2>1. Len(Tail(s)) # 0
    BY <1>1, <1>2
  <2>2. Len(<< >>) = 0
    BY EmptySeq
  <2> QED
    BY <2>1, <2>2
<1>5. ASSUME NEW v, Among(v, Tail(s)) PROVE Among(v, s)
  <2>1. PICK i \in 1..Len(Tail(s)) : Tail(s)[i] = v
    BY <1>5 DEF Among
  <2>2. i + 1 \in 1..Len(s)
    BY <1>1, <1>2
  <2> QED
    BY <1>2, <2>1, <2>2 DEF Among
<1> QED
  BY <1>2, <1>3, <1>4, <1>5 DEF Last

\* What the cache shows and what is stored are versions.
LEMMA VersionEnds ==
    ASSUME NEW T, NEW s \in Seq(T), s # << >>
    PROVE  /\ s[1] \in T /\ Among(s[1], s)
           /\ Last(s) \in T /\ Among(Last(s), s)
<1>1. Len(s) \in Nat \ {0}
  BY EmptySeq
<1>2. 1 \in 1..Len(s) /\ Len(s) \in 1..Len(s)
  BY <1>1
<1> QED
  BY <1>2, ElementOfSeq DEF Among, Last

\* An object that is not stale is in all versions as it is in the last one.
LEMMA NotStale ==
    ASSUME NEW T, NEW s \in Seq(T), s # << >>, NEW o, ~Stale(s, o)
    PROVE  \A v : Among(v, s) => v[o] = Last(s)[o]
<1>1. DOMAIN s = 1..Len(s)
  BY LenProperties
<1>2. \A i \in 1..Len(s) : s[i][o] = s[1][o]
  BY <1>1 DEF Stale
<1>3. Len(s) \in 1..Len(s)
  <2>1. Len(s) \in Nat \ {0}
    BY EmptySeq
  <2> QED
    BY <2>1
<1> QED
  BY <1>2, <1>3 DEF Among, Last

-----------------------------------------------------------------------------
(***************************************************************************)
(* Records.                                                                *)
(***************************************************************************)

Contents == Content \cup {Nothing}
Hashes == Hash \cup {Nothing}

\* What is not there has number 0 and is no hash and no content.
LEMMA NothingFields ==
    /\ Nothing.config = 0
    /\ Nothing \notin Hash /\ Nothing \notin Content
<1>1. Nothing.config = 0
  BY DEF Nothing
<1>2. \A c \in Content : c.config # 0
  BY DEF Content
<1>3. \A h \in Hash : h.config # 0
  BY DEF Hash
<1> QED
  BY <1>1, <1>2, <1>3

\* Every content of a Secret has the number of its configuration.
LEMMA ContentNumber == \A c \in Contents : c.config \in Nat
<1>1. \A c \in Content : c.config \in Nat
  BY DEF Content
<1> QED
  BY <1>1, NothingFields DEF Contents

\* Every hash, that of a missing Deployment too, has a number.
LEMMA HashNumber == \A h \in Hashes : h.config \in Nat
<1>1. \A h \in Hash : h.config \in Nat
  BY DEF Hash
<1> QED
  BY <1>1, NothingFields DEF Hashes

\* trinoConfigProperties, trinoCatalogData and their hash.
LEMMA Made ==
    ASSUME NEW s \in SpecType, order \in 1..Orders
    PROVE  /\ ConfigOf(s) \in Content /\ ConfigOf(s).config = s.config
           /\ CatalogOf(s) \in Content /\ CatalogOf(s).config = s.config
           /\ HashOf(s) \in Hash /\ HashOf(s).config = s.config
           /\ HashOf(s).solo = Solo(s) /\ HashOf(s).order = order
           /\ s.config \in Nat \ {0}
<1>1. s.config \in Nat \ {0} /\ Solo(s) \in BOOLEAN
  BY DEF SpecType, Solo
<1> QED
  BY <1>1 DEF ConfigOf, CatalogOf, HashOf, Content, Hash

\* A version of the two Secrets has a content for each.
LEMMA SecretFields ==
    ASSUME NEW v \in SecretsType
    PROVE  v.config \in Contents /\ v.catalog \in Contents
BY DEF SecretsType, Contents

\* A version of the Deployments has a hash for each and the status.
LEMMA DeployFields ==
    ASSUME NEW v \in DeploysType
    PROVE  /\ v.coordinator \in Hashes /\ v.worker \in Hashes
           /\ v.up \in BOOLEAN
BY DEF DeploysType, Hashes

\* A pod has the template it was made from and the Secrets it has loaded.
LEMMA PodFields ==
    ASSUME NEW x \in PodType
    PROVE  x.tmpl \in Hash /\ x.config \in Contents /\ x.catalog \in Contents
BY DEF PodType, Contents

\* One object of two is written.
LEMMA ConfigWritten ==
    ASSUME NEW v \in SecretsType, NEW c \in Contents
    PROVE  LET w == [v EXCEPT !["config"] = c]
           IN  w \in SecretsType /\ w.config = c /\ w.catalog = v.catalog
BY DEF SecretsType, Contents

\* Applying the catalog Secret leaves the config Secret as it is.
LEMMA CatalogWritten ==
    ASSUME NEW v \in SecretsType, NEW c \in Contents
    PROVE  LET w == [v EXCEPT !["catalog"] = c]
           IN  w \in SecretsType /\ w.catalog = c /\ w.config = v.config
BY DEF SecretsType, Contents

\* Applying the coordinator's Deployment leaves the status as it is.
LEMMA CoordinatorWritten ==
    ASSUME NEW v \in DeploysType, NEW h \in Hashes
    PROVE  LET w == [v EXCEPT !["coordinator"] = h]
           IN  w \in DeploysType /\ w.coordinator = h /\ w.up = v.up
BY DEF DeploysType, Hashes

\* Applying or deleting the worker's Deployment leaves the coordinator's.
LEMMA WorkerWritten ==
    ASSUME NEW v \in DeploysType, NEW h \in Hashes
    PROVE  LET w == [v EXCEPT !["worker"] = h]
           IN  /\ w \in DeploysType
               /\ w.coordinator = v.coordinator /\ w.up = v.up
BY DEF DeploysType, Hashes

\* The status of the coordinator's Deployment is no part of its template.
LEMMA StatusWritten ==
    ASSUME NEW v \in DeploysType
    PROVE  LET w == [v EXCEPT !.up = ~@]
           IN  /\ w \in DeploysType
               /\ w.coordinator = v.coordinator /\ w.up = ~v.up
BY DEF DeploysType

-----------------------------------------------------------------------------
(***************************************************************************)
(* What each call does.                                                    *)
(***************************************************************************)

\* TypeOK taken apart, with what is cached and what is stored.
LEMMA TypeFacts ==
    ASSUME TypeOK
    PROVE  /\ want \in SpecType /\ req \in SpecType /\ order \in 1..Orders
           /\ edits \in 0..MaxEdits /\ faults \in 0..MaxFaults
           /\ secrets \in Seq(SecretsType) /\ secrets # << >>
           /\ deploys \in Seq(DeploysType) /\ deploys # << >>
           /\ Last(secrets) \in SecretsType /\ Among(Last(secrets), secrets)
           /\ secrets[1] \in SecretsType /\ Among(secrets[1], secrets)
           /\ Last(deploys) \in DeploysType /\ Among(Last(deploys), deploys)
           /\ deploys[1] \in DeploysType /\ Among(deploys[1], deploys)
           /\ pods \subseteq PodType
BY VersionEnds DEF TypeOK

\* applyTrinoConfigMap writes, leaves alone or fails.
LEMMA ConfigEffect ==
    ASSUME TypeOK, Apply(secrets, "config", ConfigOf(req), "catalog")
    PROVE  \/ /\ secrets[1].config.config = req.config
              /\ pc' = "catalog" /\ UNCHANGED <<secrets, ready>>
           \/ \E w \in SecretsType :
                 /\ secrets' = Append(secrets, w)
                 /\ w.config.config = req.config
                 /\ w.catalog = Last(secrets).catalog
                 /\ pc' = "catalog" /\ UNCHANGED ready
           \/ pc' = "idle" /\ ready' = FALSE /\ UNCHANGED secrets
<1>0. ConfigOf(req) \in Contents /\ ConfigOf(req).config = req.config
  BY TypeFacts, Made DEF Contents
<1>1. CASE /\ secrets[1]["config"] = ConfigOf(req)
           /\ pc' = "catalog" /\ UNCHANGED <<secrets, ready>>
  BY <1>0, <1>1
<1>2. CASE /\ secrets' = Append(secrets,
                            [Last(secrets) EXCEPT !["config"] = ConfigOf(req)])
           /\ pc' = "catalog" /\ UNCHANGED ready
  <2> DEFINE w == [Last(secrets) EXCEPT !["config"] = ConfigOf(req)]
  <2>1. /\ w \in SecretsType /\ w.config = ConfigOf(req)
        /\ w.catalog = Last(secrets).catalog
    BY <1>0, TypeFacts, ConfigWritten
  <2>2. secrets' = Append(secrets, w)
    BY <1>2
  <2> HIDE DEF w
  <2> QED
    BY <1>0, <1>2, <2>1, <2>2
<1>3. CASE pc' = "idle" /\ ready' = FALSE /\ UNCHANGED secrets
  BY <1>3
<1> QED
  BY <1>1, <1>2, <1>3 DEF Apply, Refused

\* applyTrinoCatalogSecret.
LEMMA CatalogEffect ==
    ASSUME TypeOK, Apply(secrets, "catalog", CatalogOf(req), "coordinator")
    PROVE  \/ /\ secrets[1].catalog.config = req.config
              /\ pc' = "coordinator" /\ UNCHANGED <<secrets, ready>>
           \/ \E w \in SecretsType :
                 /\ secrets' = Append(secrets, w)
                 /\ w.catalog.config = req.config
                 /\ w.config = Last(secrets).config
                 /\ pc' = "coordinator" /\ UNCHANGED ready
           \/ pc' = "idle" /\ ready' = FALSE /\ UNCHANGED secrets
<1>0. CatalogOf(req) \in Contents /\ CatalogOf(req).config = req.config
  BY TypeFacts, Made DEF Contents
<1>1. CASE /\ secrets[1]["catalog"] = CatalogOf(req)
           /\ pc' = "coordinator" /\ UNCHANGED <<secrets, ready>>
  BY <1>0, <1>1
<1>2. CASE /\ secrets' = Append(secrets,
                          [Last(secrets) EXCEPT !["catalog"] = CatalogOf(req)])
           /\ pc' = "coordinator" /\ UNCHANGED ready
  <2> DEFINE w == [Last(secrets) EXCEPT !["catalog"] = CatalogOf(req)]
  <2>1. /\ w \in SecretsType /\ w.catalog = CatalogOf(req)
        /\ w.config = Last(secrets).config
    BY <1>0, TypeFacts, CatalogWritten
  <2>2. secrets' = Append(secrets, w)
    BY <1>2
  <2> HIDE DEF w
  <2> QED
    BY <1>0, <1>2, <2>1, <2>2
<1>3. CASE pc' = "idle" /\ ready' = FALSE /\ UNCHANGED secrets
  BY <1>3
<1> QED
  BY <1>1, <1>2, <1>3 DEF Apply, Refused

\* applyTrinoCoordinator writes a hash only over the one that is stored.
LEMMA CoordinatorEffect ==
    ASSUME TypeOK, Apply(deploys, "coordinator", HashOf(req), "worker")
    PROVE  \/ pc' = "worker" /\ UNCHANGED <<deploys, ready>>
           \/ \E w \in DeploysType :
                 /\ deploys' = Append(deploys, w)
                 /\ w.coordinator = HashOf(req) /\ w.up = Last(deploys).up
                 /\ Last(deploys).coordinator # HashOf(req)
                 /\ pc' = "worker" /\ UNCHANGED ready
           \/ pc' = "idle" /\ ready' = FALSE /\ UNCHANGED deploys
<1>0. HashOf(req) \in Hashes
  BY TypeFacts, Made DEF Hashes
<1>1. CASE pc' = "worker" /\ UNCHANGED <<deploys, ready>>
  BY <1>1
<1>2. CASE /\ deploys[1]["coordinator"] # HashOf(req)
           /\ ~Stale(deploys, "coordinator")
           /\ deploys' = Append(deploys,
                          [Last(deploys) EXCEPT !["coordinator"] = HashOf(req)])
           /\ pc' = "worker" /\ UNCHANGED ready
  <2> DEFINE w == [Last(deploys) EXCEPT !["coordinator"] = HashOf(req)]
  <2>1. /\ w \in DeploysType /\ w.coordinator = HashOf(req)
        /\ w.up = Last(deploys).up
    BY <1>0, TypeFacts, CoordinatorWritten
  <2>2. deploys' = Append(deploys, w)
    BY <1>2
  <2>3. \A v : Among(v, deploys) =>
                  v["coordinator"] = Last(deploys)["coordinator"]
    BY <1>2, TypeFacts, NotStale
  <2>4. deploys[1]["coordinator"] = Last(deploys)["coordinator"]
    BY <2>3, TypeFacts
  <2> HIDE DEF w
  <2> QED
    BY <1>2, <2>1, <2>2, <2>4
<1>3. CASE pc' = "idle" /\ ready' = FALSE /\ UNCHANGED deploys
  BY <1>3
<1> QED
  BY <1>1, <1>2, <1>3 DEF Apply, Refused

\* The workers come and go beside the coordinator.
LEMMA WorkerEffect ==
    ASSUME TypeOK, ReconcileWorkers
    PROVE  /\ pc' \in {"check", "idle"} /\ ready' \in {FALSE, ready}
           /\ \/ UNCHANGED deploys
              \/ \E w \in DeploysType :
                    /\ deploys' = Append(deploys, w)
                    /\ w.coordinator = Last(deploys).coordinator
                    /\ w.up = Last(deploys).up
<1>1. ASSUME NEW h \in Hashes,
             deploys' = Append(deploys, [Last(deploys) EXCEPT !["worker"] = h])
      PROVE  \E w \in DeploysType :
                /\ deploys' = Append(deploys, w)
                /\ w.coordinator = Last(deploys).coordinator
                /\ w.up = Last(deploys).up
  <2> DEFINE w == [Last(deploys) EXCEPT !["worker"] = h]
  <2>1. /\ w \in DeploysType /\ w.coordinator = Last(deploys).coordinator
        /\ w.up = Last(deploys).up
    BY TypeFacts, WorkerWritten
  <2>2. deploys' = Append(deploys, w)
    BY <1>1
  <2> HIDE DEF w
  <2> QED
    BY <2>1, <2>2
<1>2. CASE Apply(deploys, "worker", HashOf(req), "check")
  <2>1. HashOf(req) \in Hashes
    BY TypeFacts, Made DEF Hashes
  <2>2. /\ pc' \in {"check", "idle"} /\ ready' \in {FALSE, ready}
        /\ \/ UNCHANGED deploys
           \/ deploys' = Append(deploys,
                           [Last(deploys) EXCEPT !["worker"] = HashOf(req)])
    BY <1>2 DEF Apply, Refused
  <2> QED
    BY <1>1, <2>1, <2>2
<1>3. CASE /\ pc' = "check" /\ UNCHANGED ready
           /\ \/ UNCHANGED deploys
              \/ deploys' = Append(deploys,
                              [Last(deploys) EXCEPT !.worker = Nothing])
  <2>1. Nothing \in Hashes
    BY DEF Hashes
  <2> QED
    BY <1>1, <1>3, <2>1
<1> QED
  BY <1>2, <1>3 DEF ReconcileWorkers

\* The Deployment controller reports a ready pod only if there is one.
LEMMA StatusEffect ==
    ASSUME TypeOK, ReportStatus
    PROVE  \E w \in DeploysType :
              /\ deploys' = Append(deploys, w)
              /\ w.coordinator = Last(deploys).coordinator
              /\ w.up => Loaded # {}
<1> DEFINE w == [Last(deploys) EXCEPT !.up = ~@]
<1>1. /\ w \in DeploysType /\ w.coordinator = Last(deploys).coordinator
      /\ w.up = ~Last(deploys).up
  BY TypeFacts, StatusWritten
<1>2. deploys' = Append(deploys, w) /\ Last(deploys).up # (Loaded # {})
  BY DEF ReportStatus
<1> HIDE DEF w
<1>3. w.up => Loaded # {}
  <2>1. Last(deploys).up \in BOOLEAN
    BY TypeFacts, DeployFields
  <2>2. CASE Last(deploys).up = TRUE
    BY <1>1, <2>2
  <2>3. CASE Last(deploys).up = FALSE
    BY <1>2, <2>3
  <2> QED
    BY <2>1, <2>2, <2>3
<1> QED
  BY <1>1, <1>2, <1>3

\* A pod reads the Secrets as it starts.
LEMMA LoadEffect ==
    ASSUME TypeOK, LoadPod
    PROVE  \E x \in pods \ Loaded, y \in PodType :
              /\ pods' = (pods \ {x}) \cup {y}
              /\ y.tmpl = x.tmpl
              /\ y.config = Last(secrets).config /\ y.config # Nothing
              /\ y.catalog = Last(secrets).catalog
<1>1. PICK x \in pods \ Loaded :
         pods' = (pods \ {x}) \cup
                    {[x EXCEPT !.config = Last(secrets).config,
                               !.catalog = Last(secrets).catalog]}
  BY DEF LoadPod
<1>2. PICK c \in Contents, d \in Contents :
         c = Last(secrets).config /\ d = Last(secrets).catalog
  BY TypeFacts, SecretFields
<1>3. x \in PodType
  BY TypeFacts
<1> DEFINE y == [x EXCEPT !.config = c, !.catalog = d]
<1>4. y \in PodType /\ y.tmpl = x.tmpl /\ y.config = c /\ y.catalog = d
  BY <1>3 DEF PodType, Contents
<1>5. pods' = (pods \ {x}) \cup {y}
  BY <1>1, <1>2
<1>6. Last(secrets).config # Nothing
  BY DEF LoadPod
<1> HIDE DEF y
<1> QED
  BY <1>2, <1>4, <1>5, <1>6

-----------------------------------------------------------------------------
(***************************************************************************)
(* The types.                                                              *)
(***************************************************************************)

\* A cluster without Trino is well-typed.
LEMMA TypeInit == Init => TypeOK
<1> SUFFICES ASSUME Init PROVE TypeOK
  OBVIOUS
<1>1. want \in SpecType /\ req = want
  BY DEF Init, SpecType
<1>2. [config |-> Nothing, catalog |-> Nothing] \in SecretsType
  BY DEF SecretsType
<1>3. [coordinator |-> Nothing, worker |-> Nothing, up |-> FALSE]
         \in DeploysType
  BY DEF DeploysType
<1>4. secrets \in Seq(SecretsType) /\ secrets # << >>
  BY <1>2 DEF Init
<1>5. deploys \in Seq(DeploysType) /\ deploys # << >>
  BY <1>3 DEF Init
<1>6. edits \in 0..MaxEdits /\ faults \in 0..MaxFaults /\ order \in 1..Orders
  BY RolloutAssumption DEF Init
<1> QED
  BY <1>1, <1>4, <1>5, <1>6 DEF Init, TypeOK, Steps

\* Every step of handler, informers, cluster and user keeps the types.
LEMMA TypeStep == TypeOK /\ [Next]_vars => TypeOK'
<1> SUFFICES ASSUME TypeOK, [Next]_vars PROVE TypeOK'
  OBVIOUS
<1>0. \A w \in SecretsType : secrets' = Append(secrets, w) =>
         secrets' \in Seq(SecretsType) /\ secrets' # << >>
  BY TypeFacts, VersionAdded
<1>1. \A w \in DeploysType : deploys' = Append(deploys, w) =>
         deploys' \in Seq(DeploysType) /\ deploys' # << >>
  BY TypeFacts, VersionAdded
<1>2. CASE Begin
  BY <1>2 DEF Begin, TypeOK, Steps, spec, objects
<1>3. CASE ApplyConfig
  <2>1. UNCHANGED <<want, edits, restored, pods, req, order, faults>>
    BY <1>3 DEF ApplyConfig, spec
  <2>2. CASE /\ Apply(secrets, "config", ConfigOf(req), "catalog")
             /\ UNCHANGED deploys
    BY <1>0, <2>1, <2>2, ConfigEffect DEF TypeOK, Steps
  <2>3. CASE /\ Apply(secrets, "catalog", CatalogOf(req), "coordinator")
             /\ UNCHANGED deploys
    BY <1>0, <2>1, <2>3, CatalogEffect DEF TypeOK, Steps
  <2>4. CASE /\ Apply(deploys, "coordinator", HashOf(req), "worker")
             /\ UNCHANGED secrets
    BY <1>1, <2>1, <2>4, CoordinatorEffect DEF TypeOK, Steps
  <2> QED
    BY <1>3, <2>2, <2>3, <2>4 DEF ApplyConfig
<1>4. CASE ReconcileWorkers
  <2>1. UNCHANGED <<want, edits, restored, secrets, pods, req, order, faults>>
    BY <1>4 DEF ReconcileWorkers, spec
  <2> QED
    BY <1>1, <1>4, <2>1, WorkerEffect DEF TypeOK, Steps
<1>5. CASE Check
  <2>1. deploys[1].up \in BOOLEAN
    BY TypeFacts, DeployFields
  <2> QED
    BY <1>5, <2>1 DEF Check, TypeOK, Steps, spec, objects
<1>6. CASE Fail
  <2>1. faults' \in 0..MaxFaults
    BY <1>6, RolloutAssumption DEF Fail, TypeOK
  <2>2. ready' \in BOOLEAN
    BY <1>6 DEF Fail, TypeOK
  <2> QED
    BY <1>6, <2>1, <2>2 DEF Fail, TypeOK, Steps, spec, objects
<1>7. CASE SyncSecrets
  <2>1. secrets' \in Seq(SecretsType) /\ secrets' # << >>
    BY <1>7, TypeFacts, VersionSeen DEF SyncSecrets
  <2> QED
    BY <1>7, <2>1 DEF SyncSecrets, TypeOK, spec, operator
<1>8. CASE SyncDeploys
  <2>1. deploys' \in Seq(DeploysType) /\ deploys' # << >>
    BY <1>8, TypeFacts, VersionSeen DEF SyncDeploys
  <2> QED
    BY <1>8, <2>1 DEF SyncDeploys, TypeOK, spec, operator
<1>9. CASE StartPod
  <2>1. Wanted("coordinator") \in Hash
    <3>1. Last(deploys).coordinator \in Hashes
      BY TypeFacts, DeployFields
    <3> QED
      BY <1>9, <3>1 DEF StartPod, Wanted, Hashes
  <2>2. [tmpl |-> Wanted("coordinator"),
         config |-> Nothing, catalog |-> Nothing] \in PodType
    BY <2>1 DEF PodType
  <2> QED
    BY <1>9, <2>2 DEF StartPod, TypeOK, spec, objects, operator
<1>10. CASE LoadPod
  <2>1. pods' \subseteq PodType
    BY <1>10, TypeFacts, LoadEffect
  <2> QED
    BY <1>10, <2>1 DEF LoadPod, TypeOK, spec, objects, operator
<1>11. CASE RetirePod
  BY <1>11 DEF RetirePod, TypeOK, spec, objects, operator
<1>12. CASE LosePod
  <2>1. faults' \in 0..MaxFaults
    BY <1>12, RolloutAssumption DEF LosePod, TypeOK
  <2> QED
    BY <1>12, <2>1 DEF LosePod, TypeOK, spec, objects, operator
<1>13. CASE ReportStatus
  <2>1. deploys' \in Seq(DeploysType) /\ deploys' # << >>
    BY <1>1, <1>13, StatusEffect
  <2> QED
    BY <1>13, <2>1 DEF ReportStatus, TypeOK, spec, operator
<1>14. CASE EditSpec
  <2>1. PICK config \in 1..(edits + 2), workers \in Workers :
           /\ want' = [config |-> config, workers |-> workers]
           /\ restored' = (restored \/ config # edits + 2)
    BY <1>14 DEF EditSpec
  <2>2. config \in Nat \ {0}
    BY DEF TypeOK
  <2>3. want' \in SpecType
    BY <2>1, <2>2 DEF SpecType
  <2>4. restored' \in BOOLEAN
    BY <2>1
  <2>5. edits' \in 0..MaxEdits
    BY <1>14, RolloutAssumption DEF EditSpec, TypeOK
  <2> QED
    BY <1>14, <2>3, <2>4, <2>5 DEF EditSpec, TypeOK, objects, operator
<1>15. CASE UNCHANGED vars
  BY <1>15 DEF vars, TypeOK
<1> QED
  BY <1>2, <1>3, <1>4, <1>5, <1>6, <1>7, <1>8, <1>9, <1>10, <1>11, <1>12,
     <1>13, <1>14, <1>15 DEF Next, Handle

\* Every state of a rollout has the shape TypeOK says, for all bounds.
THEOREM TypesHold == Spec => []TypeOK
BY TypeInit, TypeStep, PTL DEF Spec

-----------------------------------------------------------------------------
(***************************************************************************)
(* Secrets before hashes.                                                  *)
(***************************************************************************)

\* The numbers that are compared are numbers.
LEMMA Numbers ==
    ASSUME TypeOK
    PROVE  /\ want.config \in Nat /\ req.config \in Nat /\ edits \in Nat
           /\ \A v \in SecretsType : /\ v.config.config \in Nat
                                     /\ v.catalog.config \in Nat
           /\ \A v \in DeploysType : v.coordinator.config \in Nat
           /\ \A x \in pods : /\ x.tmpl.config \in Nat
                              /\ x.config.config \in Nat
                              /\ x.catalog.config \in Nat
<1>1. want.config \in Nat /\ req.config \in Nat
  BY TypeFacts, Made
<1>2. edits \in Nat
  BY DEF TypeOK
<1>3. \A x \in pods : x.tmpl \in Hashes
  BY TypeFacts, PodFields DEF Hashes
<1> QED
  BY <1>1, <1>2, <1>3, TypeFacts, SecretFields, DeployFields, PodFields,
     ContentNumber, HashNumber

\* Nothing is deployed, so nothing is out of order.
LEMMA RolloutInit == Init => RolloutInv
<1> SUFFICES ASSUME Init PROVE RolloutInv
  OBVIOUS
<1>0. TypeOK
  BY TypeInit
<1> DEFINE v0 == [config |-> Nothing, catalog |-> Nothing]
           w0 == [coordinator |-> Nothing, worker |-> Nothing, up |-> FALSE]
<1>1. secrets = <<v0>> /\ deploys = <<w0>>
  BY DEF Init
<1>2. v0.config.config = 0 /\ v0.catalog.config = 0 /\ w0.coordinator.config = 0
  BY NothingFields
<1> HIDE DEF v0, w0
<1>3. /\ \A v : Among(v, secrets) => v = v0
      /\ \A v : Among(v, deploys) => v = w0
      /\ Last(secrets) = v0 /\ Last(deploys) = w0
  BY <1>1 DEF Among, Last
<1>4. want.config = 1 /\ req = want /\ pods = {} /\ pc = "idle" /\ edits = 0
  BY DEF Init
<1>5. Forward
  BY <1>2, <1>3, <1>4 DEF Forward
<1>6. SecretsFirst
  BY <1>2, <1>3, <1>4 DEF SecretsFirst, Reached, Loaded
<1> QED
  BY <1>5, <1>6 DEF RolloutInv

\* A spec that has been restored stays so: the promise is over.
LEMMA RestoredStays == [Next]_vars /\ ~restored' => ~restored
BY DEF Next, Handle, Begin, ApplyConfig, ReconcileWorkers, Check, Fail,
       SyncSecrets, SyncDeploys, StartPod, LoadPod, RetirePod, LosePod,
       ReportStatus, EditSpec, vars, spec

\* A version that the cache will see was there before or is the new one.
LEMMA SecretsAdded ==
    ASSUME TypeOK, NEW w \in SecretsType, secrets' = Append(secrets, w)
    PROVE  /\ Last(secrets)' = w
           /\ \A v : Among(v, secrets)' => Among(v, secrets) \/ v = w
<1>1. /\ Last(Append(secrets, w)) = w
      /\ \A v : Among(v, Append(secrets, w)) => Among(v, secrets) \/ v = w
  BY TypeFacts, VersionAdded
<1> QED
  BY <1>1 DEF Last, Among

\* A write to the Deployments is the stored version and the last to be seen.
LEMMA DeploysAdded ==
    ASSUME TypeOK, NEW w \in DeploysType, deploys' = Append(deploys, w)
    PROVE  /\ Last(deploys)' = w
           /\ \A v : Among(v, deploys)' => Among(v, deploys) \/ v = w
<1>1. /\ Last(Append(deploys, w)) = w
      /\ \A v : Among(v, Append(deploys, w)) => Among(v, deploys) \/ v = w
  BY TypeFacts, VersionAdded
<1> QED
  BY <1>1 DEF Last, Among

\* The informer of Secrets changes nothing that is stored.
LEMMA SecretsSynced ==
    ASSUME TypeOK, SyncSecrets
    PROVE  /\ Last(secrets)' = Last(secrets)
           /\ \A v : Among(v, secrets)' => Among(v, secrets)
<1>1. /\ Last(Tail(secrets)) = Last(secrets)
      /\ \A v : Among(v, Tail(secrets)) => Among(v, secrets)
  BY TypeFacts, VersionSeen DEF SyncSecrets
<1> QED
  BY <1>1 DEF Last, Among, SyncSecrets

\* The informer of Deployments changes nothing that is stored.
LEMMA DeploysSynced ==
    ASSUME TypeOK, SyncDeploys
    PROVE  /\ Last(deploys)' = Last(deploys)
           /\ \A v : Among(v, deploys)' => Among(v, deploys)
<1>1. /\ Last(Tail(deploys)) = Last(deploys)
      /\ \A v : Among(v, Tail(deploys)) => Among(v, deploys)
  BY TypeFacts, VersionSeen DEF SyncDeploys
<1> QED
  BY <1>1 DEF Last, Among, SyncDeploys

\* What is not written stays stored and cached.
LEMMA Same ==
    /\ UNCHANGED secrets => /\ Last(secrets)' = Last(secrets)
                            /\ \A v : Among(v, secrets)' => Among(v, secrets)
    /\ UNCHANGED deploys => /\ Last(deploys)' = Last(deploys)
                            /\ \A v : Among(v, deploys)' => Among(v, deploys)
BY DEF Last, Among

\* What has to be shown of a step that writes.
LEMMA ForwardParts ==
    ASSUME TypeOK, Forward, UNCHANGED <<want, edits, req>>,
           \A v \in SecretsType : Among(v, secrets)' =>
               \/ Among(v, secrets)
               \/ v.config.config <= req.config /\ v.catalog.config <= req.config,
           \A v \in DeploysType : Among(v, deploys)' =>
               \/ Among(v, deploys)
               \/ /\ v.coordinator.config <= req.config
                  /\ v.coordinator.config = req.config =>
                        v.coordinator.solo = Solo(req)
    PROVE  Forward'
BY DEF Forward, Solo

\* No pass writes for a configuration newer than its own, and none begins with
\* an older one than the pass before it.
LEMMA ForwardStep ==
    ASSUME TypeOK, Forward, [Next]_vars, ~restored'
    PROVE  Forward'
<1> USE Numbers
<1>1. CASE Begin
  <2>1. UNCHANGED <<want, edits, secrets, deploys>> /\ req' = want
    BY <1>1 DEF Begin, spec, objects
  <2>2. ASSUME NEW v \in DeploysType, Among(v, deploys)
        PROVE  /\ v.coordinator.config <= want.config
               /\ v.coordinator.config = want.config =>
                     v.coordinator.solo = Solo(want)
    <3>1. /\ v.coordinator.config <= req.config
          /\ v.coordinator.config = req.config =>
                v.coordinator.solo = Solo(req)
          /\ req.config <= want.config
          /\ req.config = want.config => req = want
      BY <2>2 DEF Forward
    <3>2. v.coordinator.config <= want.config
      BY <3>1
    <3>3. v.coordinator.config = want.config => req.config = want.config
      BY <3>1
    <3> QED
      BY <3>1, <3>2, <3>3
  <2>3. ASSUME NEW v \in SecretsType, Among(v, secrets)
        PROVE  v.config.config <= want.config /\ v.catalog.config <= want.config
    <3>1. /\ v.config.config <= req.config /\ v.catalog.config <= req.config
          /\ req.config <= want.config
      BY <2>3 DEF Forward
    <3> QED
      BY <3>1
  <2>4. want.config = edits + 1
    BY DEF Forward
  <2> QED
    BY <2>1, <2>2, <2>3, <2>4, Same DEF Forward, Solo
<1>2. CASE ApplyConfig
  <2>1. UNCHANGED <<want, edits, req>>
    BY <1>2 DEF ApplyConfig, spec
  <2>2. /\ Last(secrets).config.config <= req.config
        /\ Last(secrets).catalog.config <= req.config
        /\ req.config <= req.config
    BY TypeFacts DEF Forward
  <2>3. CASE /\ Apply(secrets, "config", ConfigOf(req), "catalog")
             /\ UNCHANGED deploys
    BY <2>1, <2>2, <2>3, ConfigEffect, SecretsAdded, Same, ForwardParts
  <2>4. CASE /\ Apply(secrets, "catalog", CatalogOf(req), "coordinator")
             /\ UNCHANGED deploys
    BY <2>1, <2>2, <2>4, CatalogEffect, SecretsAdded, Same, ForwardParts
  <2>5. CASE /\ Apply(deploys, "coordinator", HashOf(req), "worker")
             /\ UNCHANGED secrets
    <3>1. HashOf(req).config = req.config /\ HashOf(req).solo = Solo(req)
      BY TypeFacts, Made
    <3> QED
      BY <2>1, <2>2, <2>5, <3>1, CoordinatorEffect, DeploysAdded, Same,
         ForwardParts
  <2> QED
    BY <1>2, <2>3, <2>4, <2>5 DEF ApplyConfig
<1>3. CASE ReconcileWorkers
  <2>1. UNCHANGED <<want, edits, req, secrets>>
    BY <1>3 DEF ReconcileWorkers, spec
  <2>2. /\ Last(deploys).coordinator.config <= req.config
        /\ Last(deploys).coordinator.config = req.config =>
              Last(deploys).coordinator.solo = Solo(req)
    BY TypeFacts DEF Forward
  <2> QED
    BY <1>3, <2>1, <2>2, WorkerEffect, DeploysAdded, Same, ForwardParts
<1>4. CASE ReportStatus
  <2>1. UNCHANGED <<want, edits, req, secrets>>
    BY <1>4 DEF ReportStatus, spec, operator
  <2>2. /\ Last(deploys).coordinator.config <= req.config
        /\ Last(deploys).coordinator.config = req.config =>
              Last(deploys).coordinator.solo = Solo(req)
    BY TypeFacts DEF Forward
  <2> QED
    BY <1>4, <2>1, <2>2, StatusEffect, DeploysAdded, Same, ForwardParts
<1>5. CASE SyncSecrets
  <2>1. UNCHANGED <<want, edits, req, deploys>>
    BY <1>5 DEF SyncSecrets, spec, operator
  <2> QED
    BY <1>5, <2>1, SecretsSynced, Same, ForwardParts
<1>6. CASE SyncDeploys
  <2>1. UNCHANGED <<want, edits, req, secrets>>
    BY <1>6 DEF SyncDeploys, spec, operator
  <2> QED
    BY <1>6, <2>1, DeploysSynced, Same, ForwardParts
<1>7. CASE EditSpec
  <2>1. PICK config \in 1..(edits + 2), workers \in Workers :
           /\ want' = [config |-> config, workers |-> workers]
           /\ restored' = (restored \/ config # edits + 2)
    BY <1>7 DEF EditSpec
  <2>2. want'.config = edits + 2
    BY <2>1
  <2>3. edits' = edits + 1 /\ UNCHANGED <<secrets, deploys, req>>
    BY <1>7 DEF EditSpec, objects, operator
  <2>4. req.config <= edits + 1
    BY DEF Forward
  <2>5. want'.config = edits' + 1 /\ req.config < want'.config
    BY <2>2, <2>3, <2>4
  <2>6. req.config <= want'.config /\ req.config # want'.config
    BY <2>2, <2>5
  <2> QED
    BY <2>3, <2>5, <2>6, Same DEF Forward, Solo
<1>8. CASE \/ Check \/ Fail \/ StartPod \/ LoadPod \/ RetirePod \/ LosePod
           \/ UNCHANGED vars
  <2>1. UNCHANGED <<want, edits, req, secrets, deploys>>
    BY <1>8 DEF Check, Fail, StartPod, LoadPod, RetirePod, LosePod, vars, spec,
                objects, operator
  <2> QED
    BY <2>1, Same, ForwardParts
<1> QED
  BY <1>1, <1>2, <1>3, <1>4, <1>5, <1>6, <1>7, <1>8 DEF Next, Handle

\* The parts of SecretsFirst that a step without new Secrets can disturb.
LEMMA FirstParts ==
    ASSUME TypeOK, SecretsFirst, UNCHANGED req,
           Last(secrets)' = Last(secrets),
           \A v \in SecretsType : Among(v, secrets)' => Among(v, secrets),
           pc' \in {"catalog", "coordinator"} =>
               pc' = pc \/ req.config <= Last(secrets).config.config,
           pc' = "coordinator" =>
               pc' = pc \/ req.config <= Last(secrets).catalog.config,
           Reached(Last(deploys)'.coordinator.config),
           \A x \in pods' : Reached(x.tmpl.config),
           \A x \in Loaded' : /\ x.config.config >= x.tmpl.config
                              /\ x.catalog.config >= x.tmpl.config
    PROVE  SecretsFirst'
BY DEF SecretsFirst, Reached

\* New Secrets are for the configuration of the pass, which is the newest.
LEMMA FirstWritten ==
    ASSUME TypeOK, Forward, SecretsFirst, UNCHANGED <<req, deploys, pods>>,
           NEW w \in SecretsType, secrets' = Append(secrets, w),
           w.config.config \in {Last(secrets).config.config, req.config},
           w.catalog.config \in {Last(secrets).catalog.config, req.config},
           pc' \in {"catalog", "coordinator"} => req.config <= w.config.config,
           pc' = "coordinator" => req.config <= w.catalog.config
    PROVE  SecretsFirst'
<1> USE Numbers
<1>1. Last(secrets)' = w /\ Last(deploys)' = Last(deploys)
  BY SecretsAdded, Same
<1>2. /\ Last(secrets).config.config <= w.config.config
      /\ Last(secrets).catalog.config <= w.catalog.config
  <2>1. /\ Last(secrets).config.config <= req.config
        /\ Last(secrets).catalog.config <= req.config
        /\ Last(secrets) \in SecretsType
    BY TypeFacts DEF Forward
  <2> QED
    BY <2>1
<1>3. ASSUME NEW v \in SecretsType, Among(v, secrets)'
      PROVE  /\ v.config.config <= w.config.config
             /\ v.catalog.config <= w.catalog.config
  <2>1. CASE v = w
    BY <2>1
  <2>2. CASE Among(v, secrets)
    <3>1. /\ v.config.config <= Last(secrets).config.config
          /\ v.catalog.config <= Last(secrets).catalog.config
          /\ Last(secrets) \in SecretsType
      BY <2>2, TypeFacts DEF SecretsFirst
    <3> QED
      BY <1>2, <3>1
  <2> QED
    BY <1>3, <2>1, <2>2, SecretsAdded
<1>4. ASSUME NEW n \in Nat, Reached(n) PROVE Reached(n)'
  <2>1. /\ n <= Last(secrets).config.config
        /\ n <= Last(secrets).catalog.config
        /\ Last(secrets) \in SecretsType
    BY <1>4, TypeFacts DEF Reached
  <2>2. n <= w.config.config /\ n <= w.catalog.config
    BY <1>2, <2>1
  <2> QED
    BY <1>1, <2>2 DEF Reached
<1>5. Reached(Last(deploys).coordinator.config)'
  <2>1. /\ Last(deploys).coordinator.config \in Nat
        /\ Reached(Last(deploys).coordinator.config)
    BY TypeFacts DEF SecretsFirst
  <2>2. (Last(deploys).coordinator.config)' = Last(deploys).coordinator.config
    BY <1>1
  <2> QED
    BY <1>1, <1>4, <2>1, <2>2 DEF Reached
<1>6. \A x \in pods' : Reached(x.tmpl.config)'
  BY <1>4 DEF SecretsFirst
<1>7. \A x \in Loaded' : /\ x.config.config >= x.tmpl.config
                         /\ x.catalog.config >= x.tmpl.config
  BY DEF SecretsFirst, Loaded
<1> QED
  BY <1>1, <1>3, <1>5, <1>6, <1>7 DEF SecretsFirst

\* The cache shows the wanted Secret: so does the API server.
LEMMA ShownIsStored ==
    ASSUME TypeOK, SecretsFirst
    PROVE  /\ secrets[1].config.config <= Last(secrets).config.config
           /\ secrets[1].catalog.config <= Last(secrets).catalog.config
BY TypeFacts DEF SecretsFirst

\* trino.go applies both Secrets before the Deployment that carries their hash,
\* and a lagging cache makes a write fail instead of taking one back.
LEMMA FirstStep ==
    ASSUME TypeOK, Forward, SecretsFirst, [Next]_vars
    PROVE  SecretsFirst'
<1> USE Numbers
<1>0. /\ Reached(Last(deploys).coordinator.config)
      /\ \A x \in pods : Reached(x.tmpl.config)
      /\ \A x \in Loaded : /\ x.config.config >= x.tmpl.config
                           /\ x.catalog.config >= x.tmpl.config
  BY DEF SecretsFirst
<1>1. CASE Begin
  <2>1. UNCHANGED <<secrets, deploys, pods>> /\ pc' = "config"
    BY <1>1 DEF Begin, objects
  <2> QED
    BY <1>0, <2>1, Same DEF SecretsFirst, Reached, Loaded
<1>2. CASE ApplyConfig
  <2>1. UNCHANGED <<pods, req>> /\ Loaded' = Loaded
    BY <1>2 DEF ApplyConfig, Loaded
  <2>2. req.config <= req.config
    OBVIOUS
  <2>3. CASE /\ Apply(secrets, "config", ConfigOf(req), "catalog")
             /\ UNCHANGED deploys
    <3>1. CASE UNCHANGED secrets
      <4>1. pc' = "idle" \/ (pc' = "catalog" /\
               (secrets[1].config.config = req.config
                \/ \E w \in SecretsType : /\ secrets' = Append(secrets, w)
                                          /\ w.config.config = req.config))
        BY <2>3, ConfigEffect
      <4>2. ASSUME NEW w \in SecretsType, secrets' = Append(secrets, w)
            PROVE  w = Last(secrets)
        BY <3>1, <4>2, SecretsAdded, Same
      <4>3. pc' = "idle" \/
               (pc' = "catalog" /\ req.config <= Last(secrets).config.config)
        BY <2>2, <4>1, <4>2, ShownIsStored
      <4> QED
        BY <1>0, <2>1, <2>3, <3>1, <4>3, Same, FirstParts
    <3>2. CASE ~UNCHANGED secrets
      <4>1. PICK w \in SecretsType :
               /\ secrets' = Append(secrets, w)
               /\ w.config.config = req.config
               /\ w.catalog = Last(secrets).catalog
               /\ pc' = "catalog"
        BY <2>3, <3>2, ConfigEffect
      <4> QED
        BY <2>1, <2>2, <2>3, <4>1, FirstWritten
    <3> QED
      BY <3>1, <3>2
  <2>4. CASE /\ Apply(secrets, "catalog", CatalogOf(req), "coordinator")
             /\ UNCHANGED deploys /\ pc = "catalog"
    <3>0. req.config <= Last(secrets).config.config
      BY <2>4 DEF SecretsFirst
    <3>1. CASE UNCHANGED secrets
      <4>1. pc' = "idle" \/ (pc' = "coordinator" /\
               (secrets[1].catalog.config = req.config
                \/ \E w \in SecretsType : /\ secrets' = Append(secrets, w)
                                          /\ w.catalog.config = req.config))
        BY <2>4, CatalogEffect
      <4>2. ASSUME NEW w \in SecretsType, secrets' = Append(secrets, w)
            PROVE  w = Last(secrets)
        BY <3>1, <4>2, SecretsAdded, Same
      <4>3. pc' = "idle" \/ (/\ pc' = "coordinator"
                             /\ req.config <= Last(secrets).catalog.config)
        BY <2>2, <4>1, <4>2, ShownIsStored
      <4> QED
        BY <1>0, <2>1, <2>4, <3>0, <3>1, <4>3, Same, FirstParts
    <3>2. CASE ~UNCHANGED secrets
      <4>1. PICK w \in SecretsType :
               /\ secrets' = Append(secrets, w)
               /\ w.catalog.config = req.config
               /\ w.config = Last(secrets).config
               /\ pc' = "coordinator"
        BY <2>4, <3>2, CatalogEffect
      <4> QED
        BY <2>1, <2>2, <2>4, <3>0, <4>1, FirstWritten
    <3> QED
      BY <3>1, <3>2
  <2>5. CASE /\ Apply(deploys, "coordinator", HashOf(req), "worker")
             /\ UNCHANGED secrets /\ pc = "coordinator"
    <3>1. Reached(req.config)
      BY <2>5 DEF SecretsFirst, Reached
    <3>2. HashOf(req).config = req.config
      BY TypeFacts, Made
    <3>3. pc' \in {"worker", "idle"}
      BY <2>5, CoordinatorEffect
    <3>4. Reached(Last(deploys)'.coordinator.config)
      <4>1. CASE UNCHANGED deploys
        BY <1>0, <4>1, Same
      <4>2. CASE ~UNCHANGED deploys
        BY <2>5, <3>1, <3>2, <4>2, CoordinatorEffect, DeploysAdded
      <4> QED
        BY <4>1, <4>2
    <3> QED
      BY <1>0, <2>1, <2>5, <3>3, <3>4, Same, FirstParts
  <2> QED
    BY <1>2, <2>3, <2>4, <2>5 DEF ApplyConfig
<1>3. CASE ReconcileWorkers
  <2>1. UNCHANGED <<secrets, pods, req>> /\ Loaded' = Loaded
    BY <1>3 DEF ReconcileWorkers, Loaded
  <2>2. pc' \in {"check", "idle"}
    BY <1>3, WorkerEffect
  <2>3. Last(deploys)'.coordinator = Last(deploys).coordinator
    BY <1>3, WorkerEffect, DeploysAdded, Same
  <2> QED
    BY <1>0, <2>1, <2>2, <2>3, Same, FirstParts
<1>4. CASE ReportStatus
  <2>1. UNCHANGED <<secrets, pods, req, pc>> /\ Loaded' = Loaded
    BY <1>4 DEF ReportStatus, Loaded, operator
  <2>2. Last(deploys)'.coordinator = Last(deploys).coordinator
    BY <1>4, StatusEffect, DeploysAdded
  <2> QED
    BY <1>0, <2>1, <2>2, Same, FirstParts
<1>5. CASE SyncSecrets
  <2>1. UNCHANGED <<deploys, pods, req, pc>> /\ Loaded' = Loaded
    BY <1>5 DEF SyncSecrets, Loaded, operator
  <2> QED
    BY <1>0, <1>5, <2>1, SecretsSynced, Same, FirstParts
<1>6. CASE SyncDeploys
  <2>1. UNCHANGED <<secrets, pods, req, pc>> /\ Loaded' = Loaded
    BY <1>6 DEF SyncDeploys, Loaded, operator
  <2> QED
    BY <1>0, <1>6, <2>1, DeploysSynced, Same, FirstParts
<1>7. CASE StartPod
  <2>1. UNCHANGED <<secrets, deploys, req, pc>>
    BY <1>7 DEF StartPod, objects, operator
  <2> DEFINE y == [tmpl |-> Wanted("coordinator"),
                   config |-> Nothing, catalog |-> Nothing]
  <2>2. pods' = pods \cup {y}
    BY <1>7 DEF StartPod
  <2>3. y.tmpl = Last(deploys).coordinator /\ y.config = Nothing
    BY DEF Wanted
  <2> HIDE DEF y
  <2>4. Loaded' = Loaded
    BY <2>2, <2>3 DEF Loaded
  <2>5. \A x \in pods' : Reached(x.tmpl.config)
    BY <1>0, <2>2, <2>3
  <2> QED
    BY <1>0, <2>1, <2>4, <2>5, Same, FirstParts
<1>8. CASE LoadPod
  <2>1. UNCHANGED <<secrets, deploys, req, pc>>
    BY <1>8 DEF LoadPod, objects, operator
  <2>2. PICK x \in pods, y \in PodType :
           /\ pods' = (pods \ {x}) \cup {y}
           /\ y.tmpl = x.tmpl
           /\ y.config = Last(secrets).config
           /\ y.catalog = Last(secrets).catalog
    BY <1>8, LoadEffect
  <2>3. y.config.config >= y.tmpl.config /\ y.catalog.config >= y.tmpl.config
    <3>1. /\ x.tmpl.config <= Last(secrets).config.config
          /\ x.tmpl.config <= Last(secrets).catalog.config
          /\ Last(secrets) \in SecretsType
      BY <1>0, TypeFacts DEF Reached
    <3> QED
      BY <2>2, <3>1
  <2>4. \A z \in Loaded' : z \in Loaded \/ z = y
    BY <2>2 DEF Loaded
  <2>5. \A z \in pods' : Reached(z.tmpl.config)
    BY <1>0, <2>2
  <2> QED
    BY <1>0, <2>1, <2>3, <2>4, <2>5, Same, FirstParts
<1>9. CASE RetirePod \/ LosePod
  <2>1. UNCHANGED <<secrets, deploys, req, pc>> /\ pods' \subseteq pods
    BY <1>9 DEF RetirePod, LosePod, objects, operator
  <2>2. \A z \in Loaded' : z \in Loaded
    BY <2>1 DEF Loaded
  <2> QED
    BY <1>0, <2>1, <2>2, Same, FirstParts
<1>10. CASE Check \/ Fail
  <2>1. /\ UNCHANGED <<secrets, deploys, req, pods>> /\ pc' = "idle"
        /\ Loaded' = Loaded
    BY <1>10 DEF Check, Fail, objects, Loaded
  <2> QED
    BY <1>0, <2>1, Same, FirstParts
<1>11. CASE EditSpec \/ UNCHANGED vars
  <2>1. UNCHANGED <<secrets, deploys, req, pods, pc>> /\ Loaded' = Loaded
    BY <1>11 DEF EditSpec, vars, objects, operator, Loaded
  <2> QED
    BY <1>0, <2>1, Same, FirstParts
<1> QED
  BY <1>1, <1>2, <1>3, <1>4, <1>5, <1>6, <1>7, <1>8, <1>9, <1>10, <1>11
  DEF Next, Handle

\* RolloutInv is inductive.
LEMMA RolloutStep == TypeOK /\ RolloutInv /\ [Next]_vars => RolloutInv'
BY RestoredStays, ForwardStep, FirstStep DEF RolloutInv

\* reconcileTrino writes the Secrets before the hash that makes Kubernetes
\* roll the pods, so no pod loads less than it was rolled for, whatever calls
\* fail, however the caches lag and whenever pods start.
THEOREM NoPodStale == Spec => []PodsNotStale
<1>1. RolloutInv => PodsNotStale
  BY DEF RolloutInv, SecretsFirst, PodsNotStale
<1> QED
  BY <1>1, TypeInit, TypeStep, RolloutInit, RolloutStep, PTL DEF Spec

-----------------------------------------------------------------------------
(***************************************************************************)
(* The coordinator rolls forward.                                          *)
(***************************************************************************)

\* With one order to hash in, a hash for the configuration of the pass is the
\* hash of the pass.
LEMMA OneHash ==
    ASSUME TypeOK, Orders = 1, NEW h \in Hash,
           h.config = req.config, h.solo = Solo(req)
    PROVE  h = HashOf(req)
<1>1. h.order = 1 /\ order = 1
  BY TypeFacts DEF Hash
<1>2. h = [config |-> h.config, solo |-> h.solo, order |-> h.order]
  BY DEF Hash
<1> QED
  BY <1>1, <1>2 DEF HashOf

\* A changed hash of the coordinator names a newer configuration: with one
\* iteration order of the catalogs the same configuration has the same hash.
LEMMA RollStep ==
    ASSUME TypeOK, RolloutInv, [Next]_vars, Orders = 1, ~restored',
           Wanted("coordinator") # Nothing,
           Wanted("coordinator")' # Wanted("coordinator")
    PROVE  Wanted("coordinator")'.config > Wanted("coordinator").config
<1> USE Numbers
<1>0. Forward
  BY RestoredStays DEF RolloutInv
<1>1. /\ Wanted("coordinator") = Last(deploys).coordinator
      /\ Wanted("coordinator")' = Last(deploys)'.coordinator
  BY DEF Wanted
<1>2. CASE UNCHANGED deploys
  BY <1>1, <1>2, Same
<1>3. CASE Apply(deploys, "coordinator", HashOf(req), "worker")
  <2>0. ~UNCHANGED deploys
    BY <1>1, Same
  <2>1. PICK w \in DeploysType :
           /\ deploys' = Append(deploys, w)
           /\ w.coordinator = HashOf(req)
           /\ Last(deploys).coordinator # HashOf(req)
    BY <1>3, <2>0, CoordinatorEffect
  <2>2. Last(deploys)' = w
    BY <2>1, DeploysAdded
  <2>3. Wanted("coordinator")'.config = req.config
    BY <1>1, <2>1, <2>2, TypeFacts, Made
  <2>4. Last(deploys).coordinator \in Hash
    BY <1>1, TypeFacts, DeployFields DEF Hashes
  <2>5. Last(deploys).coordinator.config # req.config
    <3>1. Last(deploys).coordinator.config = req.config =>
             Last(deploys).coordinator.solo = Solo(req)
      BY <1>0, TypeFacts DEF Forward
    <3> QED
      BY <2>1, <2>4, <3>1, OneHash
  <2>6. Last(deploys).coordinator.config <= req.config
    BY <1>0, TypeFacts DEF Forward
  <2>7. Last(deploys).coordinator.config \in Nat
    BY TypeFacts
  <2>8. Last(deploys).coordinator.config < req.config
    BY <2>5, <2>6, <2>7
  <2> QED
    BY <1>1, <2>3, <2>8
<1>4. CASE ReconcileWorkers
  BY <1>1, <1>2, <1>4, WorkerEffect, DeploysAdded
<1>5. CASE ReportStatus
  BY <1>1, <1>5, StatusEffect, DeploysAdded
<1>6. CASE SyncDeploys
  BY <1>1, <1>6, DeploysSynced
<1>7. CASE \/ Begin \/ Check \/ Fail \/ SyncSecrets \/ StartPod \/ LoadPod
           \/ RetirePod \/ LosePod \/ EditSpec \/ UNCHANGED vars
  <2>1. UNCHANGED deploys
    BY <1>7 DEF Begin, Check, Fail, SyncSecrets, StartPod, LoadPod, RetirePod,
                LosePod, EditSpec, vars, objects
  <2> QED
    BY <1>2, <2>1
<1>8. CASE ApplyConfig
  BY <1>2, <1>3, <1>8 DEF ApplyConfig
<1> QED
  BY <1>4, <1>5, <1>6, <1>7, <1>8 DEF Next, Handle

\* applyTrinoCoordinator, working from a cache of any lag, rolls the
\* coordinator only for a newer configuration, if there is at most one extra
\* catalog and so one order to hash the catalogs in.
THEOREM CoordinatorRollsForward ==
    ASSUME Orders = 1
    PROVE  Spec => RollsForward
<1>1. TypeOK /\ RolloutInv /\ [Next]_vars
      => [LET old == Wanted("coordinator")
              new == Wanted("coordinator")'
          IN ~restored' /\ old # Nothing /\ new # old
                 => new.config > old.config]_vars
  BY RollStep
<1> QED
  BY <1>1, TypeInit, TypeStep, RolloutInit, RolloutStep, PTL
  DEF Spec, RollsForward

-----------------------------------------------------------------------------
(***************************************************************************)
(* Readiness comes from a pod.                                             *)
(***************************************************************************)

\* No status counts a pod to begin with.
LEMMA UpInit == Init => UpInv
<1> SUFFICES ASSUME Init PROVE UpInv
  OBVIOUS
<1> DEFINE w0 == [coordinator |-> Nothing, worker |-> Nothing, up |-> FALSE]
<1>1. deploys = <<w0>> /\ ready = FALSE
  BY DEF Init
<1>2. w0.up = FALSE
  OBVIOUS
<1> HIDE DEF w0
<1>3. \A v : Among(v, deploys) => v = w0
  BY <1>1 DEF Among
<1> QED
  BY <1>1, <1>2, <1>3 DEF UpInv

\* What has to be shown of a step.
LEMMA UpParts ==
    ASSUME UpInv, faults' = faults,
           Loaded # {} => Loaded' # {},
           \A v \in DeploysType : Among(v, deploys)' =>
               \/ Among(v, deploys)
               \/ v.up => Loaded # {},
           ready' => ready \/ Loaded # {}
    PROVE  UpInv'
BY DEF UpInv

\* A pod that a status counts goes only with its successor ready, or by a fault.
LEMMA UpStep == TypeOK /\ UpInv /\ [Next]_vars => UpInv'
<1> SUFFICES ASSUME TypeOK, UpInv, [Next]_vars, faults' = 0 PROVE UpInv'
  BY DEF UpInv
<1>0. \A v \in DeploysType : faults = 0 /\ Among(v, deploys) /\ v.up =>
         Loaded # {}
  BY DEF UpInv
<1>1. CASE Fail \/ LosePod
  <2>1. faults' = faults + 1
    BY <1>1 DEF Fail, LosePod
  <2>2. faults \in Nat
    BY DEF TypeOK
  <2> QED
    BY <2>1, <2>2
<1>2. CASE ApplyConfig
  <2>1. UNCHANGED <<faults, pods>> /\ Loaded' = Loaded
    BY <1>2 DEF ApplyConfig, Loaded
  <2>2. CASE UNCHANGED deploys
    <3>1. ready' => ready
      BY <1>2 DEF ApplyConfig, Apply, Refused
    <3> QED
      BY <2>1, <2>2, <3>1, Same, UpParts
  <2>3. CASE Apply(deploys, "coordinator", HashOf(req), "worker")
    <3>1. ready' => ready
      BY <2>3 DEF Apply, Refused
    <3>2. Last(deploys).up => Loaded # {}
      BY <1>0, <2>1, TypeFacts
    <3> QED
      BY <2>1, <2>3, <3>1, <3>2, CoordinatorEffect, DeploysAdded, Same, UpParts
  <2> QED
    BY <1>2, <2>2, <2>3 DEF ApplyConfig
<1>3. CASE ReconcileWorkers
  <2>1. UNCHANGED <<faults, pods>> /\ Loaded' = Loaded
    BY <1>3 DEF ReconcileWorkers, Loaded
  <2>2. Last(deploys).up => Loaded # {}
    BY <1>0, <2>1, TypeFacts
  <2>3. ready' => ready
    BY <1>3, WorkerEffect
  <2> QED
    BY <1>3, <2>1, <2>2, <2>3, WorkerEffect, DeploysAdded, Same, UpParts
<1>4. CASE Check
  <2>1. UNCHANGED <<faults, pods, deploys>> /\ Loaded' = Loaded
    BY <1>4 DEF Check, Loaded, objects
  <2>2. ready' => Loaded # {}
    BY <1>0, <1>4, <2>1, TypeFacts DEF Check
  <2> QED
    BY <2>1, <2>2, Same, UpParts
<1>5. CASE SyncDeploys
  <2>1. UNCHANGED <<faults, pods, ready>> /\ Loaded' = Loaded
    BY <1>5 DEF SyncDeploys, Loaded, operator
  <2> QED
    BY <1>5, <2>1, DeploysSynced, UpParts
<1>6. CASE ReportStatus
  <2>1. UNCHANGED <<faults, pods, ready>> /\ Loaded' = Loaded
    BY <1>6 DEF ReportStatus, Loaded, operator
  <2> QED
    BY <1>6, <2>1, StatusEffect, DeploysAdded, UpParts
<1>7. CASE LoadPod
  <2>1. UNCHANGED <<faults, deploys, ready>>
    BY <1>7 DEF LoadPod, objects, operator
  <2>2. Loaded' # {}
    BY <1>7, LoadEffect DEF Loaded
  <2> QED
    BY <2>1, <2>2, Same, UpParts
<1>8. CASE RetirePod
  <2>1. UNCHANGED <<faults, deploys, ready>>
    BY <1>8 DEF RetirePod, objects, operator
  <2>2. PICK x \in pods \ Current :
           /\ x \notin Loaded \/ Loaded \cap Current # {}
           /\ pods' = pods \ {x}
    BY <1>8 DEF RetirePod
  <2>3. Loaded' = Loaded \ {x}
    BY <2>2 DEF Loaded
  <2>4. Loaded # {} => Loaded' # {}
    BY <2>2, <2>3
  <2> QED
    BY <2>1, <2>4, Same, UpParts
<1>9. CASE StartPod
  <2>1. UNCHANGED <<faults, deploys, ready>> /\ pods \subseteq pods'
    BY <1>9 DEF StartPod, objects, operator
  <2>2. Loaded # {} => Loaded' # {}
    BY <2>1 DEF Loaded
  <2> QED
    BY <2>1, <2>2, Same, UpParts
<1>10. CASE Begin \/ SyncSecrets \/ EditSpec \/ UNCHANGED vars
  <2>1. UNCHANGED <<faults, deploys, ready, pods>> /\ Loaded' = Loaded
    BY <1>10 DEF Begin, SyncSecrets, EditSpec, vars, objects, operator, Loaded
  <2> QED
    BY <2>1, Same, UpParts
<1> QED
  BY <1>1, <1>2, <1>3, <1>4, <1>5, <1>6, <1>7, <1>8, <1>9, <1>10
  DEF Next, Handle

\* deploymentReady answers from a cache and counts any ready pod; still the
\* condition never precedes the first pod, and keeps to one that is there.
THEOREM ReadyComesFromPod == Spec => []ReadyAfterPod
<1>1. TypeOK /\ UpInv => ReadyAfterPod
  BY TypeFacts, RolloutAssumption DEF UpInv, ReadyAfterPod
<1> QED
  BY <1>1, TypeInit, TypeStep, UpInit, UpStep, PTL DEF Spec

=============================================================================
