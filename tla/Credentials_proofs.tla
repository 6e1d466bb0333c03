------------------------ MODULE Credentials_proofs -------------------------
(***************************************************************************)
(* Proofs about Credentials for every set of platforms, whatever           *)
(* namespaces they name, any lag of the caches and all bounds.             *)
(***************************************************************************)
EXTENDS Credentials, SequenceTheorems, TLAPS

Version == Object \cup {Absent}
Pod == [tmpl : Content, got : Content]

\* The versions of an applied object have one owner, and a pass that is about
\* to apply Keycloak's Deployment owns the realm.
OwnedInv ==
    /\ \A o \in Applied : \A i \in 1..Len(view[o]) :
          view[o][i] # Absent => view[o][i].owner = Stored(o).owner
    /\ pc = "keycloak" => Stored(Kc("realm")).owner = who

\* Whoever holds a signing key for namespace n holds the one that is stored.
KeyOf(n) == {0, SigningKey(n)}
KeyInv ==
    /\ \A n \in Namespaces : \A i \in 1..Len(view[<<"signing-key", n>>]) :
          view[<<"signing-key", n>>][i].data.key \in KeyOf(n)
    /\ who # None => got.key \in KeyOf(KcNs[who])
    /\ \A n \in Namespaces : Stored(<<"realm", n>>).data.key \in KeyOf(n)
    /\ \A n \in Namespaces : \A x \in pods[<<"keycloak", n>>] :
          x.got.key \in KeyOf(n)

-----------------------------------------------------------------------------
(***************************************************************************)
(* Objects and contents.                                                   *)
(***************************************************************************)

\* A content without secrets is a content.
LEMMA BlankContent ==
    /\ Blank \in Content
    /\ \A f \in Fields : Blank[f] = 0
    /\ "key" \in Fields /\ "trino" \in Fields /\ "opa" \in Fields
BY DEF Blank, Content, Fields

\* An object that is not there has no owner and no secrets.
LEMMA AbsentFields ==
    /\ Absent \notin Object
    /\ Absent.owner = None /\ Absent.data = Blank /\ Absent.data.key = 0
<1>1. Absent.owner = None /\ Absent.data = Blank
  BY DEF Absent
<1>2. \A x \in Object : x.owner # None
  BY PlatformsAssumption DEF Object
<1> QED
  BY <1>1, <1>2, BlankContent

\* A version of an object has a content, and an owner if it is there.
LEMMA VersionFields ==
    ASSUME NEW v \in Version
    PROVE  /\ v.data \in Content
           /\ v # Absent => v \in Object /\ v.owner \in Platforms
<1>1. CASE v = Absent
  BY <1>1, AbsentFields, BlankContent
<1>2. CASE v \in Object
  BY <1>2 DEF Object
<1> QED
  BY <1>1, <1>2 DEF Version

\* An object that platform p applies is p's.
LEMMA ObjectMade ==
    ASSUME NEW p \in Platforms, NEW d \in Content
    PROVE  LET x == [owner |-> p, data |-> d]
           IN  x \in Object /\ x \in Version /\ x.owner = p /\ x.data = d
BY DEF Object, Version

\* A secret is put into a content.
LEMMA FieldSet ==
    ASSUME NEW d \in Content, NEW f \in Fields, NEW k \in Nat
    PROVE  /\ [d EXCEPT ![f] = k] \in Content
           /\ [d EXCEPT ![f] = k][f] = k
           /\ \A g \in Fields : g # f => [d EXCEPT ![f] = k][g] = d[g]
BY DEF Content

\* The objects that a pass is about are objects.
LEMMA PassObjects ==
    ASSUME who \in Platforms
    PROVE  /\ KcNs[who] \in Namespaces /\ FgaNs[who] \in Namespaces
           /\ \A kind \in Kinds : Kc(kind) \in Objects /\ Fga(kind) \in Objects
BY NamespacesAssumption DEF Kc, Fga, Objects

\* TypeOK taken apart, with what is cached and what is stored.
LEMMA TypeFacts ==
    ASSUME TypeOK
    PROVE  /\ view \in [Objects -> Seq(Version)]
           /\ \A o \in Objects :
                 /\ view[o] \in Seq(Version) /\ view[o] # << >>
                 /\ Len(view[o]) \in Nat \ {0}
                 /\ Cached(o) \in Version /\ Stored(o) \in Version
                 /\ \A i \in 1..Len(view[o]) : view[o][i] \in Version
                 /\ 1 \in 1..Len(view[o]) /\ Len(view[o]) \in 1..Len(view[o])
           /\ pods \in [Workloads -> SUBSET Pod]
           /\ who \in Platforms \cup {None} /\ pc \in Steps
           /\ (who = None) <=> (pc = "idle")
           /\ pc # "idle" => who \in Platforms
           /\ got \in Content /\ made \in Nat
           /\ deletes \in 0..MaxDeletes /\ faults \in 0..MaxFaults
<1>1. /\ view \in [Objects -> Seq(Version)]
      /\ \A o \in Objects : view[o] \in Seq(Version) /\ view[o] # << >>
  BY DEF TypeOK, Version
<1>2. \A o \in Objects : Len(view[o]) \in Nat \ {0}
  BY <1>1, EmptySeq
<1>3. \A o \in Objects : 1 \in 1..Len(view[o]) /\ Len(view[o]) \in 1..Len(view[o])
  BY <1>2
<1>4. \A o \in Objects : \A i \in 1..Len(view[o]) : view[o][i] \in Version
  BY <1>1, ElementOfSeq
<1>5. \A o \in Objects : Cached(o) \in Version /\ Stored(o) \in Version
  BY <1>3, <1>4 DEF Cached, Stored
<1> QED
  BY <1>1, <1>2, <1>3, <1>4, <1>5 DEF TypeOK, Pod

\* The API server stores version x of object o; the others are not touched.
LEMMA WriteEffect ==
    ASSUME TypeOK, NEW o \in Objects, NEW x \in Version, Write(o, x)
    PROVE  /\ view' \in [Objects -> Seq(Version)]
           /\ \A q \in Objects : view'[q] # << >>
           /\ \A q \in Objects : q # o => view'[q] = view[q]
           /\ Len(view'[o]) = Len(view[o]) + 1
           /\ \A i \in 1..Len(view[o]) : view'[o][i] = view[o][i]
           /\ \A i \in 1..Len(view'[o]) :
                 i \in 1..Len(view[o]) \/ view'[o][i] = x
           /\ Stored(o)' = x
           /\ \A q \in Objects : q # o => Stored(q)' = Stored(q)
<1>1. view' = [view EXCEPT ![o] = Append(view[o], x)]
  BY DEF Write
<1>2. view \in [Objects -> Seq(Version)] /\ view[o] \in Seq(Version)
      /\ Len(view[o]) \in Nat
  BY TypeFacts
<1>3. /\ Append(view[o], x) \in Seq(Version)
      /\ Len(Append(view[o], x)) = Len(view[o]) + 1
      /\ \A i \in 1..Len(view[o]) : Append(view[o], x)[i] = view[o][i]
      /\ Append(view[o], x)[Len(view[o]) + 1] = x
  BY <1>2, AppendProperties
<1>4. /\ view' \in [Objects -> Seq(Version)]
      /\ view'[o] = Append(view[o], x)
      /\ \A q \in Objects : q # o => view'[q] = view[q]
  BY <1>1, <1>2, <1>3
<1>5. \A q \in Objects : view'[q] # << >>
  <2>1. Append(view[o], x) # << >>
    <3>1. Len(Append(view[o], x)) # 0
      BY <1>2, <1>3
    <3>2. Len(<< >>) = 0
      BY EmptySeq
    <3> QED
      BY <3>1, <3>2
  <2> QED
    BY <1>4, <2>1, TypeFacts
<1>6. \A i \in 1..Len(view'[o]) : i \in 1..Len(view[o]) \/ i = Len(view[o]) + 1
  BY <1>2, <1>3, <1>4
<1>7. Stored(o)' = x
  BY <1>3, <1>4 DEF Stored
<1>8. \A q \in Objects : q # o => Stored(q)' = Stored(q)
  BY <1>4 DEF Stored
<1> QED
  BY <1>3, <1>4, <1>5, <1>6, <1>7, <1>8

\* The cache of object o moves on.
LEMMA SyncEffect ==
    ASSUME TypeOK, NEW o \in Objects, Sync(o)
    PROVE  /\ view' \in [Objects -> Seq(Version)]
           /\ \A q \in Objects : view'[q] # << >>
           /\ \A q \in Objects : Stored(q)' = Stored(q)
           /\ \A q \in Objects : \A i \in 1..Len(view'[q]) :
                 \E j \in 1..Len(view[q]) : view'[q][i] = view[q][j]
<1>1. view' = [view EXCEPT ![o] = Tail(view[o])] /\ Len(view[o]) > 1
  BY DEF Sync
<1>2. /\ view \in [Objects -> Seq(Version)] /\ view[o] \in Seq(Version)
      /\ view[o] # << >> /\ Len(view[o]) \in Nat
  BY TypeFacts
<1>3. /\ Tail(view[o]) \in Seq(Version)
      /\ Len(Tail(view[o])) = Len(view[o]) - 1
      /\ \A i \in 1..Len(Tail(view[o])) : Tail(view[o])[i] = view[o][i + 1]
  BY <1>2, HeadTailProperties
<1>4. /\ view' \in [Objects -> Seq(Version)]
      /\ view'[o] = Tail(view[o])
      /\ \A q \in Objects : q # o => view'[q] = view[q]
  BY <1>1, <1>2, <1>3
<1>5. \A q \in Objects : view'[q] # << >>
  <2>0. \A n \in Nat : n > 1 => n - 1 # 0
    OBVIOUS
  <2>1. Len(Tail(view[o])) # 0
    BY <1>1, <1>2, <1>3, <2>0, Zenon
  <2>2. Len(<< >>) = 0
    BY EmptySeq
  <2> QED
    BY <1>4, <2>1, <2>2, TypeFacts
<1>6. \A q \in Objects : Stored(q)' = Stored(q)
  <2>1. /\ Len(Tail(view[o])) \in 1..Len(Tail(view[o]))
        /\ Len(Tail(view[o])) + 1 = Len(view[o])
    BY <1>1, <1>2, <1>3
  <2>2. Stored(o)' = Stored(o)
    BY <1>3, <1>4, <2>1 DEF Stored
  <2>3. \A q \in Objects : q # o => Stored(q)' = Stored(q)
    BY <1>4 DEF Stored
  <2> QED
    BY <2>2, <2>3
<1>7. ASSUME NEW q \in Objects, NEW i \in 1..Len(view'[q])
      PROVE  \E j \in 1..Len(view[q]) : view'[q][i] = view[q][j]
  <2>1. CASE q # o
    BY <1>4, <2>1
  <2>2. CASE q = o
    <3>1. i + 1 \in 1..Len(view[o])
      BY <1>2, <1>3, <1>4, <2>2
    <3> QED
      BY <1>3, <1>4, <2>2, <3>1
  <2> QED
    BY <2>1, <2>2
<1> QED
  BY <1>4, <1>5, <1>6, <1>7

-----------------------------------------------------------------------------
(***************************************************************************)
(* What a call does to the objects.                                        *)
(***************************************************************************)

\* A pass goes on or ends.
LEMMA ContinueTypes ==
    ASSUME who \in Platforms, NEW step \in Steps, Continue(step)
    PROVE  /\ who' \in Platforms \cup {None} /\ pc' \in Steps
           /\ (who' = None) <=> (pc' = "idle")
BY PlatformsAssumption DEF Continue

\* A pass that ends leaves the worker to the next platform.
LEMMA StopTypes ==
    ASSUME Stop
    PROVE  who' = None /\ pc' = "idle" /\ "idle" \in Steps
BY DEF Stop, Continue, Steps

\* apply writes what is absent or belongs to the platform, finds it as it
\* should be, or fails.
LEMMA ApplyEffect ==
    ASSUME TypeOK, NEW o \in Objects, NEW d, NEW next, Apply(o, d, next)
    PROVE  LET x == [owner |-> who, data |-> d] IN
           \/ /\ Write(o, x) /\ Continue(next)
              /\ Stored(o) = Absent \/ Stored(o).owner = who
           \/ Cached(o) = x /\ UNCHANGED view /\ Continue(next)
           \/ UNCHANGED view /\ Stop
<1> DEFINE x == [owner |-> who, data |-> d]
<1>1. CASE Create(o, x, next)
  BY <1>1 DEF Create
<1>2. CASE Cached(o).owner = who /\ Update(o, x, next)
  BY <1>2 DEF Update, Cached, Stored
<1>3. CASE Cached(o) = x /\ Continue(next) /\ UNCHANGED view
  BY <1>3
<1>4. CASE Stop /\ UNCHANGED view
  BY <1>4
<1> QED
  BY <1>1, <1>2, <1>3, <1>4 DEF Apply

\* The content that the pass gives to a new signing key.
LEMMA NewKey ==
    ASSUME TypeOK, who \in Platforms
    PROVE  LET x == [owner |-> who, data |-> [Blank EXCEPT !.key = made + 1]]
           IN  x \in Version /\ x.data.key = made + 1 /\ made + 1 \in Nat \ {0}
<1>1. made + 1 \in Nat /\ made + 1 \in Nat \ {0}
  BY TypeFacts
<1>2. /\ [Blank EXCEPT !["key"] = made + 1] \in Content
      /\ [Blank EXCEPT !["key"] = made + 1]["key"] = made + 1
  BY <1>1, BlankContent, FieldSet
<1> QED
  BY <1>1, <1>2, ObjectMade

\* ensureKeycloakRealmKey creates a key or finds one, or fails.
LEMMA RealmKeyEffect ==
    ASSUME TypeOK, EnsureRealmKey
    PROVE  /\ who \in Platforms /\ pc = "signing-key" /\ made' \in Nat
           /\ Continue("oidc") \/ Stop
           /\ \/ UNCHANGED view
              \/ \E x \in Version :
                    /\ Stored(Kc("signing-key")) = Absent
                    /\ Write(Kc("signing-key"), x)
                    /\ x.data.key \in Nat \ {0}
<1>1. who \in Platforms /\ pc = "signing-key"
  BY TypeFacts DEF EnsureRealmKey
<1>2. made' \in Nat
  BY TypeFacts DEF EnsureRealmKey, Number
<1> QED
  BY <1>1, <1>2, NewKey DEF EnsureRealmKey, Create

\* ensureOIDCSecretKeys writes no other object than the Secret of the clients.
LEMMA OIDCEffect ==
    ASSUME TypeOK, EnsureOIDCSecret
    PROVE  /\ who \in Platforms /\ pc = "oidc" /\ made' \in Nat
           /\ Continue("trino") \/ Stop
           /\ \/ UNCHANGED view
              \/ \E x \in Version : Write(Kc("oidc"), x)
<1> DEFINE o == Kc("oidc")
<1>1. who \in Platforms /\ pc = "oidc" /\ made \in Nat
  BY TypeFacts DEF EnsureOIDCSecret
<1>2. made + 1 \in Nat /\ made + 2 \in Nat
  BY <1>1
<1>3. made' \in Nat
  BY <1>1, <1>2 DEF EnsureOIDCSecret, Number
<1>4. o \in Objects
  BY <1>1, PassObjects DEF Kinds
<1>5. [owner |-> who, data |-> [Blank EXCEPT !.trino = made + 1,
                                             !.opa = made + 2]] \in Version
  <2>1. [Blank EXCEPT !["trino"] = made + 1] \in Content
    BY <1>2, BlankContent, FieldSet
  <2>2. [[Blank EXCEPT !["trino"] = made + 1] EXCEPT !["opa"] = made + 2]
           \in Content
    BY <1>2, <2>1, BlankContent, FieldSet
  <2> QED
    BY <1>1, <2>2, ObjectMade
<1>6. Cached(o) # Absent =>
         [owner |-> Cached(o).owner,
          data |-> [Cached(o).data EXCEPT !.opa = made + 1]] \in Version
  <2>1. CASE Cached(o) # Absent
    <3>1. Cached(o).owner \in Platforms /\ Cached(o).data \in Content
      BY <1>4, <2>1, TypeFacts, VersionFields
    <3>2. [Cached(o).data EXCEPT !["opa"] = made + 1] \in Content
      BY <1>2, <3>1, BlankContent, FieldSet
    <3> QED
      BY <3>1, <3>2, ObjectMade
  <2> QED
    BY <2>1
<1> QED
  BY <1>1, <1>3, <1>5, <1>6 DEF EnsureOIDCSecret, Create, Update

\* What apply leaves: well-typed objects, and a pass that goes on or ends.
LEMMA ApplyTypes ==
    ASSUME TypeOK, who \in Platforms, NEW o \in Objects, NEW d \in Content,
           NEW next \in Steps, Apply(o, d, next)
    PROVE  /\ view' \in [Objects -> Seq(Version)]
           /\ \A q \in Objects : view'[q] # << >>
           /\ who' \in Platforms \cup {None} /\ pc' \in Steps
           /\ (who' = None) <=> (pc' = "idle")
<1> DEFINE x == [owner |-> who, data |-> d]
<1>1. x \in Version
  BY ObjectMade
<1>2. CASE Write(o, x) /\ Continue(next)
  <2>1. /\ view' \in [Objects -> Seq(Version)]
        /\ \A q \in Objects : view'[q] # << >>
    BY <1>1, <1>2, WriteEffect
  <2> QED
    BY <1>2, <2>1, ContinueTypes
<1>3. CASE UNCHANGED view /\ Continue(next)
  <2>1. /\ view' \in [Objects -> Seq(Version)]
        /\ \A q \in Objects : view'[q] # << >>
    BY <1>3, TypeFacts
  <2> QED
    BY <1>3, <2>1, ContinueTypes
<1>4. CASE UNCHANGED view /\ Stop
  <2>1. /\ view' \in [Objects -> Seq(Version)]
        /\ \A q \in Objects : view'[q] # << >>
    BY <1>4, TypeFacts
  <2> QED
    BY <1>4, <2>1, StopTypes
<1> QED
  BY <1>2, <1>3, <1>4, ApplyEffect

\* getSecretData adds a secret to what the pass has read, or fails.
LEMMA ReadEffect ==
    ASSUME TypeOK, NEW o \in Objects, NEW f \in Fields, NEW next,
           Read(o, f, next)
    PROVE  /\ Continue(next) \/ Stop
           /\ \/ UNCHANGED got
              \/ \E k \in Nat : /\ k = Cached(o).data[f]
                                /\ got' = [got EXCEPT ![f] = k]
<1>1. Cached(o).data[f] \in Nat
  BY TypeFacts, VersionFields DEF Content
<1> QED
  BY <1>1 DEF Read

\* The three reads before the realm is rendered.
LEMMA ReadSecretsEffect ==
    ASSUME TypeOK, ReadSecrets
    PROVE  /\ who \in Platforms /\ pc \in {"trino", "opa", "key"}
           /\ \E step \in Steps \ {"keycloak"} : Continue(step)
           /\ got' \in Content
           /\ \/ got'["key"] = got["key"]
              \/ got'["key"] = Cached(Kc("signing-key")).data["key"]
<1>1. who \in Platforms /\ pc \in {"trino", "opa", "key"}
  BY TypeFacts DEF ReadSecrets
<1>2. Kc("oidc") \in Objects /\ Kc("signing-key") \in Objects
  BY <1>1, PassObjects DEF Kinds
<1>3. got \in Content
  BY TypeFacts
<1>4. /\ "idle" \in Steps \ {"keycloak"} /\ "opa" \in Steps \ {"keycloak"}
      /\ "key" \in Steps \ {"keycloak"} /\ "realm" \in Steps \ {"keycloak"}
  BY DEF Steps
<1>5. ASSUME NEW o \in Objects, NEW f \in Fields, NEW next,
             Read(o, f, next), next \in Steps \ {"keycloak"}
      PROVE  /\ \E step \in Steps \ {"keycloak"} : Continue(step)
             /\ got' \in Content
             /\ \/ got'["key"] = got["key"]
                \/ f = "key" /\ got'["key"] = Cached(o).data["key"]
  <2>1. \E step \in Steps \ {"keycloak"} : Continue(step)
    BY <1>4, <1>5, ReadEffect DEF Stop
  <2>2. CASE UNCHANGED got
    BY <1>3, <2>1, <2>2
  <2>3. CASE \E k \in Nat : /\ k = Cached(o).data[f]
                            /\ got' = [got EXCEPT ![f] = k]
    <3>1. PICK k \in Nat : k = Cached(o).data[f] /\ got' = [got EXCEPT ![f] = k]
      BY <2>3
    <3>2. got' \in Content /\ got'[f] = k
          /\ \A g \in Fields : g # f => got'[g] = got[g]
      BY <1>3, <3>1 DEF Content
    <3> QED
      BY <2>1, <3>1, <3>2, BlankContent
  <2> QED
    BY <1>5, <2>2, <2>3, ReadEffect
<1> QED
  BY <1>1, <1>2, <1>4, <1>5, BlankContent DEF ReadSecrets

\* embeddedOIDCConfig reads the client secrets, never the key.
LEMMA ReadConfigEffect ==
    ASSUME TypeOK, ReadConfig
    PROVE  /\ who \in Platforms /\ pc = "config"
           /\ Continue("opa secret") \/ Stop
           /\ got' \in Content /\ got'["key"] = got["key"]
<1> DEFINE d == Cached(Kc("oidc")).data
<1>1. who \in Platforms /\ pc = "config" /\ got \in Content
  BY TypeFacts DEF ReadConfig
<1>2. Kc("oidc") \in Objects
  BY <1>1, PassObjects DEF Kinds
<1>3. d \in Content
  BY <1>2, TypeFacts, VersionFields
<1>4. d["trino"] \in Nat /\ d["opa"] \in Nat
  BY <1>3, BlankContent DEF Content
<1>5. CASE got' = [got EXCEPT !["trino"] = d["trino"], !["opa"] = d["opa"]]
  <2>1. /\ [got EXCEPT !["trino"] = d["trino"]] \in Content
        /\ [got EXCEPT !["trino"] = d["trino"]]["key"] = got["key"]
    BY <1>1, <1>4, BlankContent, FieldSet
  <2> DEFINE g == [got EXCEPT !["trino"] = d["trino"]]
  <2>2. got' = [g EXCEPT !["opa"] = d["opa"]]
    BY <1>5
  <2>3. g \in Content /\ g["key"] = got["key"]
    BY <2>1
  <2> HIDE DEF g
  <2>4. got' \in Content /\ got'["key"] = g["key"]
    BY <1>4, <2>2, <2>3, BlankContent DEF Content
  <2> QED
    BY <1>1, <2>3, <2>4 DEF ReadConfig
<1>6. CASE UNCHANGED got
  BY <1>1, <1>6 DEF ReadConfig
<1> QED
  BY <1>5, <1>6 DEF ReadConfig

-----------------------------------------------------------------------------
(***************************************************************************)
(* Pods.                                                                   *)
(***************************************************************************)

\* Deployments are objects, and so is what their pods load.
LEMMA WorkloadObjects ==
    ASSUME NEW w \in Workloads
    PROVE  /\ w \in Objects /\ Source(w) \in Objects
           /\ w[2] \in Namespaces /\ w = <<w[1], w[2]>>
           /\ w[1] = "keycloak" => Source(w) = <<"realm", w[2]>>
BY DEF Workloads, Objects, Kinds, Source

\* What a pod loads is a content.
LEMMA LoadableContent ==
    ASSUME TypeOK, NEW w \in Workloads
    PROVE  /\ Loadable(w) \in Content
           /\ w[1] = "keycloak" => Loadable(w) = Stored(Source(w)).data
<1> DEFINE d == Stored(Source(w)).data
<1>1. d \in Content
  BY WorkloadObjects, TypeFacts, VersionFields
<1>2. [Blank EXCEPT !["opa"] = d["opa"]] \in Content
  BY <1>1, BlankContent DEF Content
<1> QED
  BY <1>1, <1>2 DEF Loadable

\* The Deployment controller and the kubelet change the pods of one
\* Deployment: a pod there was there before, has loaded nothing yet, or has
\* loaded what is stored.
LEMMA PodEffect ==
    ASSUME TypeOK, NEW w \in Workloads, RunPods(w) \/ LosePod(w)
    PROVE  /\ pods' \in [Workloads -> SUBSET Pod]
           /\ \A v \in Workloads : v # w => pods'[v] = pods[v]
           /\ \A x \in pods'[w] : \/ x \in pods[w]
                                  \/ x.got = Blank
                                  \/ x.got = Loadable(w)
           /\ UNCHANGED <<view, who, pc, got, made, deletes>>
           /\ faults' \in 0..MaxFaults
<1>1. pods \in [Workloads -> SUBSET Pod] /\ pods[w] \subseteq Pod
  BY TypeFacts
<1>2. UNCHANGED <<view, who, pc, got, made, deletes>>
  BY DEF RunPods, StartPod, LoadPod, RetirePod, LosePod, operator, budget
<1>3. faults' \in 0..MaxFaults
  <2>1. faults' = faults \/ (faults < MaxFaults /\ faults' = faults + 1)
    BY DEF RunPods, StartPod, LoadPod, RetirePod, LosePod, budget
  <2> QED
    BY <2>1, TypeFacts, CredentialBounds
<1>4. ASSUME NEW S \in SUBSET Pod, pods' = [pods EXCEPT ![w] = S],
             \A x \in S : x \in pods[w] \/ x.got = Blank \/ x.got = Loadable(w)
      PROVE  /\ pods' \in [Workloads -> SUBSET Pod]
             /\ \A v \in Workloads : v # w => pods'[v] = pods[v]
             /\ \A x \in pods'[w] : \/ x \in pods[w]
                                    \/ x.got = Blank
                                    \/ x.got = Loadable(w)
  BY <1>1, <1>4
<1>5. CASE StartPod(w)
  <2> DEFINE new == [tmpl |-> Stored(w).data, got |-> Blank]
  <2>1. Stored(w).data \in Content
    BY WorkloadObjects, TypeFacts, VersionFields
  <2>2. new \in Pod /\ new.got = Blank
    BY <2>1, BlankContent DEF Pod
  <2>3. pods' = [pods EXCEPT ![w] = pods[w] \cup {new}]
    BY <1>5 DEF StartPod
  <2> HIDE DEF new
  <2> QED
    BY <1>1, <1>2, <1>3, <1>4, <2>2, <2>3
<1>6. CASE LoadPod(w)
  <2> DEFINE d == Loadable(w)
  <2>1. PICK x \in pods[w] :
           pods' = [pods EXCEPT ![w] = (pods[w] \ {x}) \cup {[x EXCEPT !.got = d]}]
    BY <1>6 DEF LoadPod, Loaded
  <2>2. d \in Content
    BY LoadableContent
  <2> DEFINE y == [x EXCEPT !.got = d]
  <2>3. y \in Pod /\ y.got = d
    <3> HIDE DEF d
    <3> QED
      BY <1>1, <2>2 DEF Pod
  <2>4. pods' = [pods EXCEPT ![w] = (pods[w] \ {x}) \cup {y}]
    BY <2>1
  <2> HIDE DEF y
  <2> QED
    BY <1>1, <1>2, <1>3, <1>4, <2>3, <2>4
<1>7. CASE RetirePod(w) \/ LosePod(w)
  <2>1. PICK x \in pods[w] : pods' = [pods EXCEPT ![w] = pods[w] \ {x}]
    BY <1>7 DEF RetirePod, LosePod
  <2> QED
    BY <1>1, <1>2, <1>3, <1>4, <2>1
<1> QED
  BY <1>5, <1>6, <1>7 DEF RunPods

-----------------------------------------------------------------------------
(***************************************************************************)
(* The types.                                                              *)
(***************************************************************************)

\* What an older operator left is well typed.
LEMMA OldObjects ==
    ASSUME NEW o \in Objects
    PROVE  /\ OldObject(o) \in Version
           /\ OldObject(o).data["key"] = 0
           /\ Old \in Content /\ Old["key"] = 0
<1>1. Old \in Content /\ Old["key"] = 0
  BY BlankContent DEF Old, Content
<1>2. CASE \E p \in Platforms : KcNs[p] = o[2]
  <2> DEFINE p == CHOOSE p \in Platforms : KcNs[p] = o[2]
             d == IF o[1] = "namespace" THEN Blank ELSE Old
  <2>1. p \in Platforms
    BY <1>2
  <2>2. d \in Content /\ d["key"] = 0
    BY <1>1, BlankContent
  <2>3. OldObject(o) = [owner |-> p, data |-> d]
    BY <1>2 DEF OldObject
  <2> HIDE DEF p, d
  <2> QED
    BY <1>1, <2>1, <2>2, <2>3, ObjectMade
<1>3. CASE ~\E p \in Platforms : KcNs[p] = o[2]
  BY <1>1, <1>3, AbsentFields DEF OldObject, Version
<1> QED
  BY <1>2, <1>3

\* The cluster starts with one version of each object, and no signing key.
LEMMA InitEffect ==
    ASSUME Init
    PROVE  /\ view \in [Objects -> Seq(Version)]
           /\ \A o \in Objects : /\ view[o] # << >> /\ Len(view[o]) = 1
                                 /\ Stored(o) = view[o][1]
                                 /\ Stored(o) \in {Absent, OldObject(o)}
                                 /\ Stored(o) # Absent => o[1] \in OldKinds
           /\ \A n \in Namespaces :
                 (Stored(<<"keycloak", n>>) # Absent)
                    <=> (Stored(<<"realm", n>>) # Absent)
           /\ made \in Nat
<1>1. PICK upgraded \in BOOLEAN : InitObjects(upgraded)
  BY DEF Init
<1> DEFINE V(o) == IF upgraded /\ o[1] \in OldKinds THEN OldObject(o)
                                                    ELSE Absent
<1>2. view = [o \in Objects |-> <<V(o)>>]
  BY <1>1 DEF InitObjects
<1>3. \A o \in Objects : V(o) \in Version /\ V(o) \in {Absent, OldObject(o)}
                         /\ (V(o) # Absent => o[1] \in OldKinds)
  BY OldObjects DEF Version
<1>4. \A n \in Namespaces : V(<<"keycloak", n>>) = V(<<"realm", n>>)
  BY DEF OldKinds, OldObject
<1>5. \A n \in Namespaces : /\ <<"keycloak", n>> \in Objects
                            /\ <<"realm", n>> \in Objects
  BY DEF Objects, Kinds
<1>6. made \in Nat
  BY <1>1 DEF InitObjects
<1> HIDE DEF V
<1>7. \A o \in Objects : /\ view[o] = <<V(o)>> /\ view[o] # << >>
                         /\ Len(view[o]) = 1 /\ view[o][1] = V(o)
  BY <1>2
<1>8. \A o \in Objects : Stored(o) = V(o)
  BY <1>7 DEF Stored
<1>9. view \in [Objects -> Seq(Version)]
  BY <1>2, <1>3
<1> QED
  BY <1>3, <1>4, <1>5, <1>6, <1>7, <1>8, <1>9

\* The first pods are an older Keycloak's, which signs with no stored key.
LEMMA InitPods ==
    ASSUME Init
    PROVE  /\ pods \in [Workloads -> SUBSET Pod]
           /\ \A w \in Workloads : \A x \in pods[w] : x.got = Old
<1> DEFINE old == [tmpl |-> Old, got |-> Old]
<1>1. Old \in Content
  BY BlankContent DEF Old, Content
<1>2. old \in Pod /\ old.got = Old
  BY <1>1 DEF Pod
<1>3. pods = [w \in Workloads |->
                 IF w[1] = "keycloak" /\ Stored(w) # Absent THEN {old} ELSE {}]
  BY DEF Init
<1> HIDE DEF old
<1> QED
  BY <1>2, <1>3

\* An empty cluster, and what an older operator left, are well-typed.
LEMMA TypeInit == Init => TypeOK
<1> SUFFICES ASSUME Init PROVE TypeOK
  OBVIOUS
<1>1. /\ view \in [Objects -> Seq(Version)]
      /\ \A o \in Objects : view[o] # << >>
      /\ made \in Nat
  BY InitEffect
<1>2. pods \in [Workloads -> SUBSET Pod]
  BY InitPods
<1>3. who = None /\ pc = "idle" /\ got = Blank /\ deletes = 0 /\ faults = 0
  BY DEF Init
<1>4. deletes \in 0..MaxDeletes /\ faults \in 0..MaxFaults
  BY <1>3, CredentialBounds
<1> QED
  BY <1>1, <1>2, <1>3, <1>4, BlankContent DEF TypeOK, Version, Pod, Steps

\* A call of the pass.
LEMMA HandleTypes ==
    ASSUME TypeOK, Handle
    PROVE  TypeOK'
<1> USE TypeFacts
<1>1. pods' = pods /\ deletes' = deletes /\ faults' = faults
  BY DEF Handle, EnsureNamespace, EnsureRealmKey, EnsureOIDCSecret,
         ReadSecrets, ApplyRealm, ApplyKeycloak, ReadConfig,
         ApplyOPASecret, ApplyOPADeployment, budget
<1>2. who \in Platforms
  BY DEF Handle, EnsureNamespace, EnsureRealmKey, EnsureOIDCSecret,
         ReadSecrets, ApplyRealm, ApplyKeycloak, ReadConfig,
         ApplyOPASecret, ApplyOPADeployment
<1>3. \A kind \in Kinds : Kc(kind) \in Objects /\ Fga(kind) \in Objects
  BY <1>2, PassObjects
<1>4. SUFFICES /\ view' \in [Objects -> Seq(Version)]
               /\ \A q \in Objects : view'[q] # << >>
               /\ who' \in Platforms \cup {None} /\ pc' \in Steps
               /\ (who' = None) <=> (pc' = "idle")
               /\ got' \in Content /\ made' \in Nat
  BY <1>1, <1>4 DEF TypeOK, Version, Pod
<1>5. ASSUME UNCHANGED view
      PROVE  /\ view' \in [Objects -> Seq(Version)]
             /\ \A q \in Objects : view'[q] # << >>
  BY <1>5
<1>6. ASSUME NEW o \in Objects, NEW x \in Version, Write(o, x)
      PROVE  /\ view' \in [Objects -> Seq(Version)]
             /\ \A q \in Objects : view'[q] # << >>
  BY <1>6, WriteEffect
<1>7. \A step \in Steps : Continue(step) =>
         /\ who' \in Platforms \cup {None} /\ pc' \in Steps
         /\ (who' = None) <=> (pc' = "idle")
  BY <1>2, ContinueTypes
<1>8. Stop =>
         /\ who' \in Platforms \cup {None} /\ pc' \in Steps
         /\ (who' = None) <=> (pc' = "idle")
  BY StopTypes
<1>9. CASE EnsureNamespace
  <2> DEFINE o == Kc("namespace")
             x == [owner |-> who, data |-> Blank]
  <2>1. o \in Objects /\ x \in Version
    BY <1>2, <1>3, BlankContent, ObjectMade DEF Kinds
  <2>2. UNCHANGED view \/ Write(o, x)
    BY <1>9 DEF EnsureNamespace, Create
  <2>3. Continue("signing-key") \/ Stop
    BY <1>9 DEF EnsureNamespace, Create
  <2>4. UNCHANGED <<got, made>>
    BY <1>9 DEF EnsureNamespace
  <2>5. "signing-key" \in Steps
    BY DEF Steps
  <2> HIDE DEF o, x
  <2>6. /\ view' \in [Objects -> Seq(Version)]
        /\ \A q \in Objects : view'[q] # << >>
    BY <1>5, <1>6, <2>1, <2>2
  <2> QED
    BY <1>7, <1>8, <2>3, <2>4, <2>5, <2>6
<1>10. CASE EnsureRealmKey
  <2>1. /\ made' \in Nat
        /\ Continue("oidc") \/ Stop
        /\ UNCHANGED view \/ \E x \in Version : Write(Kc("signing-key"), x)
    BY <1>10, RealmKeyEffect
  <2>2. UNCHANGED got
    BY <1>10 DEF EnsureRealmKey
  <2>3. "oidc" \in Steps /\ Kc("signing-key") \in Objects
    BY <1>3 DEF Steps, Kinds
  <2>4. /\ view' \in [Objects -> Seq(Version)]
        /\ \A q \in Objects : view'[q] # << >>
    BY <1>5, <1>6, <2>1, <2>3
  <2> QED
    BY <1>7, <1>8, <2>1, <2>2, <2>3, <2>4
<1>11. CASE EnsureOIDCSecret
  <2>1. /\ made' \in Nat
        /\ Continue("trino") \/ Stop
        /\ UNCHANGED view \/ \E x \in Version : Write(Kc("oidc"), x)
    BY <1>11, OIDCEffect
  <2>2. UNCHANGED got
    BY <1>11 DEF EnsureOIDCSecret
  <2>3. "trino" \in Steps /\ Kc("oidc") \in Objects
    BY <1>3 DEF Steps, Kinds
  <2>4. /\ view' \in [Objects -> Seq(Version)]
        /\ \A q \in Objects : view'[q] # << >>
    BY <1>5, <1>6, <2>1, <2>3
  <2> QED
    BY <1>7, <1>8, <2>1, <2>2, <2>3, <2>4
<1>12. CASE ReadSecrets
  <2>1. \E step \in Steps : Continue(step)
    BY <1>12, ReadSecretsEffect
  <2>2. got' \in Content
    BY <1>12, ReadSecretsEffect
  <2>3. UNCHANGED <<view, made>>
    BY <1>12 DEF ReadSecrets
  <2> QED
    BY <1>5, <1>7, <2>1, <2>2, <2>3
<1>13. CASE ApplyRealm
  <2>1. Apply(Kc("realm"), got, "keycloak") /\ UNCHANGED <<got, made>>
    BY <1>13 DEF ApplyRealm
  <2>2. Kc("realm") \in Objects /\ "keycloak" \in Steps /\ got \in Content
    BY <1>3 DEF Kinds, Steps
  <2> QED
    BY <1>2, <2>1, <2>2, ApplyTypes
<1>14. CASE ApplyKeycloak
  <2>1. Apply(Kc("keycloak"), got, "config") /\ UNCHANGED <<got, made>>
    BY <1>14 DEF ApplyKeycloak
  <2>2. Kc("keycloak") \in Objects /\ "config" \in Steps /\ got \in Content
    BY <1>3 DEF Kinds, Steps
  <2> QED
    BY <1>2, <2>1, <2>2, ApplyTypes
<1>15. CASE ReadConfig
  <2>1. (Continue("opa secret") \/ Stop) /\ got' \in Content
    BY <1>15, ReadConfigEffect
  <2>2. UNCHANGED <<view, made>> /\ "opa secret" \in Steps
    BY <1>15 DEF ReadConfig, Steps
  <2> QED
    BY <1>5, <1>7, <1>8, <2>1, <2>2
<1>17. CASE ApplyOPASecret
  <2> DEFINE d == [Blank EXCEPT !["opa"] = got["opa"]]
  <2>1. Apply(Fga("oidc"), d, "opa deploy") /\ UNCHANGED <<got, made>>
    BY <1>17 DEF ApplyOPASecret
  <2>2. Fga("oidc") \in Objects /\ "opa deploy" \in Steps
    BY <1>3 DEF Kinds, Steps
  <2>3. got["opa"] \in Nat
    BY BlankContent DEF Content
  <2>4. d \in Content
    BY <2>3, BlankContent DEF Content
  <2> HIDE DEF d
  <2> QED
    BY <1>2, <2>1, <2>2, <2>4, ApplyTypes
<1>18. CASE ApplyOPADeployment
  <2>1. Apply(Fga("opa"), Blank, "idle") /\ UNCHANGED <<got, made>>
    BY <1>18 DEF ApplyOPADeployment
  <2>2. Fga("opa") \in Objects /\ "idle" \in Steps
    BY <1>3 DEF Kinds, Steps
  <2> QED
    BY <1>2, <2>1, <2>2, BlankContent, ApplyTypes
<1> QED
  BY <1>9, <1>10, <1>11, <1>12, <1>13, <1>14, <1>15, <1>17, <1>18
     DEF Handle

\* DeleteSecret writes an absent version of a generated Secret.
LEMMA DeleteEffect ==
    ASSUME NEW p \in Platforms, NEW kind \in {"signing-key", "oidc"},
           DeleteSecret(<<kind, KcNs[p]>>)
    PROVE  /\ <<kind, KcNs[p]>> \in Objects /\ Absent \in Version
           /\ Write(<<kind, KcNs[p]>>, Absent)
           /\ UNCHANGED <<pods, who, pc, got, made, faults>>
           /\ deletes < MaxDeletes /\ deletes' = deletes + 1
BY NamespacesAssumption DEF DeleteSecret, Objects, Kinds, Version, operator

\* Every step of handlers, informers, cluster and administrator keeps the types.
LEMMA TypeStep == TypeOK /\ [Next]_vars => TypeOK'
<1> SUFFICES ASSUME TypeOK, [Next]_vars PROVE TypeOK'
  OBVIOUS
<1>1. CASE UNCHANGED vars
  BY <1>1 DEF vars, TypeOK
<1>2. ASSUME NEW p \in Platforms, Begin(p) PROVE TypeOK'
  <2>1. /\ UNCHANGED <<view, pods, made, deletes, faults>>
        /\ who' = p /\ pc' = "namespace" /\ got' = Blank
    BY <1>2 DEF Begin, budget
  <2> QED
    BY <2>1, BlankContent, PlatformsAssumption DEF TypeOK, Steps
<1>3. CASE Handle
  BY <1>3, HandleTypes
<1>4. CASE Fail
  <2>1. UNCHANGED <<view, pods, got, made, deletes>> /\ who' = None /\ pc' = "idle"
    BY <1>4, StopTypes DEF Fail
  <2>2. faults' \in 0..MaxFaults
    BY <1>4, TypeFacts, CredentialBounds DEF Fail
  <2> QED
    BY <2>1, <2>2 DEF TypeOK, Steps
<1>5. ASSUME NEW o \in Objects, Sync(o) PROVE TypeOK'
  <2>1. UNCHANGED <<pods, who, pc, got, made, deletes, faults>>
    BY <1>5 DEF Sync, operator, budget
  <2>2. /\ view' \in [Objects -> Seq(Version)]
        /\ \A q \in Objects : view'[q] # << >>
    BY <1>5, SyncEffect
  <2> QED
    BY <2>1, <2>2 DEF TypeOK, Version
<1>6. ASSUME NEW w \in Workloads, RunPods(w) \/ LosePod(w) PROVE TypeOK'
  <2>1. /\ pods' \in [Workloads -> SUBSET Pod] /\ faults' \in 0..MaxFaults
        /\ UNCHANGED <<view, who, pc, got, made, deletes>>
    BY <1>6, PodEffect
  <2> QED
    BY <2>1 DEF TypeOK, Pod
<1>7. ASSUME NEW p \in Platforms, NEW kind \in {"signing-key", "oidc"},
             DeleteSecret(<<kind, KcNs[p]>>)
      PROVE  TypeOK'
  <2>1. /\ <<kind, KcNs[p]>> \in Objects /\ Absent \in Version
        /\ Write(<<kind, KcNs[p]>>, Absent)
        /\ UNCHANGED <<pods, who, pc, got, made, faults>>
        /\ deletes < MaxDeletes /\ deletes' = deletes + 1
    BY <1>7, DeleteEffect
  <2>2. /\ view' \in [Objects -> Seq(Version)]
        /\ \A q \in Objects : view'[q] # << >>
    BY <2>1, WriteEffect
  <2>3. deletes' \in 0..MaxDeletes
    BY <2>1, TypeFacts, CredentialBounds
  <2> QED
    BY <2>1, <2>2, <2>3 DEF TypeOK, Version
<1> QED
  BY <1>1, <1>2, <1>3, <1>4, <1>5, <1>6, <1>7 DEF Next

\* Every version of an object is absent or owned by a platform, whatever
\* order the calls of the passes, the informers and the pods take.
THEOREM TypesHold == Spec => []TypeOK
<1>1. Init => TypeOK
  BY TypeInit
<1>2. TypeOK /\ [Next]_vars => TypeOK'
  BY TypeStep
<1> QED
  BY <1>1, <1>2, PTL DEF Spec

-----------------------------------------------------------------------------
(***************************************************************************)
(* Ownership: SetControllerReference refuses an object of another owner,   *)
(* but it looks at the cached version.                                     *)
(***************************************************************************)

\* A step that stores no new version of object o.
Kept(o) ==
    /\ Stored(o)' = Stored(o)
    /\ \A i \in 1..Len(view'[o]) : \E j \in 1..Len(view[o]) :
          view'[o][i] = view[o][j]

\* An object that is not written keeps its versions.
LEMMA KeptSame ==
    ASSUME NEW o, view'[o] = view[o]
    PROVE  Kept(o)
BY DEF Kept, Stored

\* A step in which the pass stores an object that is its own.
OwnWrite(o) ==
    \E x \in Object : /\ x.owner = who /\ Write(o, x)
                      /\ Stored(o) = Absent \/ Stored(o).owner = who

\* The objects written through apply: realm, Keycloak's and OPA's Deployment.
LEMMA AppliedObjects ==
    ASSUME NEW o \in Applied
    PROVE  /\ o \in Objects /\ o[1] \in {"realm", "keycloak", "opa"}
           /\ o[2] \in Namespaces /\ o = <<o[1], o[2]>>
BY DEF Applied, Objects, Kinds

\* What one apply does to all the applied objects.
LEMMA ApplyOwned ==
    ASSUME TypeOK, who \in Platforms, NEW q \in Objects, NEW d \in Content,
           NEW next, Apply(q, d, next), NEW o \in Applied
    PROVE  Kept(o) \/ (q = o /\ OwnWrite(o))
<1> DEFINE x == [owner |-> who, data |-> d]
<1>1. x \in Object /\ x \in Version /\ x.owner = who
  BY ObjectMade
<1>2. CASE UNCHANGED view
  BY <1>2, KeptSame
<1>3. CASE Write(q, x) /\ (Stored(q) = Absent \/ Stored(q).owner = who)
  <2>1. CASE q = o
    BY <1>1, <1>3, <2>1 DEF OwnWrite
  <2>2. CASE q # o
    BY <1>1, <1>3, <2>2, WriteEffect, AppliedObjects, KeptSame
  <2> QED
    BY <2>1, <2>2
<1> QED
  BY <1>2, <1>3, ApplyEffect

\* The steps that store an applied object: keycloak's Deployment is stored
\* at its own place in the pass, for the pass's namespace.
LEMMA AppliedStep ==
    ASSUME TypeOK, [Next]_vars, NEW o \in Applied
    PROVE  \/ Kept(o)
           \/ /\ OwnWrite(o)
              /\ o[1] = "keycloak" => pc = "keycloak" /\ o[2] = KcNs[who]
<1> USE TypeFacts
<1>1. o \in Objects /\ o[1] \in {"realm", "keycloak", "opa"}
  BY AppliedObjects
<1>2. CASE UNCHANGED view
  BY <1>2, KeptSame
<1>3. ASSUME NEW q \in Objects, NEW x \in Version, Write(q, x), q # o
      PROVE  Kept(o)
  BY <1>1, <1>3, WriteEffect, KeptSame
<1>4. CASE Handle
  <2>1. who \in Platforms
    BY <1>4
       DEF Handle, EnsureNamespace, EnsureRealmKey, EnsureOIDCSecret,
           ReadSecrets, ApplyRealm, ApplyKeycloak, ReadConfig,
           ApplyOPASecret, ApplyOPADeployment
  <2>2. \A kind \in Kinds : Kc(kind) \in Objects /\ Fga(kind) \in Objects
    BY <2>1, PassObjects
  <2>3. CASE EnsureNamespace
    <3> DEFINE q == Kc("namespace")
               x == [owner |-> who, data |-> Blank]
    <3>1. q \in Objects /\ x \in Version
      BY <2>1, <2>2, BlankContent, ObjectMade DEF Kinds
    <3>2. UNCHANGED view \/ Write(q, x)
      BY <2>3 DEF EnsureNamespace, Create
    <3>3. q # o
      BY <1>1 DEF Kc
    <3> HIDE DEF q, x
    <3> QED
      BY <1>2, <1>3, <3>1, <3>2, <3>3
  <2>4. CASE EnsureRealmKey
    <3>1. UNCHANGED view \/ \E x \in Version : Write(Kc("signing-key"), x)
      BY <2>4, RealmKeyEffect
    <3>2. Kc("signing-key") \in Objects /\ Kc("signing-key") # o
      BY <1>1, <2>2, SMTT(30) DEF Kc, Kinds
    <3> QED
      BY <1>2, <1>3, <3>1, <3>2
  <2>5. CASE EnsureOIDCSecret
    <3>1. UNCHANGED view \/ \E x \in Version : Write(Kc("oidc"), x)
      BY <2>5, OIDCEffect
    <3>2. Kc("oidc") \in Objects /\ Kc("oidc") # o
      BY <1>1, <2>2, SMTT(30) DEF Kc, Kinds
    <3> QED
      BY <1>2, <1>3, <3>1, <3>2
  <2>6. CASE ApplyRealm
    <3>1. Apply(Kc("realm"), got, "keycloak")
      BY <2>6 DEF ApplyRealm
    <3>2. Kc("realm") \in Objects /\ Kc("realm")[1] = "realm"
      BY <2>2 DEF Kinds, Kc
    <3> QED
      BY <2>1, <3>1, <3>2, ApplyOwned
  <2>7. CASE ApplyKeycloak
    <3>1. Apply(Kc("keycloak"), got, "config") /\ pc = "keycloak"
      BY <2>7 DEF ApplyKeycloak
    <3>2. Kc("keycloak") \in Objects /\ Kc("keycloak")[2] = KcNs[who]
      BY <2>2 DEF Kinds, Kc
    <3> QED
      BY <2>1, <3>1, <3>2, ApplyOwned
  <2>8. CASE ApplyOPASecret
    <3> DEFINE d == [Blank EXCEPT !["opa"] = got["opa"]]
    <3>1. Apply(Fga("oidc"), d, "opa deploy")
      BY <2>8 DEF ApplyOPASecret
    <3>2. got["opa"] \in Nat
      BY BlankContent DEF Content
    <3>3. d \in Content
      BY <3>2, BlankContent DEF Content
    <3>4. Fga("oidc") \in Objects /\ Fga("oidc") # o
      BY <1>1, <2>2, SMTT(30) DEF Fga, Kinds
    <3> HIDE DEF d
    <3> QED
      BY <2>1, <3>1, <3>3, <3>4, ApplyOwned
  <2>9. CASE ApplyOPADeployment
    <3>1. Apply(Fga("opa"), Blank, "idle")
      BY <2>9 DEF ApplyOPADeployment
    <3>2. Fga("opa") \in Objects /\ Fga("opa")[1] = "opa"
      BY <2>2 DEF Kinds, Fga
    <3> QED
      BY <2>1, <3>1, <3>2, BlankContent, ApplyOwned
  <2>10. CASE ReadSecrets \/ ReadConfig
    BY <1>2, <2>10 DEF ReadSecrets, ReadConfig
  <2> QED
    BY <1>4, <2>3, <2>4, <2>5, <2>6, <2>7, <2>8, <2>9, <2>10 DEF Handle
<1>5. ASSUME NEW q \in Objects, Sync(q) PROVE Kept(o)
  BY <1>1, <1>5, SyncEffect DEF Kept
<1>6. ASSUME NEW w \in Workloads, RunPods(w) \/ LosePod(w) PROVE Kept(o)
  BY <1>2, <1>6, PodEffect, KeptSame
<1>7. ASSUME NEW p \in Platforms, NEW kind \in {"signing-key", "oidc"},
             DeleteSecret(<<kind, KcNs[p]>>)
      PROVE  Kept(o)
  <2>1. <<kind, KcNs[p]>> # o
    BY <1>1
  <2> QED
    BY <1>3, <1>7, <2>1, DeleteEffect
<1>8. CASE UNCHANGED vars \/ Fail \/ \E p \in Platforms : Begin(p)
  BY <1>2, <1>8 DEF vars, Fail, Begin
<1> QED
  BY <1>4, <1>5, <1>6, <1>7, <1>8 DEF Next

\* An applied object is only written by a pass of its owner, although
\* apply compares the owner with the cached version: an API server that
\* refuses updates of old versions makes the check hold for the stored one.
THEOREM OnlyOwnersWrite == Spec => OwnerWrites
<1>1. ASSUME TypeOK, [Next]_vars, NEW o \in Applied
      PROVE  Stored(o)' # Stored(o) /\ Stored(o) # Absent
                => Stored(o).owner = who
  BY <1>1, AppliedStep DEF Kept, OwnWrite
<1>2. TypeOK /\ [Next]_vars =>
         [\A o \in Applied :
             Stored(o)' # Stored(o) /\ Stored(o) # Absent
             => Stored(o).owner = who]_vars
  BY <1>1
<1> QED
  BY <1>2, TypesHold, PTL DEF Spec, OwnerWrites

\* The versions of one applied object keep their common owner.
LEMMA VersionsOwned ==
    ASSUME TypeOK, OwnedInv, NEW o \in Applied, Kept(o) \/ OwnWrite(o)
    PROVE  \A i \in 1..Len(view'[o]) :
              view'[o][i] # Absent => view'[o][i].owner = Stored(o)'.owner
<1>1. o \in Objects /\ Stored(o) \in Version
  BY AppliedObjects, TypeFacts
<1>2. \A i \in 1..Len(view[o]) :
         view[o][i] # Absent => view[o][i].owner = Stored(o).owner
  BY DEF OwnedInv
<1>3. CASE Kept(o)
  BY <1>2, <1>3 DEF Kept
<1>4. CASE OwnWrite(o)
  <2>1. PICK x \in Object : /\ x.owner = who /\ Write(o, x)
                            /\ Stored(o) = Absent \/ Stored(o).owner = who
    BY <1>4 DEF OwnWrite
  <2>2. x \in Version
    BY DEF Version
  <2>3. /\ Stored(o)' = x
        /\ \A i \in 1..Len(view[o]) : view'[o][i] = view[o][i]
        /\ \A i \in 1..Len(view'[o]) : i \in 1..Len(view[o]) \/ view'[o][i] = x
    BY <1>1, <2>1, <2>2, WriteEffect
  <2>4. ASSUME NEW i \in 1..Len(view[o]), view[o][i] # Absent
        PROVE  view[o][i].owner = who
    <3>1. view[o][i].owner \in Platforms
      BY <1>1, <2>4, TypeFacts, VersionFields
    <3> QED
      BY <1>2, <2>1, <2>4, <3>1, AbsentFields, PlatformsAssumption
  <2> QED
    BY <2>1, <2>3, <2>4
<1> QED
  BY <1>3, <1>4

\* A pass gets to Keycloak's Deployment through the realm only.
LEMMA ToKeycloak ==
    ASSUME TypeOK, OwnedInv, [Next]_vars, pc' = "keycloak"
    PROVE  /\ who' = who /\ who \in Platforms
           /\ Stored(<<"realm", KcNs[who]>>)'.owner = who
<1> USE TypeFacts
<1>1. CASE ApplyRealm
  <2>1. Apply(Kc("realm"), got, "keycloak") /\ who \in Platforms /\ pc = "realm"
    BY <1>1 DEF ApplyRealm
  <2>2. PICK n \in Namespaces : n = KcNs[who]
    BY <2>1, PassObjects
  <2> DEFINE o == <<"realm", n>>
             x == [owner |-> who, data |-> got]
  <2>3. o \in Objects /\ o \in Applied /\ o = Kc("realm")
    BY <2>2 DEF Kc, Applied, Kinds, Objects
  <2>4. x \in Version /\ x.owner = who /\ x # Absent
    BY <2>1, ObjectMade, AbsentFields
  <2>5. \/ Write(o, x) /\ Continue("keycloak")
        \/ Cached(o) = x /\ UNCHANGED view /\ Continue("keycloak")
    <3>1. ~Stop
      BY StopTypes
    <3> QED
      BY <2>1, <2>3, <3>1, ApplyEffect
  <2>6. who' = who
    BY <2>5 DEF Continue
  <2>7. Stored(o)'.owner = who
    <3>1. CASE Write(o, x)
      BY <2>3, <2>4, <3>1, WriteEffect
    <3>2. CASE Cached(o) = x /\ UNCHANGED view
      <4>1. Stored(o)' = Stored(o)
        BY <3>2 DEF Stored
      <4>2. x.owner = Stored(o).owner
        BY <2>3, <2>4, <3>2 DEF OwnedInv, Cached
      <4> QED
        BY <2>4, <4>1, <4>2
    <3> QED
      BY <2>5, <3>1, <3>2
  <2>8. KcNs[who'] = n
    BY <2>2, <2>6
  <2>9. Stored(<<"realm", KcNs[who]>>)'.owner = who
    BY <2>7, <2>8 DEF Stored
  <2> QED
    BY <2>1, <2>6, <2>9
<1>2. CASE UNCHANGED <<who, pc>> /\ \A q \in Applied : Kept(q)
  <2>1. who \in Platforms /\ pc = "keycloak" /\ who' = who
    BY <1>2
  <2>2. <<"realm", KcNs[who]>> \in Applied
    BY <2>1, PassObjects DEF Applied
  <2>3. Stored(<<"realm", KcNs[who]>>).owner = who
    BY <2>1 DEF OwnedInv, Kc
  <2> QED
    BY <1>2, <2>1, <2>2, <2>3 DEF Kept, Stored
<1>3. Handle => ApplyRealm
  <2>1. ASSUME Handle, ~ApplyRealm PROVE FALSE
    <3>1. ~Stop
      BY StopTypes
    <3>2. \A step : Continue(step) => step = "keycloak"
      BY DEF Continue
    <3>3. CASE ReadSecrets
      BY <3>2, <3>3, ReadSecretsEffect
    <3>4. CASE EnsureNamespace
      BY <3>1, <3>2, <3>4 DEF EnsureNamespace, Create
    <3>5. CASE EnsureRealmKey
      BY <3>1, <3>2, <3>5, RealmKeyEffect
    <3>6. CASE EnsureOIDCSecret
      BY <3>1, <3>2, <3>6, OIDCEffect
    <3>7. CASE ReadConfig
      BY <3>1, <3>2, <3>7, ReadConfigEffect
    <3>8. ASSUME NEW o, NEW d, NEW next, Apply(o, d, next), next # "keycloak"
          PROVE  FALSE
      BY <3>1, <3>2, <3>8 DEF Apply, Create, Update
    <3>9. CASE ApplyKeycloak \/ ApplyOPASecret \/ ApplyOPADeployment
      BY <3>8, <3>9 DEF ApplyKeycloak, ApplyOPASecret, ApplyOPADeployment
    <3> QED
      BY <2>1, <3>3, <3>4, <3>5, <3>6, <3>7, <3>9 DEF Handle
  <2> QED
    BY <2>1
<1>4. ~Fail /\ \A p \in Platforms : ~Begin(p)
  BY StopTypes DEF Fail, Begin
<1>5. ~Handle => UNCHANGED <<who, pc>>
  BY <1>4, PodEffect, DeleteEffect DEF Next, vars, Sync, operator
<1>6. UNCHANGED <<who, pc>> /\ ~Handle => \A q \in Applied : Kept(q)
  <2>1. ASSUME UNCHANGED <<who, pc>>, ~Handle, NEW q \in Applied PROVE Kept(q)
    <3>1. q \in Objects /\ q[1] \in {"realm", "keycloak", "opa"}
      BY AppliedObjects
    <3>2. ASSUME NEW o \in Objects, Sync(o) PROVE Kept(q)
      BY <3>1, <3>2, SyncEffect DEF Kept
    <3>3. ASSUME NEW w \in Workloads, RunPods(w) \/ LosePod(w) PROVE Kept(q)
      BY <3>3, PodEffect, KeptSame
    <3>4. ASSUME NEW p \in Platforms, NEW kind \in {"signing-key", "oidc"},
                 DeleteSecret(<<kind, KcNs[p]>>)
          PROVE  Kept(q)
      <4>1. <<kind, KcNs[p]>> # q
        BY <3>1
      <4> QED
        BY <3>1, <3>4, <4>1, DeleteEffect, WriteEffect, KeptSame, ZenonT(30)
    <3>5. CASE UNCHANGED vars
      BY <3>5, KeptSame DEF vars
    <3> QED
      BY <1>4, <2>1, <3>2, <3>3, <3>4, <3>5 DEF Next
  <2> QED
    BY <2>1
<1> QED
  BY <1>1, <1>2, <1>3, <1>5, <1>6

\* At first the objects that an older operator left have one owner each.
LEMMA OwnedInit == Init => OwnedInv /\ OneOwner
<1> SUFFICES ASSUME Init PROVE OwnedInv /\ OneOwner
  OBVIOUS
<1>1. \A o \in Applied : o \in Objects
  BY AppliedObjects
<1>2. \A o \in Applied : \A i \in 1..Len(view[o]) : view[o][i] = Stored(o)
  BY <1>1, InitEffect
<1>3. OwnedInv
  BY <1>2 DEF OwnedInv, Init
<1>4. ASSUME NEW n \in Namespaces, Stored(<<"keycloak", n>>) # Absent
      PROVE  Stored(<<"keycloak", n>>).owner = Stored(<<"realm", n>>).owner
  <2>1. <<"keycloak", n>> \in Objects /\ <<"realm", n>> \in Objects
    BY DEF Objects, Kinds
  <2>2. /\ Stored(<<"keycloak", n>>) = OldObject(<<"keycloak", n>>)
        /\ Stored(<<"realm", n>>) = OldObject(<<"realm", n>>)
    BY <1>4, <2>1, InitEffect
  <2>3. OldObject(<<"keycloak", n>>) = OldObject(<<"realm", n>>)
    BY DEF OldObject
  <2> QED
    BY <2>2, <2>3
<1> QED
  BY <1>3, <1>4 DEF OneOwner

\* SetControllerReference refuses an object of another owner before the write,
\* and the write is refused when the owner was read from a stale copy.
LEMMA OwnedStep ==
    TypeOK /\ OwnedInv /\ OneOwner /\ [Next]_vars => (OwnedInv /\ OneOwner)'
<1> SUFFICES ASSUME TypeOK, OwnedInv, OneOwner, [Next]_vars
             PROVE  (OwnedInv /\ OneOwner)'
  OBVIOUS
<1>1. \A o \in Applied : \A i \in 1..Len(view'[o]) :
         view'[o][i] # Absent => view'[o][i].owner = Stored(o)'.owner
  BY AppliedStep, VersionsOwned
<1>2. pc' = "keycloak" => Stored(Kc("realm"))'.owner = who'
  <2>1. CASE pc' = "keycloak"
    <3>1. who' = who /\ Stored(<<"realm", KcNs[who]>>)'.owner = who
      BY <2>1, ToKeycloak
    <3> QED
      BY <3>1 DEF Kc, Stored
  <2> QED
    BY <2>1
<1>3. OwnedInv'
  BY <1>1, <1>2 DEF OwnedInv, Stored
<1>4. ASSUME NEW n \in Namespaces, Stored(<<"keycloak", n>>)' # Absent
      PROVE  Stored(<<"keycloak", n>>)'.owner = Stored(<<"realm", n>>)'.owner
  <2> DEFINE k == <<"keycloak", n>>
             r == <<"realm", n>>
  <2>1. /\ k \in Applied /\ r \in Applied /\ k \in Objects /\ r \in Objects
        /\ k # r /\ k[1] = "keycloak" /\ k[2] = n /\ r[1] = "realm"
    BY DEF Applied, Objects, Kinds
  <2>2. Stored(k) # Absent => Stored(k).owner = Stored(r).owner
    BY DEF OneOwner
  <2>3. Stored(k) \in Version /\ Stored(r) \in Version
    BY <2>1, TypeFacts
  <2> HIDE DEF k, r
  <2>4. ASSUME NEW o \in Applied, OwnWrite(o)
        PROVE  /\ Stored(o)'.owner = who
               /\ \A q \in Applied : q # o => Stored(q)' = Stored(q)
               /\ Stored(o) = Absent \/ Stored(o).owner = who
    <3>1. PICK x \in Object : /\ x.owner = who /\ Write(o, x)
                              /\ Stored(o) = Absent \/ Stored(o).owner = who
      BY <2>4 DEF OwnWrite
    <3>2. x \in Version
      BY DEF Version
    <3>3. \A q \in Applied : q \in Objects
      BY AppliedObjects
    <3> QED
      BY <3>1, <3>2, <3>3, WriteEffect
  <2>5. CASE OwnWrite(k) /\ pc = "keycloak" /\ n = KcNs[who]
    <3>1. Stored(r).owner = who
      BY <2>5 DEF OwnedInv, Kc, r
    <3> QED
      BY <2>1, <2>4, <2>5, <3>1 DEF k, r
  <2>6. CASE Kept(k) /\ OwnWrite(r)
    <3>1. Stored(k)' = Stored(k) /\ Stored(k) # Absent
      BY <1>4, <2>6 DEF Kept, k
    <3>2. Stored(k).owner \in Platforms
      BY <2>3, <3>1, VersionFields
    <3>3. Stored(r).owner = who
      BY <2>1, <2>2, <2>4, <2>6, <3>1, <3>2, AbsentFields, PlatformsAssumption
    <3> QED
      BY <2>1, <2>2, <2>4, <2>6, <3>1, <3>3 DEF k, r
  <2>7. CASE Kept(k) /\ Kept(r)
    BY <1>4, <2>2, <2>7 DEF Kept, k, r
  <2> QED
    BY <2>1, <2>5, <2>6, <2>7, AppliedStep
<1>5. OneOwner'
  BY <1>4 DEF OneOwner, Stored
<1> QED
  BY <1>3, <1>5

\* Platforms that compete for a namespace never each win a part of it: the
\* realm and the Keycloak that imports it have one owner.
THEOREM RealmAndKeycloakOneOwner == Spec => []OneOwner
<1>1. Init => OwnedInv /\ OneOwner
  BY OwnedInit
<1>2. TypeOK /\ (OwnedInv /\ OneOwner) /\ [Next]_vars
         => (OwnedInv /\ OneOwner)'
  BY OwnedStep
<1> QED
  BY <1>1, <1>2, TypesHold, PTL DEF Spec

-----------------------------------------------------------------------------
(***************************************************************************)
(* The signing key: the Secret is looked up in the cache, so the pass may  *)
(* try to make a second key; the API server refuses it.                    *)
(***************************************************************************)
Sk(n) == <<"signing-key", n>>

\* A step in which the pass stores the first signing key of namespace n.
KeyMade(n) ==
    /\ Stored(Sk(n)) = Absent
    /\ \E x \in Version : Write(Sk(n), x) /\ x.data["key"] \in Nat \ {0}
    /\ UNCHANGED pods

\* The objects on the way of the signing key of namespace n.
LEMMA KeyObjects ==
    ASSUME NEW n \in Namespaces
    PROVE  /\ Sk(n) \in Objects
           /\ <<"realm", n>> \in Objects /\ <<"realm", n>> \in Applied
           /\ <<"keycloak", n>> \in Workloads
BY DEF Sk, Objects, Kinds, Applied, Workloads

\* The keys are natural numbers.
LEMMA KeyTypes ==
    ASSUME TypeOK, NEW n \in Namespaces
    PROVE  /\ SigningKey(n) \in Nat /\ SigningKey(n) = Stored(Sk(n)).data["key"]
           /\ Stored(Sk(n)) = Absent => SigningKey(n) = 0
<1>1. Stored(Sk(n)) \in Version
  BY KeyObjects, TypeFacts
<1>2. Stored(Sk(n)).data["key"] \in Nat
  BY <1>1, VersionFields, BlankContent DEF Content
<1> QED
  BY <1>2, AbsentFields DEF SigningKey, Sk

\* Unless somebody deletes Secrets, a step leaves all signing keys alone or
\* stores the first one of a namespace.
LEMMA SigningKeyStep ==
    ASSUME MaxDeletes = 0, TypeOK, [Next]_vars
    PROVE  \/ \A n \in Namespaces : Kept(Sk(n))
           \/ \E n \in Namespaces : KeyMade(n)
<1> USE TypeFacts
<1>1. ASSUME UNCHANGED view PROVE \A n \in Namespaces : Kept(Sk(n))
  BY <1>1, KeptSame
<1>2. ASSUME NEW q \in Objects, NEW x \in Version, Write(q, x),
             q[1] # "signing-key"
      PROVE  \A n \in Namespaces : Kept(Sk(n))
  <2>1. \A n \in Namespaces : Sk(n) # q
    BY <1>2 DEF Sk
  <2> QED
    BY <1>2, <2>1, KeyObjects, WriteEffect, KeptSame
<1>3. CASE Handle
  <2>1. who \in Platforms
    BY <1>3
       DEF Handle, EnsureNamespace, EnsureRealmKey, EnsureOIDCSecret,
           ReadSecrets, ApplyRealm, ApplyKeycloak, ReadConfig,
           ApplyOPASecret, ApplyOPADeployment
  <2>2. \A kind \in Kinds : /\ Kc(kind) \in Objects /\ Fga(kind) \in Objects
                            /\ Kc(kind)[1] = kind /\ Fga(kind)[1] = kind
    BY <2>1, PassObjects DEF Kc, Fga
  <2>3. CASE EnsureNamespace
    <3> DEFINE q == Kc("namespace")
               x == [owner |-> who, data |-> Blank]
    <3>1. q \in Objects /\ x \in Version /\ q[1] # "signing-key"
      BY <2>1, <2>2, BlankContent, ObjectMade DEF Kinds
    <3>2. UNCHANGED view \/ Write(q, x)
      BY <2>3 DEF EnsureNamespace, Create
    <3> HIDE DEF q, x
    <3> QED
      BY <1>1, <1>2, <3>1, <3>2
  <2>4. CASE EnsureRealmKey
    <3>1. \/ UNCHANGED view
          \/ \E x \in Version : /\ Stored(Kc("signing-key")) = Absent
                                /\ Write(Kc("signing-key"), x)
                                /\ x.data.key \in Nat \ {0}
      BY <2>4, RealmKeyEffect
    <3>2. UNCHANGED pods
      BY <2>4 DEF EnsureRealmKey
    <3>3. KcNs[who] \in Namespaces /\ Kc("signing-key") = Sk(KcNs[who])
      BY <2>1, PassObjects DEF Kc, Sk
    <3> QED
      BY <1>1, <3>1, <3>2, <3>3 DEF KeyMade
  <2>5. CASE EnsureOIDCSecret
    <3>1. UNCHANGED view \/ \E x \in Version : Write(Kc("oidc"), x)
      BY <2>5, OIDCEffect
    <3>2. Kc("oidc") \in Objects /\ Kc("oidc")[1] # "signing-key"
      BY <2>2 DEF Kinds
    <3> QED
      BY <1>1, <1>2, <3>1, <3>2
  <2>6. ASSUME NEW kind \in Kinds \ {"signing-key"}, NEW q \in Objects,
               NEW d \in Content, NEW next, q[1] = kind, Apply(q, d, next)
        PROVE  \A n \in Namespaces : Kept(Sk(n))
    <3> DEFINE x == [owner |-> who, data |-> d]
    <3>1. x \in Version
      BY <2>1, ObjectMade
    <3>2. UNCHANGED view \/ Write(q, x)
      BY <2>6, ApplyEffect
    <3> HIDE DEF x
    <3> QED
      BY <1>1, <1>2, <2>6, <3>1, <3>2
  <2>7. CASE ApplyRealm \/ ApplyKeycloak
    BY <2>2, <2>6, <2>7 DEF ApplyRealm, ApplyKeycloak, Kinds
  <2>8. CASE ApplyOPASecret
    <3> DEFINE d == [Blank EXCEPT !["opa"] = got["opa"]]
    <3>1. Apply(Fga("oidc"), d, "opa deploy")
      BY <2>8 DEF ApplyOPASecret
    <3>2. got["opa"] \in Nat
      BY BlankContent DEF Content
    <3>3. d \in Content
      BY <3>2, BlankContent DEF Content
    <3> HIDE DEF d
    <3> QED
      BY <2>2, <2>6, <3>1, <3>3 DEF Kinds
  <2>9. CASE ApplyOPADeployment
    BY <2>2, <2>6, <2>9, BlankContent DEF ApplyOPADeployment, Kinds
  <2>10. CASE ReadSecrets \/ ReadConfig
    BY <1>1, <2>10 DEF ReadSecrets, ReadConfig
  <2> QED
    BY <1>3, <2>3, <2>4, <2>5, <2>7, <2>8, <2>9, <2>10 DEF Handle
<1>4. ASSUME NEW q \in Objects, Sync(q)
      PROVE  \A n \in Namespaces : Kept(Sk(n))
  BY <1>4, KeyObjects, SyncEffect DEF Kept
<1>5. ASSUME NEW w \in Workloads, RunPods(w) \/ LosePod(w)
      PROVE  \A n \in Namespaces : Kept(Sk(n))
  BY <1>5, PodEffect, KeptSame
<1>6. ASSUME NEW p \in Platforms, NEW kind \in {"signing-key", "oidc"},
             DeleteSecret(<<kind, KcNs[p]>>)
      PROVE  FALSE
  <2>1. deletes < 0 /\ deletes \in Nat
    BY <1>6 DEF DeleteSecret
  <2> QED
    BY <2>1
<1>7. CASE UNCHANGED vars \/ Fail \/ \E p \in Platforms : Begin(p)
  BY <1>1, <1>7 DEF vars, Fail, Begin
<1> QED
  BY <1>3, <1>4, <1>5, <1>6, <1>7 DEF Next

\* What KeyMade does to every signing key and its versions.
LEMMA KeyMadeEffect ==
    ASSUME TypeOK, NEW n \in Namespaces, KeyMade(n)
    PROVE  /\ SigningKey(n) = 0 /\ SigningKey(n)' \in Nat \ {0}
           /\ \A i \in 1..Len(view'[Sk(n)]) :
                 \/ i \in 1..Len(view[Sk(n)]) /\ view'[Sk(n)][i] = view[Sk(n)][i]
                 \/ view'[Sk(n)][i].data["key"] = SigningKey(n)'
           /\ \A m \in Namespaces : m # n =>
                 view'[Sk(m)] = view[Sk(m)] /\ SigningKey(m)' = SigningKey(m)
<1>1. PICK x \in Version : Write(Sk(n), x) /\ x.data["key"] \in Nat \ {0}
  BY DEF KeyMade
<1>2. \A m \in Namespaces : Sk(m) \in Objects /\ (m # n => Sk(m) # Sk(n))
  BY KeyObjects DEF Sk
<1>3. /\ Stored(Sk(n))' = x
      /\ \A i \in 1..Len(view[Sk(n)]) : view'[Sk(n)][i] = view[Sk(n)][i]
      /\ \A i \in 1..Len(view'[Sk(n)]) :
            i \in 1..Len(view[Sk(n)]) \/ view'[Sk(n)][i] = x
      /\ \A m \in Namespaces : m # n => /\ view'[Sk(m)] = view[Sk(m)]
                                        /\ Stored(Sk(m))' = Stored(Sk(m))
  BY <1>1, <1>2, WriteEffect
<1>4. \A m : SigningKey(m)' = Stored(Sk(m))'.data["key"]
             /\ SigningKey(m) = Stored(Sk(m)).data["key"]
  BY DEF SigningKey, Sk, Stored
<1>5. SigningKey(n) = 0
  BY KeyTypes DEF KeyMade
<1> QED
  BY <1>1, <1>3, <1>4, <1>5

\* A key once stored stays.
LEMMA KeyStays ==
    ASSUME MaxDeletes = 0, TypeOK, [Next]_vars, NEW n \in Namespaces,
           NEW k \in KeyOf(n)
    PROVE  k \in KeyOf(n)'
<1>1. CASE \A m \in Namespaces : Kept(Sk(m))
  <2>1. Stored(Sk(n))' = Stored(Sk(n))
    BY <1>1 DEF Kept
  <2> QED
    BY <2>1 DEF KeyOf, SigningKey, Sk, Stored
<1>2. ASSUME NEW m \in Namespaces, KeyMade(m) PROVE k \in KeyOf(n)'
  <2>1. SigningKey(n) = 0 \/ SigningKey(n)' = SigningKey(n)
    BY <1>2, KeyMadeEffect
  <2> QED
    BY <2>1 DEF KeyOf
<1> QED
  BY <1>1, <1>2, SigningKeyStep

\* How the key that the pass has read changes: it starts as none, and is
\* read from the cached Secret of the pass's namespace.
LEMMA GotStep ==
    ASSUME TypeOK, [Next]_vars, who' # None
    PROVE  \/ got'["key"] = 0
           \/ /\ who' = who /\ who \in Platforms
              /\ \/ got'["key"] = got["key"]
                 \/ got'["key"] = Cached(Sk(KcNs[who])).data["key"]
<1> USE TypeFacts
<1>1. ~Stop
  BY StopTypes
<1>2. ASSUME NEW p \in Platforms, Begin(p) PROVE got'["key"] = 0
  BY <1>2, BlankContent DEF Begin
<1>3. ASSUME UNCHANGED <<who, got>>
      PROVE  who' = who /\ who \in Platforms /\ got'["key"] = got["key"]
  BY <1>3
<1>4. CASE ReadSecrets
  <2>1. /\ who \in Platforms
        /\ \E step \in Steps \ {"keycloak"} : Continue(step)
        /\ \/ got'["key"] = got["key"]
           \/ got'["key"] = Cached(Kc("signing-key")).data["key"]
    BY <1>4, ReadSecretsEffect
  <2>2. who' = who
    BY <2>1 DEF Continue
  <2> QED
    BY <2>1, <2>2 DEF Kc, Sk
<1>5. CASE ReadConfig
  <2>1. /\ who \in Platforms /\ Continue("opa secret")
        /\ got'["key"] = got["key"]
    BY <1>1, <1>5, ReadConfigEffect
  <2> QED
    BY <2>1 DEF Continue
<1>6. \A step : Continue(step) => who' = who
  BY DEF Continue
<1>7. \A o, d, next : Apply(o, d, next) => who' = who
  BY <1>1, <1>6 DEF Apply, Create, Update
<1>8. Handle => ReadSecrets \/ ReadConfig \/ UNCHANGED <<who, got>>
  <2>1. CASE EnsureNamespace
    BY <1>1, <1>6, <2>1 DEF EnsureNamespace, Create
  <2>2. CASE EnsureRealmKey
    BY <1>1, <1>6, <2>2 DEF EnsureRealmKey, Create
  <2>3. CASE EnsureOIDCSecret
    <3>1. UNCHANGED got
      BY <2>3 DEF EnsureOIDCSecret
    <3> QED
      BY <1>1, <1>6, <2>3, <3>1, OIDCEffect
  <2>4. CASE ApplyRealm \/ ApplyKeycloak \/ ApplyOPASecret \/ ApplyOPADeployment
    BY <1>7, <2>4
       DEF ApplyRealm, ApplyKeycloak, ApplyOPASecret, ApplyOPADeployment
  <2> QED
    BY <2>1, <2>2, <2>3, <2>4 DEF Handle
<1>9. ~Fail
  BY <1>1 DEF Fail
<1>10. \/ \E p \in Platforms : Begin(p)
       \/ Handle
       \/ UNCHANGED <<who, got>>
  BY <1>9, PodEffect, DeleteEffect DEF Next, vars, Sync, operator
<1> QED
  BY <1>2, <1>3, <1>4, <1>5, <1>8, <1>10

\* The realm that is stored holds what the pass of its namespace has read.
LEMMA RealmStep ==
    ASSUME TypeOK, [Next]_vars, NEW n \in Namespaces
    PROVE  \/ Stored(<<"realm", n>>)' = Stored(<<"realm", n>>)
           \/ /\ who \in Platforms /\ n = KcNs[who]
              /\ Stored(<<"realm", n>>)'.data = got
<1> USE TypeFacts
<1> DEFINE o == <<"realm", n>>
<1>1. o \in Objects /\ o \in Applied /\ o[1] = "realm"
  BY KeyObjects
<1>2. CASE ApplyRealm
  <2> DEFINE x == [owner |-> who, data |-> got]
  <2>1. Apply(Kc("realm"), got, "keycloak") /\ who \in Platforms
    BY <1>2 DEF ApplyRealm
  <2>2. Kc("realm") \in Objects
    BY <2>1, PassObjects DEF Kinds
  <2>3. x \in Version /\ x.data = got
    BY <2>1, ObjectMade
  <2>4. CASE UNCHANGED view
    BY <2>4 DEF Stored
  <2>5. CASE Write(Kc("realm"), x) /\ Kc("realm") # o
    BY <1>1, <2>2, <2>3, <2>5, WriteEffect
  <2>6. CASE Write(o, x) /\ Kc("realm") = o
    <3>1. n = KcNs[who]
      BY <2>6 DEF Kc
    <3>2. Stored(o)'.data = got
      BY <1>1, <2>3, <2>6, WriteEffect
    <3> QED
      BY <2>1, <3>1, <3>2
  <2> QED
    BY <2>1, <2>2, <2>4, <2>5, <2>6, ApplyEffect
<1>3. CASE ~ApplyRealm
  <2>2. CASE Handle
    <3>1. who \in Platforms
      BY <2>2
         DEF Handle, EnsureNamespace, EnsureRealmKey, EnsureOIDCSecret,
             ReadSecrets, ApplyRealm, ApplyKeycloak, ReadConfig,
             ApplyOPASecret, ApplyOPADeployment
    <3>2. \A kind \in Kinds : /\ Kc(kind) \in Objects /\ Fga(kind) \in Objects
                              /\ Kc(kind)[1] = kind /\ Fga(kind)[1] = kind
      BY <3>1, PassObjects DEF Kc, Fga
    <3>3. ASSUME NEW q \in Objects, q[1] # "realm", NEW x \in Version,
                 Write(q, x)
          PROVE  Stored(o)' = Stored(o)
      <4>1. q # o
        BY <1>1, <3>3
      <4> QED
        BY <1>1, <3>3, <4>1, WriteEffect
    <3>4. CASE UNCHANGED view
      BY <3>4 DEF Stored
    <3>5. CASE EnsureNamespace
      <4> DEFINE q == Kc("namespace")
                 x == [owner |-> who, data |-> Blank]
      <4>1. q \in Objects /\ x \in Version /\ q[1] # "realm"
        BY <3>1, <3>2, BlankContent, ObjectMade DEF Kinds
      <4>2. UNCHANGED view \/ Write(q, x)
        BY <3>5 DEF EnsureNamespace, Create
      <4> HIDE DEF q, x
      <4> QED
        BY <3>3, <3>4, <4>1, <4>2
    <3>6. CASE EnsureRealmKey
      BY <3>2, <3>3, <3>4, <3>6, RealmKeyEffect DEF Kinds
    <3>7. CASE EnsureOIDCSecret
      BY <3>2, <3>3, <3>4, <3>7, OIDCEffect DEF Kinds
    <3>8. ASSUME NEW q \in Objects, q[1] # "realm", NEW d \in Content,
                 NEW next, Apply(q, d, next)
          PROVE  Stored(o)' = Stored(o)
      <4>1. Kept(o) \/ q = o
        BY <1>1, <3>1, <3>8, ApplyOwned
      <4> QED
        BY <1>1, <3>8, <4>1 DEF Kept
    <3>9. CASE ApplyKeycloak
      BY <3>2, <3>8, <3>9 DEF ApplyKeycloak, Kinds
    <3>10. CASE ApplyOPASecret
      <4> DEFINE d == [Blank EXCEPT !["opa"] = got["opa"]]
      <4>1. Apply(Fga("oidc"), d, "opa deploy")
        BY <3>10 DEF ApplyOPASecret
      <4>2. got["opa"] \in Nat
        BY BlankContent DEF Content
      <4>3. d \in Content
        BY <4>2, BlankContent DEF Content
      <4> HIDE DEF d
      <4> QED
        BY <3>2, <3>8, <4>1, <4>3 DEF Kinds
    <3>11. CASE ApplyOPADeployment
      BY <3>2, <3>8, <3>11, BlankContent DEF ApplyOPADeployment, Kinds
    <3>12. CASE ReadSecrets \/ ReadConfig
      BY <3>4, <3>12 DEF ReadSecrets, ReadConfig
    <3> QED
      BY <1>3, <2>2, <3>5, <3>6, <3>7, <3>9, <3>10, <3>11, <3>12 DEF Handle
  <2>3. CASE ~Handle
    <3>1. ASSUME NEW q \in Objects, Sync(q) PROVE Stored(o)' = Stored(o)
      BY <1>1, <3>1, SyncEffect
    <3>2. ASSUME NEW p \in Platforms, NEW kind \in {"signing-key", "oidc"},
                 DeleteSecret(<<kind, KcNs[p]>>)
          PROVE  Stored(o)' = Stored(o)
      <4>1. <<kind, KcNs[p]>> # o
        BY <1>1
      <4> QED
        BY <1>1, <3>2, <4>1, DeleteEffect, WriteEffect
    <3>3. CASE UNCHANGED view
      BY <3>3 DEF Stored
    <3> QED
      BY <2>3, <3>1, <3>2, <3>3, PodEffect DEF Next, vars, Fail, Begin
  <2> QED
    BY <2>2, <2>3
<1> QED
  BY <1>2, <1>3

\* Nobody holds a signing key at first.
LEMMA KeyInit ==
    ASSUME Init
    PROVE  /\ KeyInv
           /\ \A n \in Namespaces : SigningKey(n) = 0 /\ Imported(n) = {}
<1>1. \A n \in Namespaces : Stored(Sk(n)) = Absent
  <2>1. \A n \in Namespaces : Sk(n) \in Objects /\ Sk(n)[1] \notin OldKinds
    BY KeyObjects DEF Sk, OldKinds
  <2> QED
    BY <2>1, InitEffect
<1>2. \A n \in Namespaces : SigningKey(n) = 0
  BY <1>1, AbsentFields DEF SigningKey, Sk
<1>3. \A n \in Namespaces : \A i \in 1..Len(view[Sk(n)]) :
         view[Sk(n)][i].data["key"] = 0
  <2>1. ASSUME NEW n \in Namespaces, NEW i \in 1..Len(view[Sk(n)])
        PROVE  view[Sk(n)][i] = Absent
    <3>1. Len(view[Sk(n)]) = 1 /\ Stored(Sk(n)) = view[Sk(n)][1]
      BY KeyObjects, InitEffect
    <3>2. i = 1
      BY <3>1
    <3> QED
      BY <1>1, <3>1, <3>2
  <2> QED
    BY <2>1, AbsentFields
<1>4. \A n \in Namespaces : Stored(<<"realm", n>>).data["key"] = 0
  BY KeyObjects, InitEffect, OldObjects, AbsentFields
<1>5. Old["key"] = 0
  BY BlankContent DEF Old
<1>6. \A n \in Namespaces : \A x \in pods[<<"keycloak", n>>] : x.got["key"] = 0
  BY <1>5, KeyObjects, InitPods
<1>7. who = None
  BY DEF Init
<1>8. KeyInv
  BY <1>3, <1>4, <1>6, <1>7 DEF KeyInv, KeyOf, Sk
<1>9. \A n \in Namespaces : Imported(n) = {}
  BY <1>6 DEF Imported, Loaded
<1> QED
  BY <1>2, <1>8, <1>9

\* ensureGeneratedSecret creates and never updates: whatever a lagging cache
\* shows of the signing key, the pass and the pods have the stored one or none.
LEMMA KeyStep ==
    ASSUME MaxDeletes = 0, TypeOK, KeyInv, [Next]_vars
    PROVE  KeyInv'
<1> USE TypeFacts
<1>1. \A n \in Namespaces : \A k \in KeyOf(n) : k \in KeyOf(n)'
  BY KeyStays
<1>2. \A n \in Namespaces : \A i \in 1..Len(view[Sk(n)]) :
         view[Sk(n)][i].data["key"] \in KeyOf(n)
  BY DEF KeyInv, Sk
<1>3. \A n \in Namespaces : \A i \in 1..Len(view'[Sk(n)]) :
         view'[Sk(n)][i].data["key"] \in KeyOf(n)'
  <2>1. ASSUME NEW n \in Namespaces, Kept(Sk(n)), NEW i \in 1..Len(view'[Sk(n)])
        PROVE  view'[Sk(n)][i].data["key"] \in KeyOf(n)'
    BY <1>1, <1>2, <2>1 DEF Kept
  <2>2. ASSUME NEW m \in Namespaces, KeyMade(m), NEW n \in Namespaces,
               NEW i \in 1..Len(view'[Sk(n)])
        PROVE  view'[Sk(n)][i].data["key"] \in KeyOf(n)'
    <3>1. \A k : k = SigningKey(n)' => k \in KeyOf(n)'
      BY DEF KeyOf
    <3>2. \/ i \in 1..Len(view[Sk(n)]) /\ view'[Sk(n)][i] = view[Sk(n)][i]
          \/ view'[Sk(n)][i].data["key"] = SigningKey(n)'
      BY <2>2, KeyMadeEffect
    <3> QED
      BY <1>1, <1>2, <3>1, <3>2
  <2> QED
    BY <2>1, <2>2, SigningKeyStep
<1>4. \A n \in Namespaces : 0 \in KeyOf(n)'
  BY DEF KeyOf
<1>5. who' # None => got'["key"] \in KeyOf(KcNs[who])'
  <2>1. CASE who' # None
    <3>1. who' \in Platforms
      BY <2>1, TypeStep DEF TypeOK
    <3>2. PICK n \in Namespaces : n = KcNs[who']
      BY <3>1, NamespacesAssumption
    <3>3. CASE got'["key"] = 0
      BY <1>4, <3>2, <3>3 DEF KeyOf, SigningKey, Stored
    <3>4. CASE /\ who' = who /\ who \in Platforms
               /\ \/ got'["key"] = got["key"]
                  \/ got'["key"] = Cached(Sk(KcNs[who])).data["key"]
      <4>1. n = KcNs[who]
        BY <3>2, <3>4
      <4>2. got["key"] \in KeyOf(n)
        BY <3>4, <4>1, PlatformsAssumption DEF KeyInv
      <4>3. 1 \in 1..Len(view[Sk(n)])
        BY KeyObjects
      <4>4. Cached(Sk(n)).data["key"] \in KeyOf(n)
        BY <1>2, <4>3 DEF Cached
      <4>5. got'["key"] \in KeyOf(n)
        BY <3>4, <4>1, <4>2, <4>4
      <4>6. got'["key"] \in KeyOf(n)'
        BY <1>1, <4>5
      <4> QED
        BY <3>2, <4>6 DEF KeyOf, SigningKey, Stored
    <3> QED
      BY <2>1, <3>3, <3>4, GotStep
  <2> QED
    BY <2>1
<1>6. ASSUME NEW n \in Namespaces
      PROVE  Stored(<<"realm", n>>)'.data["key"] \in KeyOf(n)'
  <2>1. Stored(<<"realm", n>>).data["key"] \in KeyOf(n)
    BY DEF KeyInv
  <2>2. who \in Platforms /\ n = KcNs[who] => got["key"] \in KeyOf(n)
    BY PlatformsAssumption DEF KeyInv
  <2> QED
    BY <1>1, <2>1, <2>2, RealmStep
<1>7. ASSUME NEW n \in Namespaces, NEW x \in pods'[<<"keycloak", n>>]
      PROVE  x.got["key"] \in KeyOf(n)'
  <2> DEFINE w == <<"keycloak", n>>
  <2>1. w \in Workloads /\ w[1] = "keycloak" /\ w[2] = n
    BY KeyObjects
  <2>2. CASE x \in pods[w]
    BY <1>1, <2>2 DEF KeyInv
  <2>3. CASE RunPods(w) \/ LosePod(w)
    <3>1. x \in pods[w] \/ x.got = Blank \/ x.got = Loadable(w)
      BY <1>7, <2>1, <2>3, PodEffect
    <3>2. Loadable(w).key \in KeyOf(n)
      BY <2>1, LoadableContent, WorkloadObjects DEF KeyInv
    <3> QED
      BY <1>1, <1>4, <2>2, <3>1, <3>2, BlankContent
  <2>4. ASSUME NEW v \in Workloads, RunPods(v) \/ LosePod(v), v # w
        PROVE  x \in pods[w]
    BY <1>7, <2>1, <2>4, PodEffect
  <2>5. CASE pods' = pods
    BY <1>7, <2>2, <2>5
  <2>6. CASE Handle
    BY <2>5, <2>6
       DEF Handle, EnsureNamespace, EnsureRealmKey, EnsureOIDCSecret,
           ReadSecrets, ApplyRealm, ApplyKeycloak, ReadConfig,
           ApplyOPASecret, ApplyOPADeployment
  <2> QED
    BY <2>2, <2>3, <2>4, <2>5, <2>6
       DEF Next, vars, Begin, Fail, Sync, DeleteSecret
<1> QED
  BY <1>3, <1>5, <1>6, <1>7 DEF KeyInv, Sk, Stored

\* Whoever holds a signing key of a namespace, in a cached version, a pass,
\* a realm or a pod, holds the one that is stored.
LEMMA KeysHold == ASSUME MaxDeletes = 0 PROVE Spec => []KeyInv
<1>1. Init => KeyInv
  BY KeyInit
<1>2. TypeOK /\ KeyInv /\ [Next]_vars => KeyInv'
  BY KeyStep
<1> QED
  BY <1>1, <1>2, TypesHold, PTL DEF Spec

-----------------------------------------------------------------------------
(***************************************************************************)
(* The refinement of WriteOnce: the value of a secret is the stored        *)
(* signing key, and the values in use are those that the loaded pods of    *)
(* Keycloak sign with.                                                     *)
(***************************************************************************)

\* The pods that sign use the stored key.
LEMMA ImportedStored ==
    ASSUME KeyInv, NEW n \in Namespaces
    PROVE  Imported(n) \subseteq {SigningKey(n)} \ {0}
BY DEF KeyInv, KeyOf, Imported, Loaded

\* A step changes the pods of one Deployment at most, and no key then.
LEMMA PodsStep ==
    ASSUME TypeOK, [Next]_vars
    PROVE  \/ UNCHANGED pods
           \/ \E w \in Workloads : /\ UNCHANGED view
                                   /\ \A v \in Workloads :
                                         v # w => pods'[v] = pods[v]
<1>1. CASE Handle
  BY <1>1
     DEF Handle, EnsureNamespace, EnsureRealmKey, EnsureOIDCSecret,
         ReadSecrets, ApplyRealm, ApplyKeycloak, ReadConfig,
         ApplyOPASecret, ApplyOPADeployment
<1> QED
  BY <1>1, PodEffect DEF Next, vars, Begin, Fail, Sync, DeleteSecret

\* Every step is one of WriteOnce for the signing keys, or changes none of them:
\* a key is generated where there was none, or a pod takes the stored one.
LEMMA KeyRefines ==
    ASSUME MaxDeletes = 0, TypeOK, KeyInv, KeyInv', [Next]_vars
    PROVE  [Keys!Next]_<<SigningKeys, ImportedKeys>>
<1>1. ASSUME UNCHANGED view
      PROVE  SigningKeys' = SigningKeys
  BY <1>1 DEF SigningKeys, SigningKey, Stored
<1>2. ASSUME \A n \in Namespaces : Kept(Sk(n))
      PROVE  SigningKeys' = SigningKeys
  <2>1. \A n \in Namespaces : SigningKey(n)' = SigningKey(n)
    BY <1>2 DEF Kept, Sk, SigningKey, Stored
  <2> QED
    BY <2>1 DEF SigningKeys
<1>3. ASSUME UNCHANGED pods
      PROVE  ImportedKeys' = ImportedKeys
  BY <1>3 DEF ImportedKeys, Imported, Loaded
<1>4. ASSUME NEW n \in Namespaces, KeyMade(n)
      PROVE  Keys!Generate(n)
  <2>1. /\ SigningKey(n) = 0 /\ SigningKey(n)' \in Nat \ {0}
        /\ \A m \in Namespaces : m # n => SigningKey(m)' = SigningKey(m)
    BY <1>4, KeyMadeEffect
  <2>2. ImportedKeys' = ImportedKeys
    BY <1>3, <1>4 DEF KeyMade
  <2>3. SigningKeys[n] = 0 /\ SigningKeys'[n] \in Nat \ {0}
    BY <2>1 DEF SigningKeys
  <2>4. SigningKeys' = [SigningKeys EXCEPT ![n] = SigningKeys'[n]]
    BY <2>1 DEF SigningKeys
  <2> QED
    BY <2>2, <2>3, <2>4 DEF Keys!Generate
<1>5. ASSUME UNCHANGED view, NEW w \in Workloads,
             \A v \in Workloads : v # w => pods'[v] = pods[v]
      PROVE  [Keys!Next]_<<SigningKeys, ImportedKeys>>
  <2>1. SigningKeys' = SigningKeys
    BY <1>1, <1>5
  <2>2. CASE w[1] = "keycloak"
    <3>1. PICK n \in Namespaces : w = <<"keycloak", n>>
      BY <2>2, WorkloadObjects
    <3>2. \A m \in Namespaces : m # n => Imported(m)' = Imported(m)
      <4>1. \A m \in Namespaces : m # n =>
               pods'[<<"keycloak", m>>] = pods[<<"keycloak", m>>]
        BY <1>5, <3>1, KeyObjects
      <4> QED
        BY <4>1 DEF Imported, Loaded
    <3>3. Imported(n)' \subseteq {SigningKey(n)'} \ {0}
      BY DEF KeyInv, KeyOf, Imported, Loaded
    <3>4. SigningKey(n)' = SigningKeys[n]
      BY <2>1 DEF SigningKeys
    <3>5. Imported(n)' \in SUBSET ({SigningKeys[n]} \ {0})
      BY <3>3, <3>4
    <3>6. ImportedKeys' = [ImportedKeys EXCEPT ![n] = Imported(n)']
      BY <3>2 DEF ImportedKeys
    <3>7. Keys!Use(n)
      BY <2>1, <3>5, <3>6 DEF Keys!Use
    <3> QED
      BY <3>7 DEF Keys!Next
  <2>3. CASE w[1] # "keycloak"
    <3>1. \A m \in Namespaces :
             pods'[<<"keycloak", m>>] = pods[<<"keycloak", m>>]
      <4>1. \A m \in Namespaces : <<"keycloak", m>> # w
        <5>1. \A m \in Namespaces : <<"keycloak", m>>[1] = "keycloak"
          OBVIOUS
        <5> QED
          BY <2>3, <5>1
      <4> QED
        BY <1>5, <4>1, KeyObjects
    <3>2. ImportedKeys' = ImportedKeys
      BY <3>1 DEF ImportedKeys, Imported, Loaded
    <3> QED
      BY <2>1, <3>2
  <2> QED
    BY <2>2, <2>3
<1>6. CASE UNCHANGED pods
  BY <1>2, <1>3, <1>4, <1>6, SigningKeyStep DEF Keys!Next
<1> QED
  BY <1>5, <1>6, PodsStep

\* Where no Secret is deleted by hand, the signing key of a realm is
\* generated once, and every Keycloak pod signs with it: a lagging cache,
\* platforms that share the namespace, failed calls, restarts and lost pods
\* never give a pod another key (ensureKeycloakRealmKey).
THEOREM SigningKeyWriteOnce ==
    ASSUME MaxDeletes = 0
    PROVE  Spec => KeyIsWriteOnce
<1>1. Init => Keys!Init
  <2> SUFFICES ASSUME Init PROVE Keys!Init
    OBVIOUS
  <2>1. \A n \in Namespaces : SigningKey(n) = 0 /\ Imported(n) = {}
    BY KeyInit
  <2> QED
    BY <2>1 DEF Keys!Init, SigningKeys, ImportedKeys
<1>2. TypeOK /\ KeyInv /\ KeyInv' /\ [Next]_vars
         => [Keys!Next]_<<SigningKeys, ImportedKeys>>
  BY KeyRefines
<1> QED
  BY <1>1, <1>2, TypesHold, KeysHold, PTL DEF Spec, KeyIsWriteOnce, Keys!Spec

=============================================================================
