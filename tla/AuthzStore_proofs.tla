-------------------------- MODULE AuthzStore_proofs --------------------------
(***************************************************************************)
(* Proofs about AuthzStore for every set of policies and names, page size   *)
(* and bound.                                                              *)
(***************************************************************************)
EXTENDS AuthzStore, SequenceTheorems, TLAPS

-----------------------------------------------------------------------------
(***************************************************************************)
(* What OpenFGA's side of a call does to the stores.                       *)
(***************************************************************************)

Models == {Shape(p) : p \in Policies}

\* Stores are never removed or renamed and keep their models; a deleted store
\* stays deleted.
Grown ==
    /\ Len(stores) <= Len(stores')
    /\ \A i \in 1..Len(stores) :
          /\ stores'[i].name = stores[i].name
          /\ stores[i].deleted => stores'[i].deleted
          /\ stores[i].models # <<>> => stores'[i].models # <<>>

\* Creating a store keeps the type and the stores there were.
LEMMA CreateEffect ==
    ASSUME stores \in Seq(StoreType),
           NEW n \in Names, stores' = Append(stores, NewStore(n))
    PROVE  /\ stores' \in Seq(StoreType)
           /\ Len(stores') = Len(stores) + 1
           /\ stores'[Len(stores) + 1] = NewStore(n)
           /\ \A i \in 1..Len(stores) : stores'[i] = stores[i]
           /\ Grown
<1>1. NewStore(n) \in StoreType
  BY DEF NewStore, StoreType
<1>2. /\ stores' \in Seq(StoreType)
      /\ Len(stores') = Len(stores) + 1
      /\ stores'[Len(stores) + 1] = NewStore(n)
      /\ \A i \in 1..Len(stores) : stores'[i] = stores[i]
  BY <1>1, AppendProperties
<1>3. Len(stores) \in Nat
  BY LenProperties
<1>4. QED
  BY <1>2, <1>3 DEF Grown

\* Writing a model changes one store, by one more model.
LEMMA WriteEffect ==
    ASSUME stores \in Seq(StoreType),
           NEW i \in 1..Len(stores), NEW p \in Policies,
           stores' = AddModel(i, p)
    PROVE  /\ stores' \in Seq(StoreType)
           /\ Len(stores') = Len(stores)
           /\ \A j \in 1..Len(stores) :
                 /\ stores'[j].name = stores[j].name
                 /\ stores'[j].deleted = stores[j].deleted
           /\ stores'[i].models # <<>>
           /\ Grown
<1> DEFINE s == stores[i]
           ms == Append(s.models, Shape(p))
           r == [s EXCEPT !.models = ms]
<1>1. s \in StoreType
  BY ElementOfSeq
<1>2. s.models \in Seq(Models) /\ Shape(p) \in Models
  BY <1>1 DEF StoreType, Models
<1>3. ms \in Seq(Models) /\ ms # <<>>
  BY <1>2, AppendProperties
<1>4. /\ r \in StoreType
      /\ r.name = s.name /\ r.deleted = s.deleted /\ r.models = ms
  BY <1>1, <1>3 DEF StoreType, Models
<1>5. stores' = [stores EXCEPT ![i] = r]
  BY DEF AddModel
<1>6. /\ stores' \in Seq(StoreType)
      /\ Len(stores') = Len(stores)
      /\ \A j \in 1..Len(stores) :
            stores'[j] = IF j = i THEN r ELSE stores[j]
  BY <1>4, <1>5, ExceptSeq
<1>7. Len(stores) \in Nat
  BY LenProperties
<1>8. r.models # <<>>
  BY <1>3, <1>4
<1> HIDE DEF r, ms
<1>9. QED
  BY <1>4, <1>6, <1>7, <1>8 DEF Grown

\* Deleting a store marks it and nothing else.
LEMMA DeleteEffect ==
    ASSUME stores \in Seq(StoreType),
           NEW i \in 1..Len(stores),
           stores' = [stores EXCEPT ![i].deleted = TRUE]
    PROVE  /\ stores' \in Seq(StoreType)
           /\ Len(stores') = Len(stores)
           /\ \A j \in 1..Len(stores) :
                 /\ stores'[j].name = stores[j].name
                 /\ stores'[j].models = stores[j].models
                 /\ stores[j].deleted => stores'[j].deleted
           /\ Grown
<1> DEFINE s == stores[i]
           r == [s EXCEPT !.deleted = TRUE]
<1>1. s \in StoreType
  BY ElementOfSeq
<1>2. /\ r \in StoreType
      /\ r.name = s.name /\ r.models = s.models /\ r.deleted = TRUE
  BY <1>1 DEF StoreType
<1>3. stores' = [stores EXCEPT ![i] = r]
  OBVIOUS
<1>4. /\ stores' \in Seq(StoreType)
      /\ Len(stores') = Len(stores)
      /\ \A j \in 1..Len(stores) :
            stores'[j] = IF j = i THEN r ELSE stores[j]
  BY <1>2, <1>3, ExceptSeq
<1>5. Len(stores) \in Nat
  BY LenProperties
<1>6. QED
  BY <1>2, <1>4, <1>5 DEF Grown

\* Any call that takes effect, in time or late, keeps the stores there were.
LEMMA EffectGrows ==
    ASSUME stores \in Seq(StoreType), NEW c \in Requests, Effect(c)
    PROVE  stores' \in Seq(StoreType) /\ Grown
<1>1. CASE c.op = "create"
  <2>1. PICK n \in Names : c = CreateCall(n)
    BY <1>1 DEF Requests, WriteCall
  <2>2. c.name = n
    BY <2>1 DEF CreateCall
  <2>3. stores' = Append(stores, NewStore(n))
    BY <1>1, <2>2 DEF Effect
  <2>4. QED
    BY <2>3, CreateEffect
<1>2. CASE c.op = "write"
  <2>1. PICK i \in 1..Len(stores), p \in Policies : c = WriteCall(i, p)
    BY <1>2 DEF Requests, CreateCall
  <2>2. c.store = i /\ c.policies = p
    BY <2>1 DEF WriteCall
  <2>3. CASE stores' = AddModel(i, p)
    BY <2>3, WriteEffect
  <2>4. CASE UNCHANGED stores
    BY <2>4, LenProperties DEF Grown
  <2>5. QED
    BY <1>2, <2>2, <2>3, <2>4 DEF Effect
<1>3. QED
  BY <1>1, <1>2 DEF Effect

-----------------------------------------------------------------------------
(***************************************************************************)
(* What OPA is given.                                                      *)
(***************************************************************************)

\* A run past the search works on a store of the name it looks for, and takes
\* only a store with a model on to OPA.
OwnStore ==
    /\ pc \in {"latest", "write"} => stores[id].name = reqName
    /\ pc = "opa" /\ id # 0 => /\ stores[id].name \in Names
                               /\ stores[id].models # <<>>

\* What OPA was given under a name is a store of that name.
LastNamed == \A n \in Names : last[n] # 0 => stores[last[n]].name = n

Inv == TypeOK /\ OwnStore /\ GivenUsable /\ LastNamed

\* The type as it is after a step that only lets the stores grow.
LEMMA LateGrows ==
    ASSUME TypeOK, stores' \in Seq(StoreType), Grown,
           late' \subseteq late \cup Requests
    PROVE  /\ Len(stores) \in Nat /\ Len(stores') \in Nat
           /\ Len(stores) <= Len(stores')
           /\ late' \subseteq Requests'
<1>1. /\ Len(stores) \in Nat /\ Len(stores') \in Nat
      /\ Len(stores) <= Len(stores')
  BY LenProperties DEF TypeOK, Grown
<1>2. 1..Len(stores) \subseteq 1..Len(stores')
  BY <1>1
<1>3. Requests \subseteq Requests'
  BY <1>2 DEF Requests
<1>4. QED
  BY <1>1, <1>3 DEF TypeOK

\* What OPA was given stays usable while the stores only grow.
LEMMA GrowthKeepsGiven ==
    ASSUME Inv, stores' \in Seq(StoreType), Grown, UNCHANGED opa
    PROVE  /\ given' \in 0..Len(stores')
           /\ last' \in [Names -> 0..Len(stores')]
           /\ GivenUsable' /\ LastNamed'
<1>1. /\ Len(stores) \in Nat /\ Len(stores') \in Nat
      /\ Len(stores) <= Len(stores')
      /\ given \in 0..Len(stores) /\ last \in [Names -> 0..Len(stores)]
      /\ given' = given /\ last' = last
  BY LenProperties DEF Inv, TypeOK, Grown, opa
<1>2. given' \in 0..Len(stores') /\ last' \in [Names -> 0..Len(stores')]
  BY <1>1
<1>3. GivenUsable'
  BY <1>1 DEF Inv, GivenUsable, Grown
<1>4. LastNamed'
  <2> SUFFICES ASSUME NEW n \in Names, last[n] # 0
               PROVE  stores'[last[n]].name = n
    BY <1>1 DEF LastNamed
  <2>1. last[n] \in 1..Len(stores)
    BY <1>1
  <2>2. QED
    BY <2>1 DEF Inv, LastNamed, Grown
<1>5. QED
  BY <1>2, <1>3, <1>4

\* Steps that leave the operator alone keep Inv if the stores only grow.
LEMMA GrowthKeepsInv ==
    ASSUME Inv, stores' \in Seq(StoreType), Grown, UNCHANGED operator,
           want' \in Policies \cup {{}}, name' \in Names,
           edits' \in 0..MaxEdits,
           late' \subseteq late, UNCHANGED delayed, faults' \in 0..MaxFaults
    PROVE  Inv'
<1>1. /\ Len(stores) \in Nat /\ Len(stores') \in Nat
      /\ Len(stores) <= Len(stores')
      /\ late' \subseteq Requests'
  BY LateGrows DEF Inv
<1>2. UNCHANGED run /\ UNCHANGED opa
  BY DEF operator
<1>3. /\ given' \in 0..Len(stores')
      /\ last' \in [Names -> 0..Len(stores')]
      /\ GivenUsable' /\ LastNamed'
  BY <1>2, GrowthKeepsGiven
<1>4. /\ pc' = pc /\ req' = req /\ reqName' = reqName /\ seen' = seen
      /\ id' = id /\ id \in 0..Len(stores)
  BY <1>2 DEF run, Inv, TypeOK
<1>5. TypeOK'
  <2>1. /\ pc' \in Calls \cup {"opa", "idle"}
        /\ req' \in Policies \cup {{}}
        /\ reqName' \in Names \cup {None}
        /\ pc' \in Calls => req' \in Policies /\ reqName' \in Names
        /\ seen' \in Nat
        /\ pc' \in {"latest", "write"} => id' # 0
    BY <1>4 DEF Inv, TypeOK
  <2>2. id' \in 0..Len(stores')
    BY <1>1, <1>4
  <2>3. delayed' \in 0..MaxLate
    BY DEF Inv, TypeOK
  <2>4. QED
    BY <1>1, <1>3, <2>1, <2>2, <2>3 DEF TypeOK
<1>6. OwnStore'
  <2>1. id # 0 => /\ stores'[id].name = stores[id].name
                  /\ stores[id].models # <<>> => stores'[id].models # <<>>
    BY <1>1, <1>4 DEF Grown
  <2>2. pc \in {"latest", "write"} => id # 0
    BY DEF Inv, TypeOK
  <2>3. QED
    BY <1>4, <2>1, <2>2 DEF Inv, OwnStore
<1>7. QED
  BY <1>3, <1>5, <1>6 DEF Inv

\* Steps that end a pass before OPA keep Inv if the stores only grow.
LEMMA IdleKeepsInv ==
    ASSUME Inv, stores' \in Seq(StoreType), Grown, Idle, UNCHANGED opa,
           UNCHANGED spec, faults' \in 0..MaxFaults, delayed' \in 0..MaxLate,
           late' \subseteq late \cup Requests
    PROVE  Inv'
<1>1. /\ Len(stores) \in Nat /\ Len(stores') \in Nat
      /\ Len(stores) <= Len(stores')
      /\ late' \subseteq Requests'
  BY LateGrows DEF Inv
<1>2. /\ given' \in 0..Len(stores')
      /\ last' \in [Names -> 0..Len(stores')]
      /\ GivenUsable' /\ LastNamed'
  BY GrowthKeepsGiven
<1>3. TypeOK'
  BY <1>1, <1>2, SMTT(30) DEF Inv, TypeOK, Idle, spec, Calls
<1>4. OwnStore'
  BY DEF OwnStore, Idle
<1>5. QED
  BY <1>2, <1>3, <1>4 DEF Inv

\* The call a run is about to make is one OpenFGA understands.
LEMMA PendingRequest ==
    ASSUME TypeOK, pc \in {"create", "write"}
    PROVE  Pending \in Requests
<1>1. CASE pc = "create"
  BY <1>1 DEF Pending, Requests, TypeOK, Calls
<1>2. CASE pc = "write"
  <2>1. id \in 1..Len(stores) /\ req \in Policies
    BY <1>2, LenProperties DEF TypeOK, Calls
  <2>2. QED
    BY <1>2, <2>1 DEF Pending, Requests
<1>3. QED
  BY <1>1, <1>2

\* A step of the operator that leaves OpenFGA and OPA alone and moves to
\* another call.
LEMMA ReadKeepsInv ==
    ASSUME Inv, Begin \/ NotReady \/ ListPage \/ CheckModel
    PROVE  Inv'
<1> USE BoundsAssumption
<1>0. /\ UNCHANGED <<spec, stores, network, opa>>
      /\ Len(stores) \in Nat /\ faults' \in 0..MaxFaults
  BY LenProperties
  DEF Begin, NotReady, ListPage, CheckModel, Fault, Inv, TypeOK
<1>1. /\ GivenUsable' /\ LastNamed'
      /\ given' = given /\ last' = last
      /\ late' \subseteq Requests'
  BY <1>0 DEF Inv, TypeOK, GivenUsable, LastNamed, opa, Requests, network
<1>2. CASE Begin \/ NotReady
  <2>1. /\ pc' \in {"opa", "list"} /\ id' = 0 /\ seen' \in Nat
        /\ req' \in Policies \cup {{}} /\ reqName' \in Names \cup {None}
        /\ pc' = "list" => req' \in Policies /\ reqName' \in Names
    BY <1>2 DEF Begin, NotReady, Inv, TypeOK
  <2>2. TypeOK'
    BY <1>0, <1>1, <2>1 DEF Inv, TypeOK, Calls, spec, network
  <2>3. OwnStore'
    BY <2>1 DEF OwnStore
  <2>4. QED
    BY <1>1, <2>2, <2>3 DEF Inv
<1>3. CASE ListPage
  <2>1. /\ UNCHANGED <<req, reqName>> /\ pc = "list"
        /\ req \in Policies /\ reqName \in Names
    BY <1>3 DEF ListPage, Inv, TypeOK, Calls
  <2>2. CASE /\ pc' = "latest" /\ id' \in 1..Len(stores)
             /\ Live(reqName, id') /\ UNCHANGED seen
    <3>1. TypeOK'
      BY <1>0, <1>1, <2>1, <2>2 DEF Inv, TypeOK, Calls, spec, network
    <3>2. OwnStore'
      BY <1>0, <2>1, <2>2 DEF OwnStore, Live
    <3>3. QED
      BY <1>1, <3>1, <3>2 DEF Inv
  <2>3. CASE pc' \in {"list", "create"} /\ seen' \in Nat /\ UNCHANGED id
    <3>1. TypeOK'
      BY <1>0, <1>1, <2>1, <2>3 DEF Inv, TypeOK, Calls, spec, network
    <3>2. OwnStore'
      BY <2>3 DEF OwnStore
    <3>3. QED
      BY <1>1, <3>1, <3>2 DEF Inv
  <2>4. seen \in Nat /\ seen + PageSize \in Nat
    BY DEF Inv, TypeOK
  <2>5. QED
    BY <1>3, <2>1, <2>2, <2>3, <2>4 DEF ListPage
<1>4. CASE CheckModel
  <2>1. /\ id \in 1..Len(stores) /\ stores[id].name = reqName
        /\ reqName \in Names /\ req \in Policies
    BY <1>0, <1>4 DEF CheckModel, Inv, TypeOK, OwnStore, Calls
  <2>2. /\ UNCHANGED <<req, reqName, seen, id>>
        /\ pc' \in {"opa", "write"}
        /\ pc' = "opa" => stores[id].models # <<>>
    BY <1>4 DEF CheckModel, ModelMatches
  <2>3. TypeOK'
    BY <1>0, <1>1, <2>1, <2>2, SMTT(30) DEF Inv, TypeOK, Calls, spec, network
  <2>4. OwnStore'
    BY <1>0, <2>1, <2>2 DEF OwnStore
  <2>5. QED
    BY <1>1, <2>3, <2>4 DEF Inv
<1>5. QED
  BY <1>2, <1>3, <1>4

\* createAuthzStore.
LEMMA CreateKeepsInv ==
    ASSUME Inv, CreateStore
    PROVE  Inv'
<1>0. reqName \in Names /\ req \in Policies
  BY DEF CreateStore, Inv, TypeOK, Calls
<1>1. /\ stores' \in Seq(StoreType)
      /\ Len(stores') = Len(stores) + 1
      /\ stores'[Len(stores) + 1] = NewStore(reqName)
      /\ Grown
  BY <1>0, CreateEffect DEF CreateStore, Inv, TypeOK
<1>2. UNCHANGED opa /\ late' \subseteq late \cup Requests
  BY DEF CreateStore, network
<1>3. /\ Len(stores) \in Nat
      /\ late' \subseteq Requests'
  BY <1>1, <1>2, LateGrows DEF Inv
<1>4. /\ given' \in 0..Len(stores')
      /\ last' \in [Names -> 0..Len(stores')]
      /\ GivenUsable' /\ LastNamed'
  BY <1>1, <1>2, GrowthKeepsGiven
<1>5. TypeOK'
  BY <1>0, <1>1, <1>3, <1>4 DEF CreateStore, Inv, TypeOK, Calls, spec, network
<1>6. OwnStore'
  BY <1>1 DEF CreateStore, OwnStore, NewStore
<1>7. QED
  BY <1>4, <1>5, <1>6 DEF Inv

\* The last call of EnsureAuthzStore.
LEMMA WriteKeepsInv ==
    ASSUME Inv, WriteModel
    PROVE  Inv'
<1>1. Len(stores) \in Nat
  BY LenProperties DEF Inv, TypeOK
<1>2. /\ id \in 1..Len(stores) /\ req \in Policies
      /\ stores[id].name = reqName /\ reqName \in Names
      /\ UNCHANGED <<spec, network, opa, faults>>
  BY <1>1 DEF WriteModel, Inv, TypeOK, OwnStore, Calls
<1>3. CASE /\ stores' = AddModel(id, req) /\ pc' = "opa"
           /\ UNCHANGED <<req, reqName, seen, id>>
  <2>1. /\ stores' \in Seq(StoreType)
        /\ Len(stores') = Len(stores)
        /\ stores'[id].name = stores[id].name
        /\ stores'[id].models # <<>>
        /\ Grown
    BY <1>2, <1>3, WriteEffect DEF Inv, TypeOK
  <2>2. /\ given' \in 0..Len(stores')
        /\ last' \in [Names -> 0..Len(stores')]
        /\ GivenUsable' /\ LastNamed'
        /\ late' \subseteq Requests'
    BY <1>2, <2>1, GrowthKeepsGiven, LateGrows DEF Inv, network
  <2>3. TypeOK'
    BY <1>1, <1>2, <1>3, <2>1, <2>2 DEF Inv, TypeOK, Calls, spec, network
  <2>4. OwnStore'
    BY <1>2, <1>3, <2>1 DEF OwnStore
  <2>5. QED
    BY <2>2, <2>3, <2>4 DEF Inv
<1>4. CASE Idle /\ UNCHANGED stores
  <2>1. Grown /\ stores' \in Seq(StoreType)
    BY <1>1, <1>4 DEF Grown, Inv, TypeOK
  <2>2. /\ UNCHANGED spec /\ UNCHANGED opa
        /\ faults' \in 0..MaxFaults /\ delayed' \in 0..MaxLate
        /\ late' \subseteq late \cup Requests
    BY <1>2 DEF network, Inv, TypeOK
  <2>3. QED
    BY <1>4, <2>1, <2>2, IdleKeepsInv
<1>5. QED
  BY <1>3, <1>4 DEF WriteModel

\* The id goes into OPA's Deployment.
LEMMA ApplyKeepsInv ==
    ASSUME Inv, ApplyOPA
    PROVE  Inv'
<1>1. /\ Len(stores) \in Nat /\ id \in 0..Len(stores)
      /\ given' = id /\ UNCHANGED <<spec, stores, network, faults>> /\ Idle
      /\ last \in [Names -> 0..Len(stores)]
      /\ last' = IF id = 0 THEN last ELSE [last EXCEPT ![stores[id].name] = id]
  BY LenProperties DEF ApplyOPA, Inv, TypeOK
<1>2. id # 0 => stores[id].name \in Names /\ stores[id].models # <<>>
  BY DEF ApplyOPA, Inv, OwnStore
<1>3. last' \in [Names -> 0..Len(stores)] /\ late' \subseteq Requests'
  <2>1. last' \in [Names -> 0..Len(stores)]
    BY <1>1
  <2>2. late' \subseteq Requests'
    BY <1>1 DEF Inv, TypeOK, Requests, network
  <2>3. QED
    BY <2>1, <2>2
<1>4. TypeOK'
  BY <1>1, <1>3 DEF Inv, TypeOK, Idle, spec, network, Calls
<1>5. OwnStore' /\ GivenUsable'
  BY <1>1, <1>2 DEF OwnStore, GivenUsable, Idle
<1>6. LastNamed'
  <2> SUFFICES ASSUME NEW n \in Names, last'[n] # 0
               PROVE  stores[last'[n]].name = n
    BY <1>1 DEF LastNamed
  <2>1. CASE id # 0 /\ n = stores[id].name
    BY <1>1, <2>1
  <2>2. CASE id = 0 \/ n # stores[id].name
    BY <1>1, <1>2, <2>2 DEF Inv, LastNamed
  <2>3. QED
    BY <2>1, <2>2
<1>7. QED
  BY <1>4, <1>5, <1>6 DEF Inv

\* Faults of the operator and of its calls.
LEMMA FaultKeepsInv ==
    ASSUME Inv, Fail \/ LoseAnswer \/ GiveUp
    PROVE  Inv'
<1> USE BoundsAssumption
<1>1. Len(stores) \in Nat /\ faults \in 0..MaxFaults /\ delayed \in 0..MaxLate
  BY LenProperties DEF Inv, TypeOK
<1>2. UNCHANGED stores => Grown /\ stores' \in Seq(StoreType)
  BY <1>1 DEF Grown, Inv, TypeOK
<1>3. CASE Fail
  BY <1>1, <1>2, <1>3, IdleKeepsInv DEF Fail, Fault, network
<1>4. CASE LoseAnswer
  <2>1. Pending \in Requests
    BY <1>4, PendingRequest DEF LoseAnswer, Inv
  <2>2. Grown /\ stores' \in Seq(StoreType)
    BY <1>4, <2>1, EffectGrows DEF LoseAnswer, Inv, TypeOK
  <2>3. QED
    BY <1>1, <1>4, <2>2, IdleKeepsInv DEF LoseAnswer, Fault, network
<1>5. CASE GiveUp
  <2>1. Pending \in Requests
    BY <1>5, PendingRequest DEF GiveUp, Inv
  <2>2. QED
    BY <1>1, <1>2, <1>5, <2>1, IdleKeepsInv DEF GiveUp
<1>6. QED
  BY <1>3, <1>4, <1>5

\* What others do.
LEMMA OthersKeepInv ==
    ASSUME Inv, Arrive \/ EditSpec \/ DeleteStore
    PROVE  Inv'
<1> USE BoundsAssumption
<1>1. /\ Len(stores) \in Nat
      /\ want \in Policies \cup {{}} /\ name \in Names
      /\ edits \in 0..MaxEdits /\ faults \in 0..MaxFaults
  BY LenProperties DEF Inv, TypeOK
<1>2. UNCHANGED stores => Grown /\ stores' \in Seq(StoreType)
  BY <1>1 DEF Grown, Inv, TypeOK
<1>3. CASE Arrive
  <2>1. PICK c \in late : late' = late \ {c} /\ (Effect(c) \/ UNCHANGED stores)
    BY <1>3 DEF Arrive
  <2>2. c \in Requests
    BY <2>1 DEF Inv, TypeOK, Requests
  <2>3. Grown /\ stores' \in Seq(StoreType)
    BY <1>2, <2>1, <2>2, EffectGrows DEF Inv, TypeOK
  <2>4. UNCHANGED <<spec, delayed, operator, faults>>
    BY <1>3 DEF Arrive
  <2>5. UNCHANGED operator /\ UNCHANGED delayed /\ late' \subseteq late
    BY <2>1, <2>4
  <2>6. /\ want' \in Policies \cup {{}} /\ name' \in Names
        /\ edits' \in 0..MaxEdits /\ faults' \in 0..MaxFaults
    BY <1>1, <2>4 DEF spec
  <2>7. QED
    BY <2>3, <2>5, <2>6, GrowthKeepsInv
<1>4. CASE EditSpec
  <2>1. /\ want' \in Policies \cup {{}} /\ name' \in Names
        /\ edits' \in 0..MaxEdits
    BY <1>1, <1>4 DEF EditSpec
  <2>2. /\ UNCHANGED stores /\ UNCHANGED operator /\ UNCHANGED delayed
        /\ late' \subseteq late /\ faults' \in 0..MaxFaults
    BY <1>1, <1>4 DEF EditSpec, network
  <2>3. QED
    BY <1>2, <2>1, <2>2, GrowthKeepsInv
<1>5. CASE DeleteStore
  <2>1. PICK i \in 1..Len(stores) :
           stores' = [stores EXCEPT ![i].deleted = TRUE]
    BY <1>5 DEF DeleteStore
  <2>2. Grown /\ stores' \in Seq(StoreType)
    <3>1. stores \in Seq(StoreType)
      BY DEF Inv, TypeOK
    <3>2. QED
      BY <2>1, <3>1, DeleteEffect
  <2>3. UNCHANGED <<spec, network, operator>> /\ faults' \in 0..MaxFaults
    BY <1>1, <1>5 DEF DeleteStore, Fault
  <2>4. /\ UNCHANGED operator /\ UNCHANGED delayed /\ late' \subseteq late
        /\ want' \in Policies \cup {{}} /\ name' \in Names
        /\ edits' \in 0..MaxEdits
    BY <1>1, <2>3 DEF spec, network
  <2>5. QED
    BY <2>2, <2>3, <2>4, GrowthKeepsInv
<1>6. QED
  BY <1>3, <1>4, <1>5

\* OpenFGA starts with LakeKeeper's own store at most, and OPA with none.
LEMMA InitInv == Init => Inv
<1> SUFFICES ASSUME Init PROVE Inv
  OBVIOUS
<1> USE BoundsAssumption
<1>1. OtherStore \in StoreType
  BY DEF OtherStore, StoreType
<1>2. stores \in Seq(StoreType) /\ Len(stores) = 1
  BY <1>1 DEF Init
<1>3. TypeOK
  BY <1>2 DEF Init, TypeOK, Calls
<1>4. QED
  BY <1>3 DEF Init, Inv, OwnStore, GivenUsable, LastNamed

\* Inv is inductive: stores and models are only added, a deletion is a mark.
LEMMA NextInv == Inv /\ [Next]_vars => Inv'
<1> SUFFICES ASSUME Inv, [Next]_vars PROVE Inv'
  OBVIOUS
<1>1. CASE Next
  BY <1>1, ReadKeepsInv, CreateKeepsInv, WriteKeepsInv, ApplyKeepsInv,
     FaultKeepsInv, OthersKeepInv DEF Next, Work
<1>2. CASE UNCHANGED vars
  BY <1>2 DEF vars, Inv, TypeOK, OwnStore, GivenUsable, LastNamed, Requests
<1>3. QED
  BY <1>1, <1>2

\* The inductive invariant of what the operator gives to OPA.
THEOREM StoreInvCorrect == Spec => []Inv
BY InitInv, NextInv, PTL DEF Spec

\* Every reachable state is well-typed; in particular the ids the operator
\* holds exist in OpenFGA.
THEOREM StoreTypeCorrect == Spec => []TypeOK
<1>1. Inv => TypeOK
  BY DEF Inv
<1>2. QED
  BY <1>1, StoreInvCorrect, PTL

\* OPA is only ever given a store of the operator's that has a model, whatever
\* is lost, delayed, deleted or edited.
THEOREM GivenCorrect == Spec => []GivenUsable
<1>1. Inv => GivenUsable
  BY DEF Inv
<1>2. QED
  BY <1>1, StoreInvCorrect, PTL

-----------------------------------------------------------------------------
(***************************************************************************)
(* One store: until a call is given up that can still take effect.         *)
(***************************************************************************)

\* OneStore is not inductive: a run that is about to create a store relies on
\* what the pages it has read said, and nobody else creates one meanwhile.
Searched ==
    /\ pc = "list" =>
          \A i \in 1..Len(stores) : i <= seen => ~Live(reqName, i)
    /\ pc = "create" => \A i \in 1..Len(stores) : ~Live(reqName, i)

AtMostOne ==
    \A n \in Names : \A i, j \in 1..Len(stores) :
        Live(n, i) /\ Live(n, j) => i = j

NothingLate == delayed = 0 /\ late = {}

Single == NothingLate /\ AtMostOne /\ Searched

\* The inductive form: Single holds as long as no call was given up.
SingleSoFar == delayed = 0 => Single

\* Steps that bring no store to life keep Single if the search stays where it
\* is or ends.
LEMMA FewerKeepsSingle ==
    ASSUME Inv, Single, Len(stores') = Len(stores),
           \A n \in Names : \A i \in 1..Len(stores) : Live(n, i)' => Live(n, i),
           UNCHANGED <<pc, seen, reqName>> \/ pc' \notin {"list", "create"},
           UNCHANGED network
    PROVE  Single'
<1>1. NothingLate'
  BY DEF Single, NothingLate, network
<1>2. AtMostOne'
  BY DEF Single, AtMostOne
<1>3. Searched'
  <2>1. CASE pc' \notin {"list", "create"}
    BY <2>1 DEF Searched
  <2>2. CASE pc \in {"list", "create"} /\ UNCHANGED <<pc, seen, reqName>>
    <3>1. reqName \in Names
      BY <2>2 DEF Inv, TypeOK, Calls
    <3>2. \A i \in 1..Len(stores) : Live(reqName, i)' => Live(reqName, i)
      BY <2>2, <3>1 DEF Live
    <3>3. QED
      BY <2>2, <3>2 DEF Single, Searched
  <2>3. QED
    BY <2>1, <2>2
<1>4. QED
  BY <1>1, <1>2, <1>3 DEF Single

\* The search itself, page by page.
LEMMA ListKeepsSingle ==
    ASSUME Inv, Single, ListPage
    PROVE  Single'
<1> USE BoundsAssumption
<1> DEFINE page == {i \in 1..Len(stores) : seen < i /\ i <= seen + PageSize}
<1>1. /\ UNCHANGED <<stores, network, reqName>> /\ pc = "list"
      /\ Len(stores) \in Nat /\ seen \in Nat
  BY LenProperties DEF ListPage, Inv, TypeOK
<1>2. NothingLate' /\ AtMostOne'
  BY <1>1 DEF Single, NothingLate, AtMostOne, Live, network
<1>3. \A i \in 1..Len(stores) : i <= seen => ~Live(reqName, i)
  BY <1>1 DEF Single, Searched
<1>4. \A i \in 1..Len(stores) : Live(reqName, i)' = Live(reqName, i)
  BY <1>1 DEF Live
<1>5. CASE pc' = "latest"
  BY <1>2, <1>5 DEF Single, Searched
<1>6. CASE /\ \A i \in page : ~Live(reqName, i)
           /\ seen' = seen + PageSize /\ UNCHANGED <<pc, id>>
  <2>1. \A i \in 1..Len(stores) : i <= seen' => ~Live(reqName, i)
    BY <1>1, <1>3, <1>6
  <2>2. Searched'
    BY <1>1, <1>4, <1>6, <2>1 DEF Searched
  <2>3. QED
    BY <1>2, <2>2 DEF Single
<1>7. CASE (\A i \in page : ~Live(reqName, i)) /\ LastPage /\ pc' = "create"
  <2>1. \A i \in 1..Len(stores) : ~Live(reqName, i)
    BY <1>1, <1>3, <1>7 DEF LastPage
  <2>2. Searched'
    BY <1>1, <1>4, <1>7, <2>1 DEF Searched
  <2>3. QED
    BY <1>2, <2>2 DEF Single
<1>8. QED
  BY <1>5, <1>6, <1>7 DEF ListPage

\* A store created, with or without the operator learning of it.
LEMMA CreateKeepsSingle ==
    ASSUME Inv, Single, pc = "create",
           stores' = Append(stores, NewStore(reqName)),
           pc' \notin {"list", "create"}, UNCHANGED network
    PROVE  Single'
<1>0. reqName \in Names
  BY DEF Inv, TypeOK, Calls
<1>1. /\ Len(stores) \in Nat
      /\ Len(stores') = Len(stores) + 1
      /\ stores'[Len(stores) + 1] = NewStore(reqName)
      /\ \A i \in 1..Len(stores) : stores'[i] = stores[i]
  BY <1>0, CreateEffect, LenProperties DEF Inv, TypeOK
<1>2. ASSUME NEW n \in Names, NEW i \in 1..Len(stores'),
             NEW j \in 1..Len(stores'), Live(n, i)', Live(n, j)'
      PROVE  i = j
  <2>1. \A k \in 1..Len(stores) : Live(n, k)' = Live(n, k)
    BY <1>1 DEF Live
  <2>2. NewStore(reqName).name = reqName
    BY DEF NewStore
  <2>3. CASE i \in 1..Len(stores) /\ j \in 1..Len(stores)
    BY <1>2, <2>1, <2>3 DEF Single, AtMostOne
  <2>4. CASE n = reqName
    <3>1. \A k \in 1..Len(stores) : ~Live(n, k)
      BY <2>4 DEF Single, Searched
    <3>2. i \notin 1..Len(stores) /\ j \notin 1..Len(stores)
      BY <1>2, <2>1, <3>1
    <3>3. QED
      BY <1>1, <1>2, <3>2
  <2>5. CASE n # reqName
    <3>1. i # Len(stores) + 1 /\ j # Len(stores) + 1
      BY <1>1, <1>2, <2>2, <2>5 DEF Live
    <3>2. i \in 1..Len(stores) /\ j \in 1..Len(stores)
      BY <1>1, <1>2, <3>1
    <3>3. QED
      BY <2>3, <3>2
  <2>6. QED
    BY <2>4, <2>5
<1>3. AtMostOne'
  BY <1>2 DEF AtMostOne
<1>4. QED
  BY <1>3 DEF Single, Searched, NothingLate, network

\* A model written, with or without the operator learning of it.
LEMMA WriteKeepsSingle ==
    ASSUME Inv, Single, pc = "write",
           stores' = AddModel(id, req) \/ UNCHANGED stores,
           pc' \notin {"list", "create"}, UNCHANGED network
    PROVE  Single'
<1>1. id \in 1..Len(stores) /\ req \in Policies
  BY LenProperties DEF Inv, TypeOK, Calls
<1>2. /\ Len(stores') = Len(stores)
      /\ \A i \in 1..Len(stores) : /\ stores'[i].name = stores[i].name
                                   /\ stores'[i].deleted = stores[i].deleted
  <2>1. CASE UNCHANGED stores
    BY <2>1
  <2>2. CASE stores' = AddModel(id, req)
    BY <1>1, <2>2, WriteEffect DEF Inv, TypeOK
  <2>3. QED
    BY <2>1, <2>2
<1>3. \A n \in Names : \A i \in 1..Len(stores) : Live(n, i)' => Live(n, i)
  BY <1>2 DEF Live
<1>4. QED
  BY <1>2, <1>3, FewerKeepsSingle

\* Until a call takes effect late, a store is created only when all pages were
\* read and none of them had a live one.
LEMMA NextSingle ==
    ASSUME Inv, Single, [Next]_vars, delayed' = 0
    PROVE  Single'
<1>1. CASE Begin
  <2>1. /\ UNCHANGED <<stores, network>>
        /\ pc' = "opa" \/ (pc' = "list" /\ seen' = 0)
    BY <1>1 DEF Begin
  <2>2. Len(stores) \in Nat
    BY LenProperties DEF Inv, TypeOK
  <2>3. QED
    BY <2>1, <2>2
    DEF Single, NothingLate, AtMostOne, Searched, Live, network
<1>2. CASE ListPage
  BY <1>2, ListKeepsSingle
<1>3. CASE CreateStore
  BY <1>3, CreateKeepsSingle DEF CreateStore
<1>4. CASE NotReady \/ CheckModel \/ ApplyOPA \/ Fail
  <2>1. UNCHANGED <<stores, network>> /\ pc' \in {"opa", "write", "idle"}
    BY <1>4 DEF NotReady, CheckModel, ApplyOPA, Fail, Idle
  <2>2. QED
    BY <2>1, FewerKeepsSingle DEF Live
<1>5. CASE WriteModel
  BY <1>5, WriteKeepsSingle DEF WriteModel, Idle
<1>7. CASE LoseAnswer
  <2>1. pc' = "idle" /\ UNCHANGED network /\ Effect(Pending)
    BY <1>7 DEF LoseAnswer, Idle
  <2>2. CASE pc = "create"
    <3>1. stores' = Append(stores, NewStore(reqName))
      BY <2>1, <2>2 DEF Effect, Pending, CreateCall
    <3>2. QED
      BY <2>1, <2>2, <3>1, CreateKeepsSingle
  <2>3. CASE pc = "write"
    <3>1. stores' = AddModel(id, req) \/ UNCHANGED stores
      BY <2>1, <2>3 DEF Effect, Pending, WriteCall
    <3>2. QED
      BY <2>1, <2>3, <3>1, WriteKeepsSingle
  <2>4. QED
    BY <1>7, <2>2, <2>3 DEF LoseAnswer
<1>8. CASE GiveUp
  BY <1>8 DEF GiveUp, Single, NothingLate
<1>9. CASE Arrive
  BY <1>9 DEF Arrive, Single, NothingLate
<1>10. CASE EditSpec \/ UNCHANGED vars
  <2>1. UNCHANGED <<stores, network, pc, seen, reqName>>
    BY <1>10 DEF EditSpec, operator, run, network, vars
  <2>2. QED
    BY <2>1, FewerKeepsSingle DEF Live
<1>11. CASE DeleteStore
  <2>1. PICK i \in 1..Len(stores) :
           stores' = [stores EXCEPT ![i].deleted = TRUE]
    BY <1>11 DEF DeleteStore
  <2>2. /\ Len(stores') = Len(stores)
        /\ \A j \in 1..Len(stores) :
              /\ stores'[j].name = stores[j].name
              /\ stores[j].deleted => stores'[j].deleted
    BY <2>1, DeleteEffect DEF Inv, TypeOK
  <2>3. UNCHANGED <<pc, seen, reqName>> /\ UNCHANGED network
    BY <1>11 DEF DeleteStore, operator, run
  <2>4. \A n \in Names : \A j \in 1..Len(stores) : Live(n, j)' => Live(n, j)
    BY <2>2 DEF Live
  <2>5. QED
    BY <2>2, <2>3, <2>4, FewerKeepsSingle
<1>13. QED
  BY <1>1, <1>2, <1>3, <1>4, <1>5, <1>7, <1>8, <1>9, <1>10, <1>11
  DEF Next, Work

\* The operator has no store to begin with.
LEMMA InitSingle == Init => Single
<1> SUFFICES ASSUME Init PROVE Single
  OBVIOUS
<1>1. Len(stores) = 1 /\ stores[1].name = "lakekeeper" /\ pc = "idle"
  BY DEF Init, OtherStore
<1>2. \A n \in Names : ~Live(n, 1)
  BY <1>1, NamesAssumption DEF Live
<1>3. AtMostOne
  BY <1>1, <1>2 DEF AtMostOne
<1>4. QED
  BY <1>1, <1>3 DEF Init, Single, NothingLate, Searched

\* Calls given up are counted and never forgotten.
LEMMA DelayedGrows ==
    ASSUME Inv, [Next]_vars, delayed' = 0
    PROVE  delayed = 0
<1>1. delayed \in Nat /\ (delayed' = delayed \/ delayed' = delayed + 1)
  BY DEF Next, Work, Begin, ListPage, CreateStore, CheckModel, WriteModel,
     ApplyOPA, NotReady, Fail, LoseAnswer, GiveUp, Arrive, EditSpec,
     DeleteStore, network, vars, Inv, TypeOK
<1>2. QED
  BY <1>1

\* Once a call took effect late, nothing is claimed any more.
LEMMA NextSingleSoFar ==
    ASSUME Inv, SingleSoFar, [Next]_vars
    PROVE  SingleSoFar'
<1> SUFFICES ASSUME delayed' = 0 PROVE Single'
  BY DEF SingleSoFar
<1>1. delayed = 0
  BY DelayedGrows
<1>2. QED
  BY <1>1, NextSingle DEF SingleSoFar

\* There is never a second live store of a name, for any number of failures,
\* lost answers, restarts, deletions, edits and renames, until a call is given
\* up.
THEOREM OneStoreCorrect == Spec => []OneStore
<1>1. Inv /\ SingleSoFar /\ [Next]_vars => SingleSoFar'
  BY NextSingleSoFar
<1>2. SingleSoFar => OneStore
  BY DEF SingleSoFar, Single, AtMostOne, OneStore
<1>3. Init => SingleSoFar
  BY InitSingle DEF SingleSoFar
<1>4. QED
  BY <1>1, <1>2, <1>3, StoreInvCorrect, PTL DEF Spec

-----------------------------------------------------------------------------
(***************************************************************************)
(* The store is kept: what the run holds when it reaches OPA.              *)
(***************************************************************************)

\* StoreKept is about the step that gives the store to OPA; what makes it true
\* was found out calls before, and must have stayed true.
Held == pc \in {"latest", "write", "opa"} /\ id # 0 => Kept(id)
HeldSoFar == delayed = 0 => Held

\* Deletions and new stores take nothing away from a store that is held.
LEMMA GrowthKeepsHeld ==
    ASSUME Inv, Held, Grown, UNCHANGED id, UNCHANGED last,
           pc' \in {"latest", "write", "opa"} =>
              pc \in {"latest", "write", "opa"}
    PROVE  Held'
<1> SUFFICES ASSUME pc' \in {"latest", "write", "opa"}, id # 0 PROVE Kept(id)'
  BY DEF Held
<1>1. Kept(id)
  BY DEF Held
<1>2. id \in 1..Len(stores)
  BY LenProperties DEF Inv, TypeOK
<1>3. stores[id].name \in Names
  <2>1. CASE pc \in {"latest", "write"}
    BY <2>1 DEF Inv, OwnStore, TypeOK, Calls
  <2>2. CASE pc = "opa"
    BY <2>2 DEF Inv, OwnStore
  <2>3. QED
    BY <2>1, <2>2
<1> DEFINE n == stores[id].name
<1>4. last[n] \in 0..Len(stores) /\ Len(stores) \in Nat
  BY <1>3, LenProperties DEF Inv, TypeOK
<1>5. stores'[id].name = n
  BY <1>2 DEF Grown
<1>6. last[n] # 0 /\ stores[last[n]].deleted => stores'[last[n]].deleted
  BY <1>4 DEF Grown
<1>7. last[n] \in {0, id} \/ stores[last[n]].deleted
  BY <1>1 DEF Kept
<1>8. last[n] \in {0, id} \/ stores'[last[n]].deleted
  BY <1>6, <1>7
<1>9. QED
  BY <1>5, <1>8 DEF Kept

\* A store found is the only live one of its name; one created replaces none
\* that is alive.
LEMMA FoundHeld ==
    ASSUME Inv, Single, ListPage \/ CreateStore
    PROVE  Held'
<1>1. /\ pc \in {"list", "create"} /\ reqName \in Names /\ UNCHANGED last
      /\ last[reqName] \in 0..Len(stores) /\ Len(stores) \in Nat
  BY LenProperties DEF ListPage, CreateStore, Inv, TypeOK, Calls, opa
<1>2. last[reqName] # 0 =>
         stores[last[reqName]].deleted \/ Live(reqName, last[reqName])
  BY <1>1 DEF Inv, LastNamed, Live
<1>3. CASE pc' \in {"list", "create"}
  BY <1>3 DEF Held
<1>4. CASE /\ UNCHANGED stores /\ id' \in 1..Len(stores)
           /\ Live(reqName, id')
  <2>1. stores[id'].name = reqName
    BY <1>4 DEF Live
  <2>2. last[reqName] \in {0, id'} \/ stores[last[reqName]].deleted
    BY <1>1, <1>2, <1>4 DEF Single, AtMostOne
  <2>3. QED
    BY <1>1, <1>4, <2>1, <2>2 DEF Held, Kept
<1>5. CASE CreateStore
  <2>1. /\ stores'[Len(stores) + 1] = NewStore(reqName)
        /\ \A i \in 1..Len(stores) : stores'[i] = stores[i]
    BY <1>1, <1>5, CreateEffect DEF CreateStore, Inv, TypeOK
  <2>2. stores'[id'].name = reqName
    BY <1>5, <2>1 DEF CreateStore, NewStore
  <2>3. last[reqName] # 0 => stores[last[reqName]].deleted
    BY <1>1, <1>2, <1>5 DEF CreateStore, Single, Searched
  <2>4. last[reqName] # 0 => stores'[last[reqName]].deleted
    BY <1>1, <2>1, <2>3
  <2>5. QED
    BY <1>1, <2>2, <2>4 DEF Held, Kept
<1>6. QED
  BY <1>3, <1>4, <1>5 DEF ListPage

\* What a run holds stays the right store until OPA has it.
LEMMA NextHeld ==
    ASSUME Inv, Single, Held, [Next]_vars, delayed' = 0
    PROVE  Held'
<1>1. CASE Begin \/ NotReady
  BY <1>1 DEF Begin, NotReady, Held
<1>2. CASE ListPage \/ CreateStore
  BY <1>2, FoundHeld
<1>3. CASE pc' = "idle"
  BY <1>3 DEF Held
<1>4. ASSUME UNCHANGED id, UNCHANGED last, Grown,
             pc' \in {"latest", "write", "opa"} =>
                pc \in {"latest", "write", "opa"}
      PROVE  Held'
  BY <1>4, GrowthKeepsHeld
<1>5. UNCHANGED stores => Grown
  BY LenProperties DEF Grown, Inv, TypeOK
<1>6. CASE CheckModel
  BY <1>4, <1>5, <1>6 DEF CheckModel, opa
<1>7. CASE WriteModel
  <2>1. id \in 1..Len(stores) /\ req \in Policies
    BY <1>7, LenProperties DEF WriteModel, Inv, TypeOK, Calls
  <2>2. CASE stores' = AddModel(id, req) /\ UNCHANGED id
    <3>1. Grown
      BY <2>1, <2>2, WriteEffect DEF Inv, TypeOK
    <3>2. pc = "write" /\ UNCHANGED last
      BY <1>7 DEF WriteModel, opa
    <3>3. QED
      BY <1>4, <2>2, <3>1, <3>2
  <2>3. QED
    BY <1>3, <1>7, <2>2 DEF WriteModel, Idle
<1>8. CASE ApplyOPA \/ Fail \/ LoseAnswer \/ GiveUp
  BY <1>3, <1>8 DEF ApplyOPA, Fail, LoseAnswer, GiveUp, Idle
<1>9. CASE Arrive
  BY <1>9 DEF Arrive, Single, NothingLate
<1>10. CASE EditSpec \/ UNCHANGED vars
  <2>1. UNCHANGED <<stores, pc, id, last>>
    BY <1>10 DEF EditSpec, operator, run, opa, vars
  <2>2. QED
    BY <1>4, <1>5, <2>1
<1>11. CASE DeleteStore
  <2>1. PICK i \in 1..Len(stores) :
           stores' = [stores EXCEPT ![i].deleted = TRUE]
    BY <1>11 DEF DeleteStore
  <2>2. Grown
    <3>1. stores \in Seq(StoreType)
      BY DEF Inv, TypeOK
    <3>2. QED
      BY <2>1, <3>1, DeleteEffect
  <2>3. UNCHANGED <<pc, id, last>>
    BY <1>11 DEF DeleteStore, operator, run, opa
  <2>4. QED
    BY <1>4, <2>2, <2>3
<1>12. QED
  BY <1>1, <1>2, <1>6, <1>7, <1>8, <1>9, <1>10, <1>11 DEF Next, Work

\* Under one name OPA gets another store only when the one it was given last
\* was deleted.
THEOREM StoreKeptCorrect == Spec => StoreKept
<1>1. Inv /\ SingleSoFar /\ [Next]_vars => SingleSoFar'
  BY NextSingleSoFar
<1>2. Inv /\ SingleSoFar /\ HeldSoFar /\ [Next]_vars => HeldSoFar'
  BY NextHeld, DelayedGrows DEF SingleSoFar, HeldSoFar
<1>3. ASSUME Inv, HeldSoFar, Next, delayed' = 0, given' # given, given' # 0
      PROVE  Kept(given')
  <2>1. given' = id /\ pc = "opa" /\ UNCHANGED delayed
    BY <1>3 DEF Next, Work, Begin, ListPage, CreateStore, CheckModel,
       WriteModel, ApplyOPA, NotReady, Fail, LoseAnswer, GiveUp, Arrive,
       EditSpec, DeleteStore, operator, opa, network
  <2>2. Kept(id)
    BY <1>3, <2>1 DEF HeldSoFar, Held
  <2>3. QED
    BY <2>1, <2>2
<1>4. Inv /\ HeldSoFar /\ [Next]_vars =>
        [delayed' = 0 /\ given' # given /\ given' # 0 => Kept(given')]_vars
  BY <1>3
<1>5. Init => SingleSoFar /\ HeldSoFar
  BY InitSingle DEF SingleSoFar, HeldSoFar, Init, Held
<1>6. QED
  BY <1>1, <1>2, <1>4, <1>5, StoreInvCorrect, PTL DEF Spec, StoreKept

-----------------------------------------------------------------------------
(***************************************************************************)
(* No churn: what CheckModel found out still holds when WriteModel acts.   *)
(***************************************************************************)

Varied(ms) == \A k \in 1..(Len(ms) - 1) : ms[k] # ms[k + 1]
Fits(ms, p) == ms # <<>> /\ ms[Len(ms)] = Shape(p)

Needed == pc = "write" => stores[id].deleted \/ ~Fits(stores[id].models, req)

Lean ==
    /\ NothingLate
    /\ \A i \in 1..Len(stores) : Varied(stores[i].models)
    /\ Needed

LeanSoFar == delayed = 0 => Lean

\* A model that is appended because the latest does not fit repeats nothing.
LEMMA AppendVaried ==
    ASSUME NEW ms \in Seq(Models), NEW p \in Policies,
           Varied(ms), ~Fits(ms, p)
    PROVE  Varied(Append(ms, Shape(p)))
<1> DEFINE new == Append(ms, Shape(p))
<1>1. Len(ms) \in Nat /\ Shape(p) \in Models
  BY LenProperties DEF Models
<1>2. /\ Len(new) = Len(ms) + 1
      /\ new[Len(ms) + 1] = Shape(p)
      /\ \A k \in 1..Len(ms) : new[k] = ms[k]
  BY <1>1, AppendProperties
<1> HIDE DEF new
<1>3. Len(ms) # 0 => ms # <<>>
  BY EmptySeq
<1>4. ASSUME NEW k \in 1..(Len(new) - 1)
      PROVE  new[k] # new[k + 1]
  <2>1. CASE k = Len(ms)
    BY <1>1, <1>2, <1>3, <1>4, <2>1 DEF Fits
  <2>2. CASE k # Len(ms)
    BY <1>1, <1>2, <1>4, <2>2 DEF Varied
  <2>3. QED
    BY <2>1, <2>2
<1>5. Varied(new)
  BY <1>4 DEF Varied
<1>6. QED
  BY <1>5 DEF new

\* A model that CheckModel found missing is written once.
LEMMA WriteKeepsLean ==
    ASSUME Inv, Lean, pc = "write",
           (~stores[id].deleted /\ stores' = AddModel(id, req))
              \/ UNCHANGED stores,
           pc' # "write", UNCHANGED network
    PROVE  Lean'
<1>1. id \in 1..Len(stores) /\ req \in Policies /\ stores \in Seq(StoreType)
  BY LenProperties DEF Inv, TypeOK, Calls
<1>2. NothingLate' /\ Needed'
  BY DEF Lean, NothingLate, Needed, network
<1>3. CASE UNCHANGED stores
  BY <1>2, <1>3 DEF Lean
<1>4. CASE ~stores[id].deleted /\ stores' = AddModel(id, req)
  <2> DEFINE s == stores[id]
             ms == Append(s.models, Shape(req))
             r == [s EXCEPT !.models = ms]
  <2>1. s \in StoreType
    BY <1>1, ElementOfSeq
  <2>2. s.models \in Seq(Models) /\ Shape(req) \in Models
    BY <1>1, <2>1 DEF StoreType, Models
  <2>3. Varied(s.models) /\ ~Fits(s.models, req)
    BY <1>1, <1>4 DEF Lean, Needed
  <2>4. Varied(ms)
    BY <1>1, <2>2, <2>3, AppendVaried
  <2>5. ms \in Seq(Models)
    BY <2>2, AppendProperties
  <2>6. r \in StoreType /\ r.models = ms
    BY <2>1, <2>5 DEF StoreType, Models
  <2>7. stores' = [stores EXCEPT ![id] = r]
    BY <1>4 DEF AddModel
  <2>8. /\ Len(stores') = Len(stores)
        /\ \A j \in 1..Len(stores) :
              stores'[j] = IF j = id THEN r ELSE stores[j]
    BY <1>1, <2>6, <2>7, ExceptSeq
  <2> HIDE DEF s, ms, r
  <2>9. \A j \in 1..Len(stores') : Varied(stores'[j].models)
    BY <2>4, <2>6, <2>8 DEF Lean
  <2>10. QED
    BY <1>2, <2>9 DEF Lean
<1>5. QED
  BY <1>3, <1>4

\* A new store has no models yet.
LEMMA CreateKeepsLean ==
    ASSUME Inv, Lean, NEW n \in Names, stores' = Append(stores, NewStore(n)),
           pc' # "write",
           UNCHANGED network
    PROVE  Lean'
<1>1. /\ Len(stores) \in Nat
      /\ Len(stores') = Len(stores) + 1
      /\ stores'[Len(stores) + 1] = NewStore(n)
      /\ \A i \in 1..Len(stores) : stores'[i] = stores[i]
  BY CreateEffect, LenProperties DEF Inv, TypeOK
<1>2. Varied(NewStore(n).models)
  BY EmptySeq DEF NewStore, Varied
<1>3. \A i \in 1..Len(stores') : Varied(stores'[i].models)
  BY <1>1, <1>2 DEF Lean
<1>4. QED
  BY <1>3 DEF Lean, NothingLate, Needed, network

\* Steps that leave the models alone and do not begin a write.
LEMMA StillKeepsLean ==
    ASSUME Lean, Len(stores') = Len(stores),
           \A i \in 1..Len(stores) : stores'[i].models = stores[i].models,
           Needed', UNCHANGED network
    PROVE  Lean'
BY DEF Lean, NothingLate, network

\* EnsureAuthzStore writes a model only when the latest one has another shape.
LEMMA NextLean ==
    ASSUME Inv, Lean, [Next]_vars, delayed' = 0
    PROVE  Lean'
<1>1. CASE Begin \/ NotReady \/ ListPage \/ ApplyOPA \/ Fail
  <2>1. UNCHANGED <<stores, network>> /\ pc' # "write"
    BY <1>1 DEF Begin, NotReady, ListPage, ApplyOPA, Fail, Idle
  <2>2. QED
    BY <2>1, StillKeepsLean DEF Needed
<1>2. CASE CreateStore
  <2>1. reqName \in Names
    BY <1>2 DEF CreateStore, Inv, TypeOK, Calls
  <2>2. QED
    BY <1>2, <2>1, CreateKeepsLean DEF CreateStore
<1>3. CASE CheckModel
  <2>1. UNCHANGED stores /\ UNCHANGED network /\ UNCHANGED id /\ UNCHANGED req
    BY <1>3 DEF CheckModel
  <2>2. Needed'
    BY <1>3, <2>1 DEF CheckModel, ModelMatches, Needed, Fits
  <2>3. QED
    BY <2>1, <2>2, StillKeepsLean
<1>4. CASE WriteModel
  <2>1. /\ pc = "write" /\ pc' # "write" /\ UNCHANGED network
        /\ \/ ~stores[id].deleted /\ stores' = AddModel(id, req)
           \/ UNCHANGED stores
    BY <1>4 DEF WriteModel, Idle
  <2>2. QED
    BY <2>1, WriteKeepsLean
<1>6. CASE LoseAnswer
  <2>1. pc' = "idle" /\ UNCHANGED network /\ Effect(Pending)
    BY <1>6 DEF LoseAnswer, Idle
  <2>2. CASE pc = "create"
    <3>1. stores' = Append(stores, NewStore(reqName)) /\ reqName \in Names
      BY <2>1, <2>2 DEF Effect, Pending, CreateCall, Inv, TypeOK, Calls
    <3>2. QED
      BY <2>1, <3>1, CreateKeepsLean
  <2>3. CASE pc = "write"
    <3>1. \/ ~stores[id].deleted /\ stores' = AddModel(id, req)
          \/ UNCHANGED stores
      BY <2>1, <2>3 DEF Effect, Pending, WriteCall
    <3>2. QED
      BY <2>1, <2>3, <3>1, WriteKeepsLean
  <2>4. QED
    BY <1>6, <2>2, <2>3 DEF LoseAnswer
<1>7. CASE GiveUp
  BY <1>7 DEF GiveUp, Lean, NothingLate
<1>8. CASE Arrive
  BY <1>8 DEF Arrive, Lean, NothingLate
<1>9. CASE EditSpec
  <2>1. /\ UNCHANGED stores /\ UNCHANGED network
        /\ UNCHANGED pc /\ UNCHANGED id /\ UNCHANGED req
    BY <1>9 DEF EditSpec, operator, run
  <2>2. Needed'
    BY <2>1 DEF Lean, Needed
  <2>3. QED
    BY <2>1, <2>2, StillKeepsLean
<1>10. CASE DeleteStore
  <2>1. PICK i \in 1..Len(stores) :
           stores' = [stores EXCEPT ![i].deleted = TRUE]
    BY <1>10 DEF DeleteStore
  <2>2. /\ Len(stores') = Len(stores)
        /\ \A j \in 1..Len(stores) :
              /\ stores'[j].models = stores[j].models
              /\ stores[j].deleted => stores'[j].deleted
    BY <2>1, DeleteEffect DEF Inv, TypeOK
  <2>3. /\ UNCHANGED network
        /\ UNCHANGED pc /\ UNCHANGED id /\ UNCHANGED req
    BY <1>10 DEF DeleteStore, operator, run
  <2>4. pc = "write" => id \in 1..Len(stores)
    BY LenProperties DEF Inv, TypeOK
  <2>5. Needed'
    BY <2>2, <2>3, <2>4 DEF Lean, Needed
  <2>6. QED
    BY <2>2, <2>3, <2>5, StillKeepsLean
<1>11. CASE UNCHANGED vars
  <2>1. /\ UNCHANGED stores /\ UNCHANGED network
        /\ UNCHANGED pc /\ UNCHANGED id /\ UNCHANGED req
    BY <1>11 DEF vars, network
  <2>2. Needed'
    BY <2>1 DEF Lean, Needed
  <2>3. QED
    BY <2>1, <2>2, StillKeepsLean
<1>12. QED
  BY <1>1, <1>2, <1>3, <1>4, <1>6, <1>7, <1>8, <1>9, <1>10, <1>11
  DEF Next, Work

\* No store of the operator's has a model to begin with.
LEMMA InitLean == Init => LeanSoFar
<1> SUFFICES ASSUME Init PROVE Lean
  BY DEF LeanSoFar
<1>1. Len(stores) = 1 /\ stores[1] = OtherStore /\ pc = "idle"
  BY DEF Init
<1>2. Varied(OtherStore.models)
  BY EmptySeq DEF OtherStore, Varied
<1>3. QED
  BY <1>1, <1>2 DEF Init, Lean, NothingLate, Needed

\* No store gets the same model twice in a row, whatever is lost, deleted or
\* edited, until a call is given up.
THEOREM NoChurnCorrect == Spec => []NoChurn
<1>1. Inv /\ LeanSoFar /\ [Next]_vars => LeanSoFar'
  BY NextLean, DelayedGrows DEF LeanSoFar
<1>2. LeanSoFar => NoChurn
  BY DEF LeanSoFar, Lean, Varied, NoChurn
<1>3. QED
  BY <1>1, <1>2, InitLean, StoreInvCorrect, PTL DEF Spec

=============================================================================
