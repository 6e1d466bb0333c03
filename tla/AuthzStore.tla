----------------------------- MODULE AuthzStore -----------------------------
(***************************************************************************)
(* reconcileAccessStore: finding or creating the OpenFGA store that backs  *)
(* row filters and column masks, and keeping its authorization model in    *)
(* step with the spec.                                                     *)
(*                                                                         *)
(* OpenFGA offers no create-if-absent, so the operator lists, creates,     *)
(* reads the latest model and writes, each over an HTTP call with a        *)
(* timeout.  An answer can be lost after the call took effect, and a call  *)
(* the operator has given up on can still take effect later.  The store is *)
(* known by a name that the user may edit.  The same pass then puts the id *)
(* of the store into OPA's Deployment; the copy in the status is only      *)
(* displayed and is left out.                                              *)
(***************************************************************************)
EXTENDS Naturals, Sequences

CONSTANTS
    Policies,   \* what a user may ask for: sets of <<type, relation>>
    Names,      \* the values of spec.authz.openfga.rowFilterStore
    PageSize,   \* authzStorePageSize
    MaxEdits,   \* bound: edits of the policies or of the store's name
    MaxFaults,  \* bound: failed calls, lost answers, crashes, deletions, outages
    MaxLate     \* bound: calls that take effect after they were given up

\* A policy on the built-in type names is left out: OpenFGA refuses a model
\* that defines a type twice, so it would fail every pass.
ASSUME PoliciesAssumption ==
    /\ {} \notin Policies
    /\ \A p \in Policies : \A q \in p : q[1] \notin {"user", "group"}
\* The name is "deliberately separate" from that of LakeKeeper's own store.
ASSUME NamesAssumption ==
    /\ Names \subseteq STRING
    /\ "lakekeeper" \notin Names
ASSUME BoundsAssumption ==
    /\ PageSize \in Nat \ {0}
    /\ MaxEdits \in Nat /\ MaxFaults \in Nat /\ MaxLate \in Nat

VARIABLES
    want,       \* the policies of the current spec, {} if there are none
    name,       \* its rowFilterStore
    edits,      \* edits made, at most MaxEdits
    stores,     \* OpenFGA's stores in the order of their ids
    late,       \* calls given up that may still take effect
    delayed,    \* how many there have been, at most MaxLate
    pc,         \* the next call of the pass, or "idle"
    req,        \* the policies this run of EnsureAuthzStore asks for
    reqName,    \* and the name of the store it looks for
    seen,       \* stores listed so far: the continuation token
    id,         \* rowFilterStoreID: the store found or created; 0 is none
    given,      \* OPENFGA_STORE_ID in OPA's Deployment; 0 is none
    faults,     \* faults spent, at most MaxFaults
    last        \* history: the store OPA was last given under each name

vars == <<want, name, edits, stores, late, delayed, pc, req, reqName, seen, id,
          given, faults, last>>
spec == <<want, name, edits>>
run == <<pc, req, reqName, seen, id>>
opa == <<given, last>>
operator == <<run, opa>>
network == <<late, delayed>>

None == "none"
Calls == {"list", "create", "latest", "write"}
CreateCall(n) == [op |-> "create", name |-> n]
WriteCall(i, p) == [op |-> "write", store |-> i, policies |-> p]

\* accessAuthzTypes: the relations of each type, merged over the policies.
AccessAuthzTypes(p) ==
    [t \in {q[1] : q \in p} |-> {q[2] : q \in {r \in p : r[1] = t}}]

\* authzModelShape of the model that authzModelJSON makes: the relations of
\* every type, the built-in types included.
Shape(p) ==
    LET types == AccessAuthzTypes(p)
    IN  [t \in DOMAIN types \cup {"user", "group"} |->
            CASE t = "user"  -> {}
              [] t = "group" -> {"member"}
              [] OTHER       -> types[t]]

\* A store as OpenFGA keeps it.
NewStore(n) == [name |-> n, deleted |-> FALSE, models |-> <<>>]
OtherStore == [name |-> "lakekeeper", deleted |-> FALSE, models |-> <<>>]

\* What findAuthzStore looks for.
Live(n, i) == stores[i].name = n /\ ~stores[i].deleted
AddModel(i, p) ==
    [stores EXCEPT ![i].models = Append(@, Shape(p))]

Fault ==
    /\ faults < MaxFaults
    /\ faults' = faults + 1

\* The pass is over and its local variables are gone.
Idle ==
    /\ pc' = "idle"
    /\ req' = {}
    /\ reqName' = None
    /\ seen' = 0
    /\ id' = 0

-----------------------------------------------------------------------------
(***************************************************************************)
(* The operator.                                                           *)
(***************************************************************************)

\* reconcileAccessStore: the run works on the spec as the pass has read it.
\* Without policies there is no store to give to OPA.
Begin ==
    /\ pc = "idle"
    /\ \/ /\ want = {}
          /\ pc' = "opa"
          /\ UNCHANGED <<req, reqName>>
       \/ /\ want # {}
          /\ pc' = "list"
          /\ req' = want
          /\ reqName' = name
    /\ seen' = 0
    /\ id' = 0
    /\ UNCHANGED <<spec, stores, network, opa, faults>>

\* reconcileOpenFGA returns early while OpenFGA or its Postgres has no ready
\* pod: the pass goes on to OPA with an empty store id.
NotReady ==
    /\ pc = "idle"
    /\ pc' = "opa"
    /\ id' = 0
    /\ Fault
    /\ UNCHANGED <<spec, stores, network, req, reqName, seen, opa>>

\* Mutant: only the first page is looked at.
LastPageAlways == TRUE

\* No continuation token: there are no stores behind this page.
LastPage == seen + PageSize >= Len(stores)

\* findAuthzStore, one page: the first live store of the name, the next page,
\* or the end of the list.
ListPage ==
    LET page == {i \in 1..Len(stores) : seen < i /\ i <= seen + PageSize}
    IN
    /\ pc = "list"
    /\ \/ /\ \E i \in page :
                /\ Live(reqName, i)
                /\ \A j \in page : Live(reqName, j) => i <= j
                /\ id' = i
          /\ pc' = "latest"
          /\ UNCHANGED seen
       \/ /\ \A i \in page : ~Live(reqName, i)
          /\ ~LastPage
          /\ seen' = seen + PageSize
          /\ UNCHANGED <<pc, id>>
       \/ /\ \A i \in page : ~Live(reqName, i)
          /\ LastPage
          /\ pc' = "create"
          /\ UNCHANGED <<seen, id>>
    /\ UNCHANGED <<spec, stores, network, req, reqName, opa, faults>>

\* Mutant: an answer without an id is taken for a success.
CreateStoreNoID ==
    /\ pc = "create"
    /\ stores' = Append(stores, NewStore(reqName))
    /\ pc' = "latest"
    /\ UNCHANGED <<spec, network, req, reqName, seen, id, opa, faults>>

\* Mutant: a new store is given to OPA before it has a model.
CreateStoreOnly ==
    /\ pc = "create"
    /\ stores' = Append(stores, NewStore(reqName))
    /\ id' = Len(stores) + 1
    /\ pc' = "opa"
    /\ UNCHANGED <<spec, network, req, reqName, seen, opa, faults>>

\* createAuthzStore: OpenFGA adds the store behind the others.
CreateStore ==
    /\ pc = "create"
    /\ stores' = Append(stores, NewStore(reqName))
    /\ id' = Len(stores) + 1
    /\ pc' = "latest"
    /\ UNCHANGED <<spec, network, req, reqName, seen, opa, faults>>

\* Mutant: any model will do.
ModelMatchesAny(i, p) == stores[i].models # <<>>

\* Mutant: a model is written on every pass.
ModelMatchesNever(i, p) == FALSE

\* authzModelMatches with the latest model; a deleted store has none.
ModelMatches(i, p) ==
    /\ ~stores[i].deleted
    /\ stores[i].models # <<>>
    /\ stores[i].models[Len(stores[i].models)] = Shape(p)

\* latestAuthzModel: nothing to write if the model fits.
CheckModel ==
    /\ pc = "latest"
    /\ \/ /\ ModelMatches(id, req)
          /\ pc' = "opa"
       \/ /\ ~ModelMatches(id, req)
          /\ pc' = "write"
    /\ UNCHANGED <<spec, stores, network, req, reqName, seen, id, opa, faults>>

\* A model written to a store that was deleted meanwhile is an error, which
\* ends the pass before OPA.
WriteModel ==
    /\ pc = "write"
    /\ \/ /\ ~stores[id].deleted
          /\ stores' = AddModel(id, req)
          /\ pc' = "opa"
          /\ UNCHANGED <<req, reqName, seen, id>>
       \/ /\ stores[id].deleted
          /\ Idle
          /\ UNCHANGED stores
    /\ UNCHANGED <<spec, network, opa, faults>>

\* reconcileOPA: opaAccessEnv puts the id into the pod template, which rolls
\* the pods.
ApplyOPA ==
    /\ pc = "opa"
    /\ given' = id
    /\ last' = IF id = 0 THEN last ELSE [last EXCEPT ![stores[id].name] = id]
    /\ Idle
    /\ UNCHANGED <<spec, stores, network, faults>>

\* A call fails without effect, or the operator stops: the next pass retries.
Fail ==
    /\ pc # "idle"
    /\ Idle
    /\ Fault
    /\ UNCHANGED <<spec, stores, network, opa>>

\* What a call does to OpenFGA, whoever is left to hear of it.
Effect(c) ==
    \/ /\ c.op = "create"
       /\ stores' = Append(stores, NewStore(c.name))
    \/ /\ c.op = "write"
       /\ ~stores[c.store].deleted
       /\ stores' = AddModel(c.store, c.policies)
    \/ /\ c.op = "write"
       /\ stores[c.store].deleted
       /\ UNCHANGED stores

Pending == IF pc = "create" THEN CreateCall(reqName) ELSE WriteCall(id, req)

\* The call takes effect and its answer is lost.
LoseAnswer ==
    /\ pc \in {"create", "write"}
    /\ Effect(Pending)
    /\ Idle
    /\ Fault
    /\ UNCHANGED <<spec, network, opa>>

\* The operator gives up on a call that has not taken effect yet.
GiveUp ==
    /\ pc \in {"create", "write"}
    /\ delayed < MaxLate
    /\ delayed' = delayed + 1
    /\ late' = late \cup {Pending}
    /\ Idle
    /\ UNCHANGED <<spec, stores, opa, faults>>

-----------------------------------------------------------------------------
(***************************************************************************)
(* The environment.                                                        *)
(***************************************************************************)

\* A call that was given up takes effect, or never will.
Arrive ==
    /\ \E c \in late :
          /\ late' = late \ {c}
          /\ Effect(c) \/ UNCHANGED stores
    /\ UNCHANGED <<spec, delayed, operator, faults>>

\* The user changes the policies or the name of the store.
EditSpec ==
    /\ edits < MaxEdits
    /\ edits' = edits + 1
    /\ \/ /\ want' \in (Policies \cup {{}}) \ {want}
          /\ UNCHANGED name
       \/ /\ name' \in Names \ {name}
          /\ UNCHANGED want
    /\ UNCHANGED <<stores, network, operator, faults>>

\* An administrator deletes a store of the operator's.
DeleteStore ==
    /\ \E i \in 1..Len(stores) :
          /\ stores[i].name \in Names /\ ~stores[i].deleted
          /\ stores' = [stores EXCEPT ![i].deleted = TRUE]
    /\ Fault
    /\ UNCHANGED <<spec, network, operator>>

-----------------------------------------------------------------------------
\* LakeKeeper's own store is there first.
Init ==
    /\ want \in Policies \cup {{}}
    /\ name \in Names
    /\ edits = 0
    /\ stores = <<OtherStore>>
    /\ late = {}
    /\ delayed = 0
    /\ pc = "idle"
    /\ req = {}
    /\ reqName = None
    /\ seen = 0
    /\ id = 0
    /\ given = 0
    /\ faults = 0
    /\ last = [n \in Names |-> 0]

Work ==
    \/ Begin \/ ListPage \/ CreateStore \/ CheckModel \/ WriteModel
    \/ ApplyOPA

Next ==
    \/ Work
    \/ NotReady \/ Fail \/ LoseAnswer \/ GiveUp
    \/ Arrive \/ EditSpec \/ DeleteStore

\* Every pass runs reconcileAccessStore, and passes keep coming: a Ready
\* platform with embedded auth is requeued (requeueAccessSync).
Spec == Init /\ [][Next]_vars /\ WF_vars(Work) /\ WF_vars(Arrive)

-----------------------------------------------------------------------------
(***************************************************************************)
(* Properties.                                                             *)
(***************************************************************************)

StoreType == [name : Names \cup {"lakekeeper"}, deleted : BOOLEAN,
              models : Seq({Shape(p) : p \in Policies})]

\* The calls that change something in OpenFGA.
Requests == {CreateCall(n) : n \in Names} \cup
    {WriteCall(i, p) : i \in 1..Len(stores), p \in Policies}

\* The shape of the state; store ids the operator holds exist.
TypeOK ==
    /\ want \in Policies \cup {{}}
    /\ name \in Names
    /\ edits \in 0..MaxEdits
    /\ stores \in Seq(StoreType)
    /\ late \subseteq Requests
    /\ delayed \in 0..MaxLate
    /\ pc \in Calls \cup {"opa", "idle"}
    /\ req \in Policies \cup {{}}
    /\ reqName \in Names \cup {None}
    /\ pc \in Calls => req \in Policies /\ reqName \in Names
    /\ seen \in Nat
    /\ id \in 0..Len(stores)
    /\ pc \in {"latest", "write"} => id # 0
    /\ given \in 0..Len(stores)
    /\ faults \in 0..MaxFaults
    /\ last \in [Names -> 0..Len(stores)]

\* findAuthzStore and createAuthzStore make at most one live store of a name,
\* however often calls fail, answers are lost, the operator stops, the user
\* renames the store or an administrator deletes it, until a call is given up
\* that can still take effect.
OneStore ==
    delayed = 0 =>
        \A n \in Names : \A i, j \in 1..Len(stores) :
            Live(n, i) /\ Live(n, j) => i = j

\* The store given to OPA is the operator's own, and has a model: OPA is
\* never pointed at LakeKeeper's store or at one that a crash or a lost answer
\* left empty.
GivenUsable ==
    given # 0 => /\ stores[given].name \in Names
                 /\ stores[given].models # <<>>

\* Store i is the one OPA was given last under its name, or that one is gone.
Kept(i) ==
    LET old == last[stores[i].name]
    IN  old \in {0, i} \/ stores[old].deleted

\* Under one name OPA is given another store only if the one it was given last
\* was deleted: after an outage of OpenFGA, without policies for a time, or
\* when a rename is taken back, it finds the tuples again that were written
\* before.  Promised until a call is given up that can still take effect.
\* A rename itself does leave the old store, and its tuples, behind.
StoreKept ==
    [][delayed' = 0 /\ given' # given /\ given' # 0 => Kept(given')]_vars

\* "an unchanged model is left alone rather than rewritten on every
\* reconcile" (authzstore.go): no store has the same model twice in a row,
\* until a call is given up that can still take effect.
NoChurn ==
    delayed = 0 =>
        \A i \in 1..Len(stores) :
            \A k \in 1..(Len(stores[i].models) - 1) :
                stores[i].models[k] # stores[i].models[k + 1]

\* The store a pass would find, with the latest model that policies p need.
Serves(i, n, p) ==
    /\ i # 0
    /\ Live(n, i)
    /\ \A j \in 1..Len(stores) : Live(n, j) => i <= j
    /\ \E k \in 1..Len(stores[i].models) :
          k = Len(stores[i].models) /\ stores[i].models[k] = Shape(p)

\* Once edits and faults stop, OPA uses the first live store of the name in
\* the spec, and that store's latest model is the one the spec asks for, also
\* after calls that took effect late created a second store or put back an old
\* model, and after passes that gave OPA no store.
Settles ==
    <>[](IF want = {} THEN given = 0 ELSE Serves(given, name, want))

=============================================================================
