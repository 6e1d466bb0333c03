---------------------------- MODULE CatalogSync ----------------------------
(***************************************************************************)
(* reconcileWarehouse: bootstrapping LakeKeeper, granting the operator's   *)
(* principals, creating the warehouse, and carrying the members of         *)
(* Keycloak's groups over to LakeKeeper roles and OpenFGA tuples.          *)
(*                                                                         *)
(* A pass is a list of HTTP calls, each of which can fail, or take effect  *)
(* and lose its answer.  Nothing is remembered between passes: what was    *)
(* done is told by the answers (isAlreadyDone) and by what is listed.      *)
(* The upsert of a user (catalogUserJSON), which nothing reads back, is    *)
(* part of the grant it precedes.                                          *)
(* Meanwhile users join and leave groups, and LakeKeeper, Keycloak and     *)
(* OpenFGA can lose or change what the operator wrote.                     *)
(***************************************************************************)
EXTENDS Naturals, Sequences, FiniteSets

CONSTANTS
    Warehouses,     \* warehouse names a user may ask for
    None,           \* no warehouse
    Principals,     \* catalogPrincipals: <<subject, {relations}>>, in order
    AccessGroups,   \* defaultAccessGroups: <<name, {relations}>>, in order
    OnWarehouse,    \* the relations that are granted on one warehouse
    Users,          \* Keycloak's users as numbers in the order it lists them
    ServiceAccounts,\* the users that stand for clients
    Imported,       \* the members that the realm import brings
    PageSize,       \* roles on the page that findRoleID reads
    MemberLimit,    \* members that keycloakGroupMembers reads
    MaxEdits,       \* bound: edits of the warehouse name
    MaxMoves,       \* bound: joins and leaves
    MaxFaults,      \* bound: failed calls, lost answers, crashes
    MaxLosses,      \* bound: things lost outside the operator
    MaxRoles,       \* bound: roles made by others
    Foreign         \* another user may bootstrap LakeKeeper

GroupNames == {AccessGroups[i][1] : i \in 1..Len(AccessGroups)}

ASSUME CatalogConstants ==
    /\ Warehouses # {} /\ None \notin Warehouses
    /\ Principals \in Seq(STRING \X SUBSET STRING)
    /\ AccessGroups \in Seq(STRING \X SUBSET STRING)
    /\ \A i, j \in 1..Len(AccessGroups) :
          AccessGroups[i][1] = AccessGroups[j][1] => i = j
    /\ OnWarehouse \subseteq STRING
    /\ Users \subseteq Nat /\ ServiceAccounts \subseteq Users
    /\ Imported \in [GroupNames -> SUBSET (Users \ ServiceAccounts)]
    /\ PageSize \in Nat /\ MemberLimit \in Nat
    /\ MaxEdits \in Nat /\ MaxMoves \in Nat /\ MaxFaults \in Nat
    /\ MaxLosses \in Nat /\ MaxRoles \in Nat /\ Foreign \in BOOLEAN

VARIABLES
    want,       \* lakekeeper.warehouse.name of the current spec
    edits,      \* edits made, at most MaxEdits
    members,    \* Keycloak: the members of each group
    been,       \* all that have ever been members, for the properties
    moves,      \* joins and leaves, at most MaxMoves
    owner,      \* LakeKeeper: who bootstrapped it
    grants,     \* LakeKeeper: <<principal, relation>>
    warehouses, \* LakeKeeper: names of the warehouses
    roles,      \* LakeKeeper: the roles in the order they are listed
    made,       \* LakeKeeper: roles made so far, the last id
    roleGrants, \* LakeKeeper: <<role id, right>>
    assigned,   \* LakeKeeper: <<role id, user>>
    store,      \* the OpenFGA store in use
    tuples,     \* OpenFGA: <<user, group>> in that store
    todo,       \* what is left of the current pass
    req,        \* the warehouse this pass is about
    fga,        \* the store this pass was given
    read,       \* the members this pass has read
    roleID,     \* the role found or created last
    ready,      \* the warehouse that WarehouseReady vouches for, or None
    vouched,    \* the members read by the pass that said so
    faults,     \* faults spent, at most MaxFaults
    losses      \* losses spent, at most MaxLosses

vars == <<want, edits, members, been, moves, owner, grants, warehouses, roles,
          made, roleGrants, assigned, store, tuples, todo, req, fga, read,
          roleID, ready, vouched, faults, losses>>
spec == <<want, edits>>
keycloak == <<members, been, moves>>
access == <<roles, made, roleGrants, assigned>>
lakekeeper == <<owner, grants, warehouses, access>>
openfga == <<store, tuples>>
pass == <<req, fga, read, roleID>>
status == <<ready, vouched>>
budget == <<faults, losses>>

Fault == faults < MaxFaults /\ faults' = faults + 1 /\ UNCHANGED losses
Loss == losses < MaxLosses /\ losses' = losses + 1 /\ UNCHANGED faults

\* What grantRoleAccess grants for a relation: on the warehouse of that name
\* (none is ever deleted, so the name stands for its id), or for all of them.
Right(x, w) == <<x, IF x \in OnWarehouse THEN w ELSE None>>

RoleIDs == {roles[i].id : i \in 1..Len(roles)}
RolesNamed(g) == {r \in {roles[i] : i \in 1..Len(roles)} : r.name = g}
AddRoleAt(i, g) ==
    /\ roles' = SubSeq(roles, 1, i - 1) \o <<[name |-> g, id |-> made + 1]>>
                    \o SubSeq(roles, i, Len(roles))
    /\ made' = made + 1
RemoveRoleAt(i) ==
    /\ roles' = SubSeq(roles, 1, i - 1) \o SubSeq(roles, i + 1, Len(roles))
    /\ roleGrants' = {q \in roleGrants : q[1] # roles[i].id}
    /\ assigned' = {q \in assigned : q[1] # roles[i].id}

-----------------------------------------------------------------------------
(***************************************************************************)
(* The calls of a pass, each with what it still has to be made for.        *)
(***************************************************************************)

Step(op, g, left) == [op |-> op, of |-> g, left |-> left]

\* Who needs grants, and which: none of a foreign issuer's users.
PrincipalSteps ==
    [i \in 1..Len(Principals) |->
        Step("principal", Principals[i][1], Principals[i][2])]

\* reconcileWarehouse up to the point where the members are known.
Opening ==
    <<Step("bootstrap", "none", {})>> \o PrincipalSteps
    \o <<Step("warehouse", "none", {})>>
    \o [i \in 1..Len(AccessGroups) |->
            Step("members", AccessGroups[i][1], {})]
    \o <<Step("plan", "none", {})>>

\* EnsureAccessRoles: the roles in turn, each with its relations.
RoleSteps ==
    [i \in 1..Len(AccessGroups) |->
        Step("role", AccessGroups[i][1], AccessGroups[i][2])]

\* EnsureAuthzTuples, if there is a store.
TupleSteps ==
    IF fga = 0 THEN <<>>
    ELSE [i \in 1..Len(AccessGroups) |->
            Step("tuple", AccessGroups[i][1], read[AccessGroups[i][1]])]

At(op) == todo # <<>> /\ Head(todo).op = op
Of == Head(todo).of

\* A step is followed by others before the rest, or by the rest.
Then(steps) == todo' = steps \o Tail(todo)

\* A loop over relations or members has done x.
Done(x) == Then(<<Step(Head(todo).op, Of, Head(todo).left \ {x})>>)
Loops == {"principal", "grant", "assign", "tuple"}

\* LakeKeeper obeys the operator if the operator bootstrapped it.
Allowed == owner = "operator"

-----------------------------------------------------------------------------
(***************************************************************************)
(* What the calls do, whoever hears of it.                                 *)
(***************************************************************************)

BootstrapEffect ==
    /\ owner' = IF owner = "nobody" THEN "operator" ELSE owner
    /\ UNCHANGED <<grants, warehouses, access, openfga>>

GrantEffect(x) ==
    /\ Allowed
    /\ grants' = grants \cup {<<Of, x>>}
    /\ UNCHANGED <<owner, warehouses, access, openfga>>

WarehouseEffect ==
    /\ Allowed
    /\ warehouses' = warehouses \cup {req}
    /\ UNCHANGED <<owner, grants, access, openfga>>

\* A role is listed wherever the server puts it; a second one of the same
\* name is refused.
CreateRoleEffect ==
    /\ Allowed
    /\ RolesNamed(Of) = {}
    /\ \E i \in 1..(Len(roles) + 1) : AddRoleAt(i, Of)
    /\ UNCHANGED <<owner, grants, warehouses, roleGrants, assigned, openfga>>

RoleGrantEffect(x) ==
    /\ Allowed /\ roleID \in RoleIDs
    /\ roleGrants' = roleGrants \cup {<<roleID, Right(x, req)>>}
    /\ UNCHANGED <<owner, grants, warehouses, roles, made, assigned, openfga>>

AssignEffect(x) ==
    /\ Allowed /\ roleID \in RoleIDs
    /\ assigned' = assigned \cup {<<roleID, x>>}
    /\ UNCHANGED <<owner, grants, warehouses, roles, made, roleGrants,
                   openfga>>

\* A tuple for a store that has been replaced is refused.
TupleEffect(x) ==
    /\ fga = store
    /\ tuples' = tuples \cup {<<x, Of>>}
    /\ UNCHANGED <<lakekeeper, store>>

-----------------------------------------------------------------------------
(***************************************************************************)
(* The operator.                                                           *)
(***************************************************************************)

Outside == UNCHANGED <<spec, keycloak, budget>>

\* A pass begins with the spec and the store that the pass has found.
Begin ==
    /\ todo = <<>>
    /\ todo' = Opening
    /\ req' = want
    /\ fga' = store
    /\ read' = [g \in GroupNames |-> {}]
    /\ roleID' = 0
    /\ UNCHANGED <<lakekeeper, openfga, status>>
    /\ Outside

\* Bootstrap: being told that it is done already is a success.
Bootstrap ==
    /\ At("bootstrap")
    /\ BootstrapEffect
    /\ todo' = Tail(todo)
    /\ UNCHANGED <<pass, status>>
    /\ Outside

\* Mutant: a principal's first grant is taken for all of them.
EnsureGrantsFirst ==
    /\ At("principal")
    /\ \E x \in Head(todo).left : GrantEffect(x)
    /\ todo' = Tail(todo)
    /\ UNCHANGED <<pass, status>>
    /\ Outside

\* EnsureGrants, one relation of one principal.
EnsureGrants ==
    /\ At("principal")
    /\ \E x \in Head(todo).left : GrantEffect(x) /\ Done(x)
    /\ UNCHANGED <<pass, status>>
    /\ Outside

\* EnsureWarehouse: listed, or created.
EnsureWarehouse ==
    /\ At("warehouse")
    /\ \/ /\ Allowed /\ req \in warehouses
          /\ UNCHANGED <<lakekeeper, openfga>>
       \/ /\ req \notin warehouses
          /\ WarehouseEffect
    /\ todo' = Tail(todo)
    /\ UNCHANGED <<pass, status>>
    /\ Outside

\* LakeKeeper refuses the warehouse as there already although it does not list
\* it (for another one's storage, say), and isAlreadyDone takes that for done.
WarehouseConflict ==
    /\ At("warehouse")
    /\ Allowed /\ req \notin warehouses
    /\ todo' = Tail(todo)
    /\ Fault
    /\ UNCHANGED <<spec, keycloak, lakekeeper, openfga, pass, status>>

\* Mutant: service accounts are members like others.
PrincipalsOfAll(us) == {u \in us : Cardinality({v \in us : v <= u}) <= MemberLimit}

\* Mutant: the limit is taken for one less.
PrincipalsOfShort(us) ==
    {u \in us : Cardinality({v \in us : v <= u}) < MemberLimit}
        \ ServiceAccounts

\* keycloakGroupMembers: the first page, without service accounts.
PrincipalsOf(us) ==
    {u \in us : Cardinality({v \in us : v <= u}) <= MemberLimit}
        \ ServiceAccounts

ReadMembers ==
    /\ At("members")
    /\ read' = [read EXCEPT ![Of] = PrincipalsOf(members[Of])]
    /\ todo' = Tail(todo)
    /\ UNCHANGED <<lakekeeper, openfga, req, fga, roleID, status>>
    /\ Outside

\* reconcileAccessGroups has its members; warehouseID finds the warehouse.
PlanAccess ==
    /\ At("plan")
    /\ Allowed /\ req \in warehouses
    /\ Then(RoleSteps \o TupleSteps \o <<Step("done", "none", {})>>)
    /\ UNCHANGED <<lakekeeper, openfga, pass, status>>
    /\ Outside

\* A loop ends, or had nothing to do.
EndLoop ==
    /\ todo # <<>> /\ Head(todo).op \in Loops /\ Head(todo).left = {}
    /\ todo' = Tail(todo)
    /\ UNCHANGED <<lakekeeper, openfga, pass, status>>
    /\ Outside

\* Mutant: the first role listed is taken.
ListedAny(r, g) == TRUE

Listed(r, g) == r.name = g

\* findRoleID: the first role of the name on the first page.
FoundOnPage(g, i) ==
    /\ i <= PageSize
    /\ Listed(roles[i], g)
    /\ \A j \in 1..(i - 1) : ~Listed(roles[j], g)

\* The role is known: it gets its grants, then its members.
UseRole(id) ==
    /\ roleID' = id
    /\ Then(<<Step("grant", Of, Head(todo).left), Step("assign", Of, read[Of])>>)

FindRole ==
    /\ At("role")
    /\ Allowed
    /\ \/ \E i \in 1..Len(roles) :
             FoundOnPage(Of, i) /\ UseRole(roles[i].id)
       \/ /\ \A i \in 1..Len(roles) : ~FoundOnPage(Of, i)
          /\ Then(<<Step("create", Of, Head(todo).left)>>)
          /\ UNCHANGED roleID
    /\ UNCHANGED <<lakekeeper, openfga, req, fga, read, status>>
    /\ Outside

\* Mutant: the id is guessed instead of read from the answer.
CreateRoleGuessed ==
    /\ At("create")
    /\ CreateRoleEffect
    /\ UseRole(made + 2)
    /\ UNCHANGED <<req, fga, read, status>>
    /\ Outside

\* A role that exists although it was not listed is looked for once more; if
\* it is on a later page, that fails the pass.
CreateRole ==
    /\ At("create")
    /\ \/ /\ CreateRoleEffect
          /\ UseRole(made')
          /\ UNCHANGED status
       \/ /\ Allowed /\ RolesNamed(Of) # {}
          /\ UNCHANGED <<lakekeeper, openfga>>
          /\ \/ \E i \in 1..Len(roles) :
                   /\ FoundOnPage(Of, i) /\ UseRole(roles[i].id)
                   /\ UNCHANGED status
             \/ /\ \A i \in 1..Len(roles) : ~FoundOnPage(Of, i)
                /\ todo' = <<>>
                /\ ready' = None
                /\ UNCHANGED <<vouched, roleID>>
    /\ UNCHANGED <<req, fga, read>>
    /\ Outside

\* Mutant: a relation the role has on some warehouse is not granted again.
GrantRoleAccessOnce ==
    /\ At("grant")
    /\ \E x \in Head(todo).left :
          /\ Done(x)
          /\ \/ /\ \A q \in roleGrants : q[1] = roleID => q[2][1] # x
                /\ RoleGrantEffect(x)
             \/ /\ \E q \in roleGrants : q[1] = roleID /\ q[2][1] = x
                /\ UNCHANGED <<lakekeeper, openfga>>
    /\ UNCHANGED <<pass, status>>
    /\ Outside

GrantRoleAccess ==
    /\ At("grant")
    /\ \E x \in Head(todo).left : RoleGrantEffect(x) /\ Done(x)
    /\ UNCHANGED <<pass, status>>
    /\ Outside

AssignMember ==
    /\ At("assign")
    /\ \E x \in Head(todo).left : AssignEffect(x) /\ Done(x)
    /\ UNCHANGED <<pass, status>>
    /\ Outside

WriteTuple ==
    /\ At("tuple")
    /\ \E x \in Head(todo).left : TupleEffect(x) /\ Done(x)
    /\ UNCHANGED <<pass, status>>
    /\ Outside

\* WarehouseReady is True.
Finish ==
    /\ At("done")
    /\ todo' = <<>>
    /\ ready' = req
    /\ vouched' = read
    /\ UNCHANGED <<lakekeeper, openfga, pass>>
    /\ Outside

\* LakeKeeper or OpenFGA refuses: somebody else bootstrapped LakeKeeper, the
\* warehouse is not listed, or the role or the store has gone since it was
\* found.
Refused ==
    /\ todo # <<>>
    /\ Head(todo).op \in Loops => Head(todo).left # {}
    /\ \/ /\ ~Allowed
          /\ Head(todo).op \notin {"bootstrap", "members", "tuple", "done"}
       \/ At("plan") /\ req \notin warehouses
       \/ (At("grant") \/ At("assign")) /\ roleID \notin RoleIDs
       \/ At("tuple") /\ fga # store
    /\ todo' = <<>>
    /\ ready' = None
    /\ UNCHANGED <<lakekeeper, openfga, pass, vouched>>
    /\ Outside

\* A call fails (a token, a list, a write), or the operator stops, which
\* leaves the condition as it is.
Fail ==
    /\ todo # <<>>
    /\ todo' = <<>>
    /\ ready' \in {ready, None}
    /\ Fault
    /\ UNCHANGED <<spec, keycloak, lakekeeper, openfga, pass, vouched>>

\* A call takes effect and its answer is lost.
LoseAnswer ==
    /\ \/ At("bootstrap") /\ BootstrapEffect
       \/ At("principal") /\ \E x \in Head(todo).left : GrantEffect(x)
       \/ At("warehouse") /\ WarehouseEffect
       \/ At("create") /\ CreateRoleEffect
       \/ At("grant") /\ \E x \in Head(todo).left : RoleGrantEffect(x)
       \/ At("assign") /\ \E x \in Head(todo).left : AssignEffect(x)
       \/ At("tuple") /\ \E x \in Head(todo).left : TupleEffect(x)
    /\ todo' = <<>>
    /\ ready' \in {ready, None}
    /\ Fault
    /\ UNCHANGED <<spec, keycloak, pass, vouched>>

-----------------------------------------------------------------------------
(***************************************************************************)
(* The environment.                                                        *)
(***************************************************************************)

Operator == <<todo, pass, status>>

EditWarehouse ==
    /\ edits < MaxEdits
    /\ edits' = edits + 1
    /\ want' \in Warehouses \ {want}
    /\ UNCHANGED <<keycloak, lakekeeper, openfga, Operator, budget>>

\* Keycloak's administrator changes a group.
Move(g, us) ==
    /\ moves < MaxMoves
    /\ moves' = moves + 1
    /\ members' = [members EXCEPT ![g] = us]
    /\ been' = [been EXCEPT ![g] = @ \cup us]
    /\ UNCHANGED <<spec, lakekeeper, openfga, Operator, budget>>

Join == \E g \in GroupNames, u \in Users :
            u \notin members[g] /\ Move(g, members[g] \cup {u})
Leave == \E g \in GroupNames : \E u \in members[g] : Move(g, members[g] \ {u})

\* Keycloak's pod is recreated: its database is an emptyDir, and only what
\* the realm import brings is left.
RecreateKeycloak ==
    /\ members # Imported
    /\ members' = Imported
    /\ Loss
    /\ UNCHANGED <<spec, been, moves, lakekeeper, openfga, Operator>>

\* An administrator deletes a role in LakeKeeper.
DeleteRole ==
    /\ \E i \in 1..Len(roles) :
          roles[i].name \in GroupNames /\ RemoveRoleAt(i)
    /\ Loss
    /\ UNCHANGED <<spec, keycloak, owner, grants, warehouses, made, openfga,
                   Operator>>

\* The OpenFGA store is deleted and reconcileAccessStore makes another.
ReplaceStore ==
    /\ store # 0
    /\ store' = store + 1
    /\ tuples' = {}
    /\ Loss
    /\ UNCHANGED <<spec, keycloak, lakekeeper, Operator>>

\* Somebody makes a role of another name.
OtherRole ==
    /\ Cardinality(RolesNamed("other")) < MaxRoles
    /\ \E i \in 1..(Len(roles) + 1) : AddRoleAt(i, "other")
    /\ UNCHANGED <<spec, keycloak, owner, grants, warehouses, roleGrants,
                   assigned, openfga, Operator, budget>>

\* A user opens LakeKeeper's UI first and bootstraps it.
BootstrapByUser ==
    /\ Foreign
    /\ owner = "nobody"
    /\ owner' = "user"
    /\ UNCHANGED <<spec, keycloak, grants, warehouses, access, openfga,
                   Operator, budget>>

-----------------------------------------------------------------------------
\* A fresh LakeKeeper and Keycloak, with or without a row-filter store.
Init ==
    /\ want \in Warehouses
    /\ edits = 0
    /\ members = Imported
    /\ been = Imported
    /\ moves = 0
    /\ owner = "nobody"
    /\ grants = {}
    /\ warehouses = {}
    /\ roles = <<>>
    /\ made = 0
    /\ roleGrants = {}
    /\ assigned = {}
    /\ store \in {0, 1}
    /\ tuples = {}
    /\ todo = <<>>
    /\ req = None
    /\ fga = 0
    /\ read = [g \in GroupNames |-> {}]
    /\ roleID = 0
    /\ ready = None
    /\ vouched = read
    /\ faults = 0
    /\ losses = 0

Work ==
    \/ Begin \/ Bootstrap \/ EnsureGrants \/ EnsureWarehouse
    \/ ReadMembers \/ PlanAccess \/ EndLoop
    \/ FindRole \/ CreateRole \/ GrantRoleAccess \/ AssignMember
    \/ WriteTuple \/ Finish \/ Refused

Next ==
    \/ Work
    \/ WarehouseConflict \/ Fail \/ LoseAnswer
    \/ EditWarehouse \/ Join \/ Leave
    \/ RecreateKeycloak \/ DeleteRole \/ ReplaceStore
    \/ OtherRole \/ BootstrapByUser

\* A pass is requeued while the platform is not ready, and every
\* requeueAccessSync when it is.
Spec == Init /\ [][Next]_vars /\ WF_vars(Work)

-----------------------------------------------------------------------------
(***************************************************************************)
(* Properties.                                                             *)
(***************************************************************************)

Ops == {"bootstrap", "principal", "warehouse", "members", "plan", "role",
        "create", "grant", "assign", "tuple", "done"}
Relations == (UNION {Principals[i][2] : i \in 1..Len(Principals)})
                \cup (UNION {AccessGroups[i][2] : i \in 1..Len(AccessGroups)})

Rights == Relations \X (Warehouses \cup {None})

\* The shape of the state; ids refer to roles that were made.
TypeOK ==
    /\ want \in Warehouses
    /\ edits \in 0..MaxEdits
    /\ members \in [GroupNames -> SUBSET Users]
    /\ been \in [GroupNames -> SUBSET Users]
    /\ moves \in 0..MaxMoves
    /\ owner \in {"nobody", "operator", "user"}
    /\ grants \subseteq {Principals[i][1] : i \in 1..Len(Principals)}
                            \X Relations
    /\ warehouses \subseteq Warehouses
    /\ made \in Nat
    /\ roles \in Seq([name : GroupNames \cup {"other"}, id : 1..made])
    /\ roleGrants \subseteq RoleIDs \X Rights
    /\ assigned \subseteq RoleIDs \X Users
    /\ store \in Nat
    /\ tuples \subseteq Users \X GroupNames
    /\ \A i \in 1..Len(todo) : todo[i].op \in Ops
    /\ req \in Warehouses \cup {None}
    /\ fga \in Nat
    /\ read \in [GroupNames -> SUBSET Users]
    /\ roleID \in 0..made
    /\ ready \in Warehouses \cup {None}
    /\ vouched \in [GroupNames -> SUBSET Users]
    /\ faults \in 0..MaxFaults
    /\ losses \in 0..MaxLosses

Assignees(g) == {u \in Users : \E r \in RolesNamed(g) : <<r.id, u>> \in assigned}
Granted(g) == {u \in Users : <<u, g>> \in tuples}
Humans(us) == us \ ServiceAccounts

\* Nobody gets the role or the tuple of a group without having been a member,
\* and no service account gets one, whatever was read, found, deleted and
\* recreated in between.
OnlyMembersGranted ==
    \A g \in GroupNames : Assignees(g) \cup Granted(g) \subseteq Humans(been[g])

\* No role carries a relation that defaultAccessGroups does not give to its
\* name: roles found, made twice or listed beside others are never mixed up.
RolesNotMixed ==
    \A i \in 1..Len(AccessGroups) : \A r \in {roles[k] : k \in 1..Len(roles)} :
        r.name = AccessGroups[i][1] =>
            {q[2][1] : q \in {p \in roleGrants : p[1] = r.id}}
                \subseteq AccessGroups[i][2]

\* WarehouseReady=True stands for the whole chain: LakeKeeper is the
\* operator's, the principals have their grants, the warehouse and the roles
\* exist, the roles have their rights on that very warehouse, and all members
\* the pass has read have their role, and their tuple if there is a store;
\* until something is lost outside the operator.
ReadyComplete ==
    losses = 0 /\ ready # None =>
        /\ owner = "operator"
        /\ ready \in warehouses
        /\ \A i \in 1..Len(Principals) :
              {Principals[i][1]} \X Principals[i][2] \subseteq grants
        /\ \A i \in 1..Len(AccessGroups) :
              \E r \in RolesNamed(AccessGroups[i][1]) :
                 /\ \A x \in AccessGroups[i][2] :
                       <<r.id, Right(x, ready)>> \in roleGrants
                 /\ {r.id} \X vouched[AccessGroups[i][1]] \subseteq assigned
        /\ store # 0 => \A g \in GroupNames : vouched[g] \subseteq Granted(g)

Synced(g) ==
    /\ Humans(members[g]) \subseteq Assignees(g)
    /\ store # 0 => Humans(members[g]) \subseteq Granted(g)

\* The group has a role that findRoleID does not see.
Hidden(g) == /\ RolesNamed(g) # {}
             /\ \A i \in 1..Len(roles) : ~FoundOnPage(g, i)

\* "Add a user to a group to grant the matching LakeKeeper role"
\* (dataplatform_types.go): once Keycloak's groups rest, the wanted warehouse
\* is vouched for and every member of a group that can be read whole has its
\* role and tuple, after renamed warehouses, deleted roles and replaced stores
\* as well.  The operator does not claim anything of a role it cannot find or
\* of somebody else's LakeKeeper.  Members are only ever added: nothing is
\* said of those who have left, whose role and tuple stay.
Converges ==
    <>[](IF owner = "user" \/ \E g \in GroupNames : Hidden(g)
         THEN ready = None
         ELSE /\ ready = want
              /\ \A g \in GroupNames :
                    Cardinality(members[g]) <= MemberLimit => Synced(g))

=============================================================================
