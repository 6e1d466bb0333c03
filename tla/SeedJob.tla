------------------------------ MODULE SeedJob ------------------------------
(***************************************************************************)
(* The one-shot Jobs: ensureSampleDataJob (sampledata.go), which seeds two *)
(* demo tables through Trino, and ensureMinioBucket (minio.go), which      *)
(* makes a bucket.  kind says which of the two is meant.                   *)
(*                                                                         *)
(* The operator reads the Job from an informer's cache that lags behind    *)
(* the API server and deletes by name.  Kubernetes runs the Job's pod,     *)
(* which may outlive a deleted Job.                                        *)
(***************************************************************************)
EXTENDS Naturals, Sequences

CONSTANTS
    Kinds,      \* the Jobs to look at: "seed", "bucket"
    Targets,    \* schema names, or bucket names
    None,       \* no target
    MaxEdits,   \* bound: edits of the schema or bucket
    MaxFaults,  \* bound: failed containers and Jobs, failed calls, Jobs that
                \* an administrator deletes
    MaxLag      \* bound: changes of the Job that the cache has not seen

ASSUME KindsAssumption == Kinds # {} /\ Kinds \subseteq {"seed", "bucket"}
ASSUME TargetsAssumption == Targets # {} /\ None \notin Targets
ASSUME JobBounds ==
    MaxEdits \in Nat /\ MaxFaults \in Nat /\ MaxLag \in Nat \ {0}

VARIABLES
    kind,       \* which Job this is about
    want,       \* sampleData.schema or minio.bucket of the current spec
    edits,      \* edits made, at most MaxEdits
    cm,         \* the ConfigMap with the SQL: the schema it was made for
    job,        \* the Job on the API server
    cached,     \* the Job as the informer's cache has it
    events,     \* changes of the Job that the cache has not seen, in order
    made,       \* Jobs created so far
    pods,       \* running pods, each with the statement it is at
    rows,       \* how often the rows of each table were inserted
    adrift,     \* INSERTs of each table that run on without their container
    left,       \* INSERTs of each table so far whose container ended
    pc,         \* where the handler is
    req,        \* the target of this pass
    ready,      \* the target that the condition vouches for, None if False
    faults,     \* faults spent, at most MaxFaults
    manual      \* whether a Job has been deleted by hand

vars == <<kind, want, edits, cm, job, cached, events, made, pods, rows,
          adrift, left, pc, req, ready, faults, manual>>
spec == <<kind, want, edits>>
cluster == <<job, cached, events, made>>
trino == <<rows, adrift, left>>
operator == <<pc, req, ready>>
budget == <<faults, manual>>

\* The statements of sampleDataSQL that write; one "mc mb" for a bucket.
Statements == IF kind = "seed" THEN 2 ELSE 1

States == {"running", "succeeded", "failed"}

\* A Job carries its target in the hash annotation or in its arguments; an
\* old Job is one without the writable home that mcJobWritableConfig tests.
JobType == [uid : Nat, target : Targets, old : BOOLEAN, state : States,
            deleting : BOOLEAN]
NoJob == [uid |-> 0, target |-> None, old |-> FALSE, state |-> "none",
          deleting |-> FALSE]

\* Mutant: the hash annotation is forgotten.
NewJobUnmarked(t) == [uid |-> made + 1, target |-> None, old |-> FALSE,
                      state |-> "running", deleting |-> FALSE]

NewJob(t) == [uid |-> made + 1, target |-> t, old |-> FALSE,
              state |-> "running", deleting |-> FALSE]
NewPod(j) == [job |-> j.uid, of |-> j.target, target |-> None,
              at |-> 0, inserting |-> FALSE]

\* The API server stores j; the cache will hear of it.
Store(j) ==
    /\ Len(events) < MaxLag
    /\ job' = j
    /\ events' = Append(events, j)

\* Nobody cancels a query: what the containers of these pods (one of them, for
\* each Job has one pod) are inserting goes on in Trino without them.
Abandon(ps) ==
    LET Gone(t, i) ==
          IF \E p \in ps : p.inserting /\ p.target = t /\ p.at = i
          THEN 1 ELSE 0
    IN  /\ adrift' = [t \in Targets |-> [i \in 1..Statements |->
                                          adrift[t][i] + Gone(t, i)]]
        /\ left' = [t \in Targets |-> [i \in 1..Statements |->
                                        left[t][i] + Gone(t, i)]]

Fault ==
    /\ faults < MaxFaults
    /\ faults' = faults + 1
    /\ UNCHANGED manual

-----------------------------------------------------------------------------
(***************************************************************************)
(* The operator.                                                           *)
(***************************************************************************)

\* reconcileSampleData applies the ConfigMap before it looks at the Job.  The
\* bucket Job takes its bucket from its own arguments.
Begin ==
    /\ pc = "idle"
    /\ req' = want
    /\ cm' = IF kind = "seed" THEN want ELSE cm
    /\ pc' = "examine"
    /\ UNCHANGED <<spec, cluster, pods, trino, ready, budget>>

\* Mutant: a Job that has not failed counts as done.
JobSucceededLax(j) == j.state # "failed"

JobSucceeded(j) == j.state = "succeeded"

\* Mutant: the backoff limit is forgotten.
JobFailedNever(j) == FALSE

JobFailed(j) == j.state = "failed"

\* Mutant: the hash is not compared.
OutdatedNever(j) == FALSE

\* The seed Job's hash is compared with the wanted one; of the bucket Job
\* only its shape is looked at, never its bucket.
Outdated(j) == IF kind = "seed" THEN j.target # req ELSE j.old

\* The handler reads the cached Job and decides; success comes before the
\* comparison.
Examine ==
    /\ pc = "examine"
    /\ \/ /\ cached = NoJob
          /\ pc' = "create"
          /\ UNCHANGED ready
       \/ /\ cached # NoJob /\ ~cached.deleting
          /\ JobSucceeded(cached)
          /\ ready' = req
          /\ pc' = "idle"
       \/ /\ cached # NoJob /\ ~cached.deleting /\ ~JobSucceeded(cached)
          /\ JobFailed(cached) \/ Outdated(cached)
          /\ pc' = "delete"
          /\ UNCHANGED ready
       \/ /\ cached # NoJob
          /\ cached.deleting \/ ~(JobSucceeded(cached) \/ JobFailed(cached)
                                  \/ Outdated(cached))
          /\ ready' = None
          /\ pc' = "idle"
    /\ UNCHANGED <<spec, cm, cluster, pods, trino, req, budget>>

\* Mutant: a Job that is gone already is recreated at once.
DeleteJobRecreating ==
    /\ pc = "delete"
    /\ \/ /\ job # NoJob /\ ~job.deleting
          /\ Store([job EXCEPT !.deleting = TRUE])
          /\ UNCHANGED <<made, pods>>
       \/ /\ job = NoJob
          /\ Store(NewJob(req))
          /\ made' = made + 1
          /\ pods' = pods \cup {NewPod(NewJob(req))}
       \/ /\ job.deleting
          /\ UNCHANGED <<job, events, made, pods>>
    /\ ready' = None
    /\ pc' = "idle"
    /\ UNCHANGED <<spec, cm, cached, trino, req, budget>>

\* Delete goes by name, whichever Job has it now; a missing Job is an error,
\* which ends the pass as well.
DeleteJob ==
    /\ pc = "delete"
    /\ \/ /\ job # NoJob /\ ~job.deleting
          /\ Store([job EXCEPT !.deleting = TRUE])
       \/ /\ job = NoJob \/ job.deleting
          /\ UNCHANGED <<job, events>>
    /\ ready' = None
    /\ pc' = "idle"
    /\ UNCHANGED <<spec, cm, cached, made, pods, trino, req, budget>>

\* apply: the cache is read again, then the Job is created.  An existing Job
\* is left as it is; if the cache does not show it, the create is an error.
CreateJob ==
    /\ pc = "create"
    /\ \/ /\ cached = NoJob /\ job = NoJob
          /\ Store(NewJob(req))
          /\ made' = made + 1
          /\ pods' = pods \cup {NewPod(NewJob(req))}
       \/ /\ cached # NoJob \/ job # NoJob
          /\ UNCHANGED <<job, events, made, pods>>
    /\ ready' = None
    /\ pc' = "idle"
    /\ UNCHANGED <<spec, cm, cached, trino, req, budget>>

\* A call fails or the operator stops.
Abort ==
    /\ pc # "idle"
    /\ pc' = "idle"
    /\ ready' \in {ready, None}
    /\ Fault
    /\ UNCHANGED <<spec, cm, cluster, pods, trino, req>>

-----------------------------------------------------------------------------
(***************************************************************************)
(* Kubernetes and the user.                                                *)
(***************************************************************************)

\* The informer delivers the next change.
Sync ==
    /\ events # <<>>
    /\ cached' = Head(events)
    /\ events' = Tail(events)
    /\ UNCHANGED <<spec, cm, job, made, pods, trino, operator, budget>>

\* A container starts: it mounts the ConfigMap, perhaps as it was before.
StartPod ==
    /\ \E p \in pods :
          /\ p.at = 0
          /\ \E t \in (IF kind = "seed" THEN {cm, p.target} \ {None}
                                        ELSE {p.of}) :
                pods' = (pods \ {p}) \cup {[p EXCEPT !.target = t, !.at = 1]}
    /\ UNCHANGED <<spec, cm, cluster, trino, operator, budget>>

\* Mutant: rows are inserted without looking.
EmptyTableAlways(t, i) == TRUE

\* WHERE NOT EXISTS of the INSERT; mb --ignore-existing.
EmptyTable(t, i) == rows[t][i] = 0

\* A statement reads its table when it starts.
RunStatement ==
    /\ \E p \in pods :
          /\ p.at \in 1..Statements /\ ~p.inserting
          /\ pods' = (pods \ {p}) \cup
                {IF EmptyTable(p.target, p.at)
                 THEN [p EXCEPT !.inserting = TRUE]
                 ELSE [p EXCEPT !.at = @ + 1]}
    /\ UNCHANGED <<spec, cm, cluster, trino, operator, budget>>

\* The statement commits what it found missing; the container sees it end, or
\* fails on the lost answer and is restarted.  A bucket is made once.
Commit ==
    /\ \E p \in pods :
          /\ p.inserting
          /\ rows' = [rows EXCEPT ![p.target][p.at] =
                         IF kind = "seed" THEN @ + 1 ELSE 1]
          /\ \/ /\ pods' = (pods \ {p}) \cup
                      {[p EXCEPT !.at = @ + 1, !.inserting = FALSE]}
                /\ UNCHANGED budget
             \/ /\ pods' = (pods \ {p}) \cup
                      {[p EXCEPT !.at = 0, !.inserting = FALSE]}
                /\ Fault
    /\ UNCHANGED <<spec, cm, cluster, adrift, left, operator>>

\* An INSERT whose container has ended commits, or fails in Trino.
EndQuery ==
    /\ \E t \in Targets : \E i \in 1..Statements :
          /\ adrift[t][i] > 0
          /\ adrift' = [adrift EXCEPT ![t][i] = @ - 1]
          /\ \/ rows' = [rows EXCEPT ![t][i] =
                            IF kind = "seed" THEN @ + 1 ELSE 1]
             \/ UNCHANGED rows
    /\ UNCHANGED <<spec, cm, cluster, pods, left, operator, budget>>

\* A container fails before its statement commits; RestartPolicyOnFailure.
RestartPod ==
    /\ \E p \in pods :
          /\ p.at # 0
          /\ Abandon({p})
          /\ pods' = (pods \ {p}) \cup
                {[p EXCEPT !.at = 0, !.inserting = FALSE]}
    /\ Fault
    /\ UNCHANGED <<spec, cm, cluster, rows, operator>>

\* The pod ends; its Job, if it is still there, has succeeded.
FinishPod ==
    /\ \E p \in pods :
          /\ p.at > Statements
          /\ pods' = pods \ {p}
          /\ \/ /\ job.uid = p.job
                /\ Store([job EXCEPT !.state = "succeeded"])
             \/ /\ job.uid # p.job
                /\ UNCHANGED <<job, events>>
    /\ UNCHANGED <<spec, cm, cached, made, trino, operator, budget>>

\* The backoff limit is reached.
FailJob ==
    /\ job.state = "running"
    /\ Store([job EXCEPT !.state = "failed"])
    /\ pods' = {p \in pods : p.job # job.uid}
    /\ Abandon(pods \ pods')
    /\ Fault
    /\ UNCHANGED <<spec, cm, cached, made, rows, operator>>

\* The deletion completes.  The Delete names no propagation policy: the pod
\* may be removed with the Job or be left behind.
RemoveJob ==
    /\ job.deleting
    /\ Store(NoJob)
    /\ \/ pods' = {p \in pods : p.job # job.uid}
       \/ UNCHANGED pods
    /\ Abandon(pods \ pods')
    /\ UNCHANGED <<spec, cm, cached, made, rows, operator, budget>>

\* An administrator deletes the Job.
DeleteByHand ==
    /\ faults < MaxFaults
    /\ faults' = faults + 1
    /\ manual' = TRUE
    /\ job # NoJob /\ ~job.deleting
    /\ Store([job EXCEPT !.deleting = TRUE])
    /\ UNCHANGED <<spec, cm, cached, made, pods, trino, operator>>

EditTarget ==
    /\ edits < MaxEdits
    /\ edits' = edits + 1
    /\ want' \in Targets \ {want}
    /\ UNCHANGED <<kind, cm, cluster, pods, trino, operator, budget>>

-----------------------------------------------------------------------------
\* A Job of an older operator version may be there already.
Init ==
    /\ kind \in Kinds
    /\ want \in Targets
    /\ edits = 0
    /\ cm = None
    /\ job \in {NoJob} \cup
          (IF kind = "bucket"
           THEN {[uid |-> 1, target |-> want, old |-> TRUE,
                  state |-> "running", deleting |-> FALSE]}
           ELSE {})
    /\ cached = job
    /\ events = <<>>
    /\ made = job.uid
    /\ pods = {}
    /\ rows = [t \in Targets |-> [i \in 1..Statements |-> 0]]
    /\ adrift = rows
    /\ left = rows
    /\ pc = "idle"
    /\ req = None
    /\ ready = None
    /\ faults = 0
    /\ manual = FALSE

Handle == Begin \/ Examine \/ DeleteJob \/ CreateJob
RunPod == StartPod \/ RunStatement \/ Commit \/ FinishPod

Next ==
    \/ Handle \/ Abort
    \/ Sync \/ RunPod \/ EndQuery \/ RestartPod \/ FailJob \/ RemoveJob
    \/ DeleteByHand \/ EditTarget

\* Passes keep coming while the Job is not done, the informer and the garbage
\* collector work, and each step a pod can take is taken in the end.
Spec ==
    /\ Init /\ [][Next]_vars
    /\ WF_vars(Handle) /\ WF_vars(Sync) /\ WF_vars(RunPod)
    /\ WF_vars(RemoveJob)

-----------------------------------------------------------------------------
(***************************************************************************)
(* Properties.                                                             *)
(***************************************************************************)

PodType == [job : Nat, of : Targets, target : Targets \cup {None},
            at : 0..(Statements + 1), inserting : BOOLEAN]

\* The shape of the state.
TypeOK ==
    /\ kind \in Kinds
    /\ want \in Targets
    /\ edits \in 0..MaxEdits
    /\ cm \in Targets \cup {None}
    /\ job \in JobType \cup {NoJob}
    /\ cached \in JobType \cup {NoJob}
    /\ events \in Seq(JobType \cup {NoJob})
    /\ made \in Nat
    /\ pods \subseteq PodType
    /\ \A p \in pods : p.at # 0 => p.target # None
    /\ rows \in [Targets -> [1..Statements -> Nat]]
    /\ adrift \in [Targets -> [1..Statements -> Nat]]
    /\ left \in [Targets -> [1..Statements -> Nat]]
    /\ pc \in {"idle", "examine", "create", "delete"}
    /\ req \in Targets \cup {None}
    /\ pc # "idle" => req \in Targets
    /\ ready \in Targets \cup {None}
    /\ faults \in 0..MaxFaults
    /\ manual \in BOOLEAN

\* ensureSampleDataJob deletes a Job through a lagging cache and by name, yet
\* what it deletes has failed or was made for another schema: a Job doing the
\* wanted work is never lost, until somebody else deletes Jobs, too.
DeletesOnlyUnwanted ==
    [][~manual' /\ ~job.deleting /\ job'.deleting
        => JobFailed(job) \/ Outdated(job)]_vars

Filled(t) == \A i \in 1..Statements : rows[t][i] > 0

\* A condition that is True stands on work that was done: all tables of some
\* schema were filled, or some bucket was made; the one that its message
\* names, if the spec has not been edited.
ReadyAfterWork ==
    ready # None => /\ \E t \in Targets : Filled(t)
                    /\ edits = 0 => Filled(ready)

\* WHERE NOT EXISTS keeps the rows of a table from coming twice, however often
\* containers restart, Jobs fail and are replaced, or answers are lost: once,
\* and at most once more for each INSERT that Trino went on with after its
\* container had ended.  This holds until a running Job is deleted for an edit
\* or by hand, and its pod lives on.
SeededOnce ==
    edits = 0 /\ ~manual =>
        \A t \in Targets : \A i \in 1..Statements :
            rows[t][i] <= 1 + left[t][i]

\* Once edits and faults stop the condition is True for the wanted target and
\* stays so: a failed, outdated or half-deleted Job never blocks the platform.
\* The target is made unless the spec was edited; a Job that had succeeded for
\* the old target then counts for the new one, see ReadyMeansMade.
Settles == <>[](ready = want /\ (edits = 0 => Filled(want)))

\* What the condition is documented to say: it is True when the tables of the
\* schema, or the bucket, that its message names have been made.  It does not
\* hold: ensureSampleDataJob asks whether the Job succeeded before it compares
\* the hash, and ensureMinioBucket never looks at the bucket.
ReadyMeansMade == ready # None => Filled(ready)

=============================================================================
