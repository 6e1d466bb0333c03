--------------------------- MODULE SeedJob_proofs ---------------------------
(***************************************************************************)
(* Proofs about SeedJob for both Jobs, every set of targets and all        *)
(* bounds.                                                                 *)
(***************************************************************************)
EXTENDS SeedJob, SequenceTheorems, TLAPS

USE DEF trino

-----------------------------------------------------------------------------
(***************************************************************************)
(* Records and versions.                                                   *)
(***************************************************************************)

Version == JobType \cup {NoJob}

\* A pod is of some Job, and a statement that inserts is one of the statements.
PodsSound == \A p \in pods : /\ p.job # 0
                             /\ p.inserting => p.at \in 1..Statements

TypeInv == TypeOK /\ PodsSound

\* A version of the Job that the API server or the cache has, or will get.
Known(v) ==
    \/ v = job
    \/ v = cached
    \/ \E i \in 1..Len(events) : v = events[i]

\* What a succeeded Job stands for.
Done ==
    /\ \E t \in Targets : Filled(t)
    /\ edits = 0 => Filled(want)

\* A container has run every statement before the one it is at.
Ran == \A p \in pods : \A i \in 1..Statements :
          i < p.at => rows[p.target][i] > 0

Worked == \A v \in Version : Known(v) /\ v.state = "succeeded" => Done

\* Before the first edit everything is about the one target.
OneTarget ==
    edits = 0 =>
        /\ cm \in {None, want}
        /\ req \in {None, want}
        /\ ready \in {None, want}
        /\ \A v \in JobType : Known(v) => v.target = want
        /\ \A p \in pods : p.of = want /\ p.target \in {None, want}

WorkInv == Ran /\ Worked /\ OneTarget /\ ReadyAfterWork

\* Each pod is of a Job of its own, and no Job that has ended has a pod.
Owned ==
    /\ job.uid <= made
    /\ \A p \in pods : p.job \in 1..made
    /\ \A p, q \in pods : p.job = q.job => p = q
    /\ job.state \in {"succeeded", "failed"} => \A p \in pods : p.job # job.uid

\* b is a, or what a has become.
Later(a, b) ==
    \/ b = NoJob
    \/ /\ b.uid = a.uid /\ b.target = a.target /\ b.old = a.old
       /\ a.state # "running" => b.state = a.state
       /\ a.deleting => b.deleting

\* The cache and the changes it has not seen lead up to the Job as it is.
Followed ==
    /\ job = IF events = <<>> THEN cached ELSE events[Len(events)]
    /\ cached # NoJob => Later(cached, job)
    /\ \A i \in 1..Len(events) : events[i] # NoJob => Later(events[i], job)
    /\ \A i \in 1..Len(events) : events[i] = NoJob => i = Len(events)

\* A Job that the cache does not show yet is one that nobody deletes.
Unseen ==
    cached = NoJob =>
        \A i \in 1..Len(events) : events[i] # NoJob /\ ~events[i].deleting

\* The handler is about to delete a Job nobody wants.
Unwanted ==
    pc = "delete" =>
        /\ job = NoJob \/ job.deleting \/ JobFailed(job) \/ Outdated(job)
        /\ cached = NoJob => job = NoJob

HistoryInv == Owned /\ (~manual => Followed /\ Unseen /\ Unwanted)

\* The INSERTs that Trino has committed or may still commit without their
\* container are those that were left behind, and one more.
Balanced ==
    \A t \in Targets : \A i \in 1..Statements :
        /\ adrift[t][i] <= left[t][i]
        /\ rows[t][i] + adrift[t][i] <= 1 + left[t][i]

\* One more INSERT may commit.
Room(t, i) == rows[t][i] + adrift[t][i] <= left[t][i]

\* One pod works at a time, and there is room for what it is about to insert.
Alone ==
    /\ \A p \in pods : p.job = job.uid
    /\ job.deleting => job.state = "failed"
    /\ \A p \in pods : p.inserting => Room(p.target, p.at)
    /\ Balanced

\* No bucket is made twice.
Once == \A t \in Targets : \A i \in 1..Statements : rows[t][i] <= 1

Undisturbed == kind = "seed" /\ edits = 0 /\ ~manual

OnceInv == (Undisturbed => Alone) /\ (kind = "bucket" => Once)

-----------------------------------------------------------------------------
(***************************************************************************)
(* Records.                                                                *)
(***************************************************************************)

\* sampleDataSQL has two statements that write, "mc mb" is one.
LEMMA StatementsNat == Statements \in {1, 2}
BY DEF Statements

\* After the last statement a container is one past it.
LEMMA NextStatement ==
    ASSUME NEW n \in 1..Statements PROVE n + 1 \in 0..(Statements + 1)
BY StatementsNat

\* A container that is past the last statement has passed each of them.
LEMMA PastStatements ==
    ASSUME NEW n \in 0..(Statements + 1), n > Statements
    PROVE  \A i \in 1..Statements : i < n
BY StatementsNat

\* What a pod is made of.
LEMMA PodFields ==
    ASSUME NEW p \in PodType
    PROVE  /\ p.job \in Nat /\ p.of \in Targets
           /\ p.target \in Targets \cup {None}
           /\ p.at \in 0..(Statements + 1) /\ p.inserting \in BOOLEAN
BY DEF PodType

\* A container has run a statement, or starts again: only the place it is at
\* changes.
LEMMA PodMoves ==
    ASSUME NEW p \in PodType, NEW n \in 0..(Statements + 1)
    PROVE  LET q == [p EXCEPT !.at = n, !.inserting = FALSE]
           IN  /\ q \in PodType
               /\ q.job = p.job /\ q.of = p.of /\ q.target = p.target
               /\ q.at = n /\ q.inserting = FALSE
BY DEF PodType

\* A container skips a statement whose table has rows.
LEMMA PodSkips ==
    ASSUME NEW p \in PodType, NEW n \in 0..(Statements + 1)
    PROVE  LET q == [p EXCEPT !.at = n]
           IN  /\ q \in PodType
               /\ q.job = p.job /\ q.of = p.of /\ q.target = p.target
               /\ q.at = n /\ q.inserting = p.inserting
BY DEF PodType

\* A container begins an INSERT.
LEMMA PodInserts ==
    ASSUME NEW p \in PodType
    PROVE  LET q == [p EXCEPT !.inserting = TRUE]
           IN  /\ q \in PodType
               /\ q.job = p.job /\ q.of = p.of /\ q.target = p.target
               /\ q.at = p.at /\ q.inserting = TRUE
BY DEF PodType

\* A container starts with the schema it mounts.
LEMMA PodStarts ==
    ASSUME NEW p \in PodType, NEW t \in Targets
    PROVE  LET q == [p EXCEPT !.target = t, !.at = 1]
           IN  /\ q \in PodType
               /\ q.job = p.job /\ q.of = p.of /\ q.target = t
               /\ q.at = 1 /\ q.inserting = p.inserting
<1>1. 1 \in 0..(Statements + 1)
  BY StatementsNat
<1>2. \A n \in 0..(Statements + 1) :
         LET q == [p EXCEPT !.target = t, !.at = n]
         IN  /\ q \in PodType
             /\ q.job = p.job /\ q.of = p.of /\ q.target = t
             /\ q.at = n /\ q.inserting = p.inserting
  BY DEF PodType
<1> QED
  BY <1>1, <1>2

\* A Job is marked for deletion.
LEMMA JobMarked ==
    ASSUME NEW j \in Version, j # NoJob
    PROVE  LET k == [j EXCEPT !.deleting = TRUE]
           IN  /\ k \in JobType /\ k.uid = j.uid /\ k.target = j.target
               /\ k.old = j.old /\ k.state = j.state /\ k.deleting = TRUE
BY DEF Version, JobType

\* The end of its pod, or the backoff limit, decides a Job's state.
LEMMA JobDecided ==
    ASSUME NEW j \in Version, j # NoJob, NEW s \in States
    PROVE  LET k == [j EXCEPT !.state = s]
           IN  /\ k \in JobType /\ k.uid = j.uid /\ k.target = j.target
               /\ k.old = j.old /\ k.state = s /\ k.deleting = j.deleting
BY DEF Version, JobType

\* What a Job is made of.
LEMMA JobFields ==
    ASSUME NEW j \in Version
    PROVE  /\ j.uid \in Nat /\ j.target \in Targets \cup {None}
           /\ j.old \in BOOLEAN /\ j.state \in States \cup {"none"}
           /\ j.deleting \in BOOLEAN
           /\ j # NoJob => j.target \in Targets /\ j.state \in States
<1>1. CASE j = NoJob
  BY <1>1 DEF NoJob
<1>2. CASE j \in JobType
  BY <1>2 DEF JobType
<1> QED
  BY <1>1, <1>2 DEF Version

\* No Job is no Job: it is not there, does nothing and is not deleted.
LEMMA NoJobFields ==
    /\ NoJob \notin JobType
    /\ NoJob.uid = 0 /\ NoJob.state = "none" /\ NoJob.deleting = FALSE
BY TargetsAssumption DEF NoJob, JobType

\* What ensureSampleDataJob and ensureMinioBucket create.
LEMMA JobMade ==
    ASSUME NEW t \in Targets, made \in Nat
    PROVE  /\ NewJob(t) \in JobType
           /\ NewJob(t).uid = made + 1 /\ NewJob(t).target = t
           /\ NewJob(t).state = "running" /\ NewJob(t).deleting = FALSE
BY DEF NewJob, JobType, States

\* The pod that the Job controller makes for Job j has run nothing yet.
LEMMA PodMade ==
    ASSUME NEW j \in JobType
    PROVE  /\ NewPod(j) \in PodType
           /\ NewPod(j).job = j.uid /\ NewPod(j).of = j.target
           /\ NewPod(j).target = None
           /\ NewPod(j).at = 0 /\ NewPod(j).inserting = FALSE
<1>1. 0 \in 0..(Statements + 1)
  BY StatementsNat
<1> QED
  BY <1>1 DEF NewPod, JobType, PodType

-----------------------------------------------------------------------------
(***************************************************************************)
(* The types.                                                              *)
(***************************************************************************)

\* How an action may change the pods: one of them is replaced by another.
LEMMA PodReplaced ==
    ASSUME TypeInv, NEW p \in pods, NEW q \in PodType,
           q.job = p.job, q.at # 0 => q.target # None,
           q.inserting => q.at \in 1..Statements,
           pods' = (pods \ {p}) \cup {q}, kind' = kind
    PROVE  /\ (pods \subseteq PodType)'
           /\ (\A r \in pods : r.at # 0 => r.target # None)'
           /\ PodsSound'
<1>1. Statements' = Statements
  BY DEF Statements
<1>2. PodType' = PodType
  BY <1>1 DEF PodType
<1> QED
  BY <1>1, <1>2 DEF TypeInv, TypeOK, PodsSound

\* Pods that end, and no other change, leave the pods well-formed.
LEMMA PodsKept ==
    ASSUME TypeInv, pods' \subseteq pods, kind' = kind
    PROVE  /\ (pods \subseteq PodType)'
           /\ (\A r \in pods : r.at # 0 => r.target # None)'
           /\ PodsSound'
<1>1. Statements' = Statements
  BY DEF Statements
<1>2. PodType' = PodType
  BY <1>1 DEF PodType
<1> QED
  BY <1>1, <1>2 DEF TypeInv, TypeOK, PodsSound

\* The API server stores a version.
LEMMA StoreTypes ==
    ASSUME TypeInv, NEW v \in Version, Store(v)
    PROVE  job' \in Version /\ events' \in Seq(Version)
<1>1. events \in Seq(Version)
  BY DEF TypeInv, TypeOK, Version
<1> QED
  BY <1>1, AppendProperties DEF Store

\* A cluster without the Job is well-typed.
LEMMA TypeInit == Init => TypeInv
<1> SUFFICES ASSUME Init PROVE TypeInv
  OBVIOUS
<1>1. job \in Version /\ made \in Nat
  <2>1. CASE job = NoJob
    BY <2>1 DEF Init, Version, NoJob
  <2>2. CASE job # NoJob
    <3>1. job = [uid |-> 1, target |-> want, old |-> TRUE,
                 state |-> "running", deleting |-> FALSE]
      BY <2>2 DEF Init
    <3>2. want \in Targets /\ made = job.uid
      BY DEF Init
    <3>3. job.uid = 1
      BY <3>1
    <3>4. job \in JobType
      BY <3>1, <3>2 DEF JobType, States
    <3> QED
      BY <3>2, <3>3, <3>4 DEF Version
  <2> QED
    BY <2>1, <2>2
<1>2. /\ rows \in [Targets -> [1..Statements -> Nat]]
      /\ adrift \in [Targets -> [1..Statements -> Nat]]
      /\ left \in [Targets -> [1..Statements -> Nat]]
  BY DEF Init
<1>3. events \in Seq(Version)
  BY EmptySeq DEF Init
<1>4. edits \in 0..MaxEdits /\ faults \in 0..MaxFaults
  BY JobBounds DEF Init
<1> QED
  BY <1>1, <1>2, <1>3, <1>4 DEF Init, TypeInv, TypeOK, PodsSound, Version

\* Of the changes an action makes, these are the ones to look at one by one.
LEMMA TypeParts ==
    ASSUME TypeInv,
           kind' = kind, want' \in Targets, edits' \in 0..MaxEdits,
           cm' \in Targets \cup {None},
           job' \in Version, cached' \in Version, events' \in Seq(Version),
           made' \in Nat,
           (pods \subseteq PodType)',
           (\A p \in pods : p.at # 0 => p.target # None)',
           PodsSound',
           rows' \in [Targets -> [1..Statements -> Nat]],
           adrift' \in [Targets -> [1..Statements -> Nat]],
           left' \in [Targets -> [1..Statements -> Nat]],
           pc' \in {"idle", "examine", "create", "delete"},
           req' \in Targets \cup {None}, pc' # "idle" => req' \in Targets,
           ready' \in Targets \cup {None},
           faults' \in 0..MaxFaults, manual' \in BOOLEAN
    PROVE  TypeInv'
<1>1. Statements' = Statements
  BY DEF Statements
<1>2. Version' = JobType \cup {NoJob}
  BY DEF Version
<1> QED
  BY <1>1, <1>2 DEF TypeInv, TypeOK, Version

\* TypeInv taken apart, for the steps that need a single fact of it.
LEMMA TypeFacts ==
    ASSUME TypeInv
    PROVE  /\ want \in Targets /\ edits \in 0..MaxEdits
           /\ cm \in Targets \cup {None}
           /\ job \in Version /\ cached \in Version /\ events \in Seq(Version)
           /\ made \in Nat
           /\ pods \subseteq PodType
           /\ \A p \in pods : p.at # 0 => p.target # None
           /\ PodsSound
           /\ rows \in [Targets -> [1..Statements -> Nat]]
           /\ adrift \in [Targets -> [1..Statements -> Nat]]
           /\ left \in [Targets -> [1..Statements -> Nat]]
           /\ pc \in {"idle", "examine", "create", "delete"}
           /\ req \in Targets \cup {None} /\ (pc # "idle" => req \in Targets)
           /\ ready \in Targets \cup {None}
           /\ faults \in 0..MaxFaults /\ manual \in BOOLEAN
           /\ kind \in {"seed", "bucket"}
BY KindsAssumption DEF TypeInv, TypeOK, Version

-----------------------------------------------------------------------------
(***************************************************************************)
(* What each action does to a pod or to the Job.                           *)
(***************************************************************************)

\* q is p after a step of its container.
Moved(p, q) ==
    /\ pods' = (pods \ {p}) \cup {q}
    /\ q.job = p.job /\ q.of = p.of

\* b is a, marked for deletion.
Marked(a, b) ==
    /\ b.uid = a.uid /\ b.target = a.target /\ b.old = a.old
    /\ b.state = a.state /\ b.deleting

\* b is a, whose state has been decided.
Decided(a, b, s) ==
    /\ b.uid = a.uid /\ b.target = a.target /\ b.old = a.old
    /\ b.state = s /\ b.deleting = a.deleting

\* The container starts: one pod is at its first statement, with the schema
\* that the ConfigMap had when it was mounted, or the bucket of its Job.
LEMMA StartEffect ==
    ASSUME TypeInv, StartPod
    PROVE  \E p \in pods, q \in PodType :
              /\ Moved(p, q) /\ p.at = 0 /\ q.at = 1
              /\ q.inserting = p.inserting
              /\ q.target \in Targets
              /\ q.target \in (IF kind = "seed" THEN {cm, p.target}
                                                ELSE {p.of})
<1> USE TypeFacts
<1>1. PICK p \in pods :
         /\ p.at = 0
         /\ \E t \in (IF kind = "seed" THEN {cm, p.target} \ {None}
                                       ELSE {p.of}) :
              pods' = (pods \ {p}) \cup {[p EXCEPT !.target = t, !.at = 1]}
  BY DEF StartPod
<1>2. PICK t \in (IF kind = "seed" THEN {cm, p.target} \ {None}
                                   ELSE {p.of}) :
         pods' = (pods \ {p}) \cup {[p EXCEPT !.target = t, !.at = 1]}
  BY <1>1
<1>3. p \in PodType /\ p.of \in Targets /\ p.target \in Targets \cup {None}
  BY PodFields
<1>4. t \in Targets
  BY <1>3, TargetsAssumption
<1> DEFINE q == [p EXCEPT !.target = t, !.at = 1]
<1>5. /\ q \in PodType /\ q.job = p.job /\ q.of = p.of /\ q.target = t
      /\ q.at = 1 /\ q.inserting = p.inserting
  BY <1>3, <1>4, PodStarts
<1>6. pods' = (pods \ {p}) \cup {q}
  BY <1>2
<1> HIDE DEF q
<1>7. t \in (IF kind = "seed" THEN {cm, p.target} ELSE {p.of})
  OBVIOUS
<1> QED
  BY <1>1, <1>4, <1>5, <1>6, <1>7 DEF Moved

\* run_statement on one pod: it inserts what its table lacks, or goes on to
\* the next statement when the rows are there.
LEMMA StatementEffect ==
    ASSUME TypeInv, RunStatement
    PROVE  \E p \in pods, q \in PodType :
              /\ Moved(p, q) /\ q.target = p.target
              /\ p.at \in 1..Statements /\ p.target \in Targets
              /\ \/ /\ rows[p.target][p.at] = 0
                    /\ q.at = p.at /\ q.inserting
                 \/ /\ rows[p.target][p.at] # 0
                    /\ q.at = p.at + 1 /\ ~q.inserting
<1> USE TypeFacts
<1>1. PICK p \in pods :
         /\ p.at \in 1..Statements /\ ~p.inserting
         /\ pods' = (pods \ {p}) \cup
              {IF EmptyTable(p.target, p.at)
               THEN [p EXCEPT !.inserting = TRUE]
               ELSE [p EXCEPT !.at = @ + 1]}
  BY DEF RunStatement
<1>2. p \in PodType /\ p.target # None
  BY <1>1, StatementsNat
<1>3. p.target \in Targets
  BY <1>2, PodFields
<1>4. CASE EmptyTable(p.target, p.at)
  <2> DEFINE q == [p EXCEPT !.inserting = TRUE]
  <2>1. /\ q \in PodType /\ q.job = p.job /\ q.of = p.of
        /\ q.target = p.target /\ q.at = p.at /\ q.inserting = TRUE
    BY <1>2, PodInserts
  <2>2. pods' = (pods \ {p}) \cup {q}
    BY <1>1, <1>4
  <2> HIDE DEF q
  <2> QED
    BY <1>1, <1>3, <1>4, <2>1, <2>2 DEF Moved, EmptyTable
<1>5. CASE ~EmptyTable(p.target, p.at)
  <2> DEFINE q == [p EXCEPT !.at = p.at + 1]
  <2>1. p.at + 1 \in 0..(Statements + 1)
    BY <1>1, NextStatement
  <2>2. /\ q \in PodType /\ q.job = p.job /\ q.of = p.of
        /\ q.target = p.target /\ q.at = p.at + 1
        /\ q.inserting = p.inserting
    BY <1>2, <2>1, PodSkips
  <2>3. pods' = (pods \ {p}) \cup {q}
    BY <1>1, <1>5
  <2> HIDE DEF q
  <2> QED
    BY <1>1, <1>3, <1>5, <2>2, <2>3 DEF Moved, EmptyTable
<1> QED
  BY <1>4, <1>5

\* The kubelet restarts a container: the script begins anew.
LEMMA RestartEffect ==
    ASSUME TypeInv, RestartPod
    PROVE  \E p \in pods, q \in PodType :
              /\ Moved(p, q) /\ q.target = p.target
              /\ q.at = 0 /\ ~q.inserting
<1> USE TypeFacts
<1>1. PICK p \in pods :
         pods' = (pods \ {p}) \cup {[p EXCEPT !.at = 0, !.inserting = FALSE]}
  BY DEF RestartPod
<1> DEFINE q == [p EXCEPT !.at = 0, !.inserting = FALSE]
<1>2. 0 \in 0..(Statements + 1)
  BY StatementsNat
<1>3. /\ q \in PodType /\ q.job = p.job /\ q.of = p.of
      /\ q.target = p.target /\ q.at = 0 /\ q.inserting = FALSE
  <2>1. p \in PodType
    OBVIOUS
  <2> QED
    BY <1>2, <2>1, PodMoves, ZenonT(30)
<1>4. pods' = (pods \ {p}) \cup {q}
  BY <1>1
<1> HIDE DEF q
<1> QED
  BY <1>3, <1>4 DEF Moved

\* A commit adds rows to the one table and leaves the others alone.
LEMMA CommitEffect ==
    ASSUME TypeInv, Commit
    PROVE  \E p \in pods, q \in PodType :
              /\ Moved(p, q) /\ q.target = p.target
              /\ p.inserting /\ p.at \in 1..Statements /\ p.target \in Targets
              /\ q.at \in {0, p.at + 1} /\ ~q.inserting
              /\ rows' \in [Targets -> [1..Statements -> Nat]]
              /\ rows'[p.target][p.at] =
                    IF kind = "seed" THEN rows[p.target][p.at] + 1 ELSE 1
              /\ \A t \in Targets : \A i \in 1..Statements :
                    t # p.target \/ i # p.at => rows'[t][i] = rows[t][i]
<1> USE TypeFacts
<1>1. PICK p \in pods :
         /\ p.inserting
         /\ rows' = [rows EXCEPT ![p.target][p.at] =
                        IF kind = "seed" THEN @ + 1 ELSE 1]
         /\ \/ pods' = (pods \ {p}) \cup
                  {[p EXCEPT !.at = @ + 1, !.inserting = FALSE]}
            \/ pods' = (pods \ {p}) \cup
                  {[p EXCEPT !.at = 0, !.inserting = FALSE]}
  BY DEF Commit
<1>2. p \in PodType /\ p.at \in 1..Statements
  BY <1>1 DEF PodsSound
<1>3. p.at # 0
  BY <1>2, StatementsNat
<1>4. p.target \in Targets
  BY <1>2, <1>3, PodFields
<1>5. /\ rows' \in [Targets -> [1..Statements -> Nat]]
      /\ rows'[p.target][p.at] =
            IF kind = "seed" THEN rows[p.target][p.at] + 1 ELSE 1
      /\ \A t \in Targets : \A i \in 1..Statements :
            t # p.target \/ i # p.at => rows'[t][i] = rows[t][i]
  <2> DEFINE n == IF kind = "seed" THEN rows[p.target][p.at] + 1 ELSE 1
  <2>1. rows' = [rows EXCEPT ![p.target] = [rows[p.target] EXCEPT ![p.at] = n]]
    BY <1>1
  <2>2. n \in Nat
    <3>1. rows[p.target][p.at] \in Nat
      BY <1>2, <1>4
    <3> QED
      BY <3>1
  <2> HIDE DEF n
  <2>3. [rows[p.target] EXCEPT ![p.at] = n] \in [1..Statements -> Nat]
    BY <1>4, <2>2
  <2> QED
    BY <1>2, <1>4, <2>1, <2>2, <2>3 DEF n
<1>6. PICK m \in {0, p.at + 1} :
         pods' = (pods \ {p}) \cup {[p EXCEPT !.at = m, !.inserting = FALSE]}
  BY <1>1
<1> DEFINE q == [p EXCEPT !.at = m, !.inserting = FALSE]
<1>7. m \in 0..(Statements + 1)
  BY <1>2, StatementsNat, SMTT(30)
<1>8. /\ q \in PodType /\ q.job = p.job /\ q.of = p.of
      /\ q.target = p.target /\ q.at = m /\ q.inserting = FALSE
  BY <1>2, <1>7, PodMoves, ZenonT(30)
<1>9. pods' = (pods \ {p}) \cup {q}
  BY <1>6
<1> HIDE DEF q
<1> QED
  BY <1>1, <1>2, <1>4, <1>5, <1>8, <1>9 DEF Moved

\* The end of a pod is the success of its Job, if that is still there.
LEMMA FinishEffect ==
    ASSUME TypeInv, FinishPod
    PROVE  \E p \in pods :
              /\ p.at > Statements
              /\ pods' = pods \ {p}
              /\ \/ /\ job.uid = p.job /\ job # NoJob
                    /\ \E v \in JobType :
                          Store(v) /\ Decided(job, v, "succeeded")
                 \/ /\ job.uid # p.job
                    /\ UNCHANGED <<job, events>>
<1> USE TypeFacts
<1>1. PICK p \in pods :
         /\ p.at > Statements
         /\ pods' = pods \ {p}
         /\ \/ /\ job.uid = p.job
               /\ Store([job EXCEPT !.state = "succeeded"])
            \/ /\ job.uid # p.job
               /\ UNCHANGED <<job, events>>
  BY DEF FinishPod
<1>2. CASE job.uid # p.job
  BY <1>1, <1>2
<1>3. CASE job.uid = p.job
  <2>1. job # NoJob /\ Store([job EXCEPT !.state = "succeeded"])
    BY <1>1, <1>3, NoJobFields DEF PodsSound
  <2>2. "succeeded" \in States
    BY DEF States
  <2> DEFINE v == [job EXCEPT !.state = "succeeded"]
  <2>3. v \in JobType /\ Decided(job, v, "succeeded")
    BY <2>1, <2>2, JobDecided DEF Decided
  <2>4. Store(v)
    BY <2>1
  <2> HIDE DEF v
  <2> QED
    BY <1>1, <1>3, <2>1, <2>3, <2>4
<1> QED
  BY <1>2, <1>3

\* The backoff limit is reached: the running Job is stored as failed.
LEMMA FailEffect ==
    ASSUME TypeInv, FailJob
    PROVE  /\ job # NoJob /\ job.state = "running"
           /\ \E v \in JobType : Store(v) /\ Decided(job, v, "failed")
<1> USE TypeFacts
<1>1. job # NoJob /\ job.state = "running" /\ "failed" \in States
  BY NoJobFields DEF FailJob, States
<1> DEFINE v == [job EXCEPT !.state = "failed"]
<1>2. v \in JobType /\ Decided(job, v, "failed")
  BY <1>1, JobDecided DEF Decided
<1>3. Store(v)
  BY DEF FailJob
<1> HIDE DEF v
<1> QED
  BY <1>1, <1>2, <1>3

\* A deleted Job stays, marked, until the garbage collector has finished.
LEMMA MarkEffect ==
    ASSUME TypeInv, job # NoJob, Store([job EXCEPT !.deleting = TRUE])
    PROVE  \E v \in JobType : Store(v) /\ Marked(job, v)
<1> USE TypeFacts
<1> DEFINE v == [job EXCEPT !.deleting = TRUE]
<1>1. v \in JobType /\ Marked(job, v)
  BY JobMarked DEF Marked
<1>2. Store(v)
  OBVIOUS
<1> HIDE DEF v
<1> QED
  BY <1>1, <1>2

\* ensureSampleDataJob and ensureMinioBucket create a Job with a pod.
LEMMA CreateEffect ==
    ASSUME TypeInv, CreateJob
    PROVE  \/ /\ cached = NoJob /\ job = NoJob
              /\ made' = made + 1
              /\ \E v \in JobType, q \in PodType :
                    /\ Store(v)
                    /\ v.uid = made + 1 /\ v.target = req
                    /\ v.state = "running" /\ ~v.deleting
                    /\ pods' = pods \cup {q}
                    /\ q.job = made + 1 /\ q.of = req /\ q.target = None
                    /\ q.at = 0 /\ ~q.inserting
           \/ UNCHANGED <<job, events, made, pods>>
<1> USE TypeFacts
<1>1. CASE UNCHANGED <<job, events, made, pods>>
  BY <1>1
<1>2. CASE /\ cached = NoJob /\ job = NoJob
           /\ Store(NewJob(req))
           /\ made' = made + 1
           /\ pods' = pods \cup {NewPod(NewJob(req))}
  <2>1. req \in Targets
    BY DEF CreateJob
  <2>2. /\ NewJob(req) \in JobType
        /\ NewJob(req).uid = made + 1 /\ NewJob(req).target = req
        /\ NewJob(req).state = "running" /\ NewJob(req).deleting = FALSE
    BY <2>1, JobMade
  <2>3. /\ NewPod(NewJob(req)) \in PodType
        /\ NewPod(NewJob(req)).job = made + 1
        /\ NewPod(NewJob(req)).of = req /\ NewPod(NewJob(req)).target = None
        /\ NewPod(NewJob(req)).at = 0 /\ NewPod(NewJob(req)).inserting = FALSE
    BY <2>2, PodMade
  <2> QED
    BY <1>2, <2>2, <2>3
<1> QED
  BY <1>1, <1>2 DEF CreateJob

\* A table gains at most one abandoned INSERT.
LEMMA AbandonEffect ==
    ASSUME TypeInv, NEW ps, Abandon(ps)
    PROVE  /\ adrift' \in [Targets -> [1..Statements -> Nat]]
           /\ left' \in [Targets -> [1..Statements -> Nat]]
           /\ \A t \in Targets : \A i \in 1..Statements :
                 \E g \in {0, 1} : /\ adrift'[t][i] = adrift[t][i] + g
                                  /\ left'[t][i] = left[t][i] + g
<1>0. /\ rows \in [Targets -> [1..Statements -> Nat]]
      /\ adrift \in [Targets -> [1..Statements -> Nat]]
      /\ left \in [Targets -> [1..Statements -> Nat]]
  BY TypeFacts
<1> DEFINE Gone(t, i) ==
              IF \E p \in ps : p.inserting /\ p.target = t /\ p.at = i
              THEN 1 ELSE 0
<1>1. /\ adrift' = [t \in Targets |-> [i \in 1..Statements |->
                                          adrift[t][i] + Gone(t, i)]]
      /\ left' = [t \in Targets |-> [i \in 1..Statements |->
                                        left[t][i] + Gone(t, i)]]
  BY DEF Abandon
<1>2. \A t \in Targets : \A i \in 1..Statements : Gone(t, i) \in {0, 1}
  OBVIOUS
<1> HIDE DEF Gone
<1>3. ASSUME NEW t \in Targets, NEW i \in 1..Statements
      PROVE  /\ adrift[t][i] + Gone(t, i) \in Nat
             /\ left[t][i] + Gone(t, i) \in Nat
  <2>1. adrift[t][i] \in Nat /\ left[t][i] \in Nat
    BY <1>0
  <2>2. CASE Gone(t, i) = 0
    BY <2>1, <2>2
  <2>3. CASE Gone(t, i) = 1
    BY <2>1, <2>3
  <2> QED
    BY <1>2, <2>2, <2>3
<1> QED
  BY <1>1, <1>2, <1>3

\* Trino ends an abandoned INSERT: its table gets rows, or nothing happens.
LEMMA EndEffect ==
    ASSUME TypeInv, EndQuery
    PROVE  \E t \in Targets, i \in 1..Statements :
              /\ rows' \in [Targets -> [1..Statements -> Nat]]
              /\ adrift' \in [Targets -> [1..Statements -> Nat]]
              /\ adrift[t][i] > 0 /\ adrift'[t][i] = adrift[t][i] - 1
              /\ rows'[t][i] \in
                    {rows[t][i], IF kind = "seed" THEN rows[t][i] + 1 ELSE 1}
              /\ \A u \in Targets : \A k \in 1..Statements :
                    t # u \/ i # k => /\ rows'[u][k] = rows[u][k]
                                     /\ adrift'[u][k] = adrift[u][k]
<1>0. /\ rows \in [Targets -> [1..Statements -> Nat]]
      /\ adrift \in [Targets -> [1..Statements -> Nat]]
      /\ left \in [Targets -> [1..Statements -> Nat]]
  BY TypeFacts
<1>1. PICK t \in Targets, i \in 1..Statements :
         /\ adrift[t][i] > 0
         /\ adrift' = [adrift EXCEPT ![t][i] = @ - 1]
         /\ \/ rows' = [rows EXCEPT ![t][i] =
                           IF kind = "seed" THEN @ + 1 ELSE 1]
            \/ UNCHANGED rows
  BY DEF EndQuery
<1>2. adrift[t][i] \in Nat /\ rows[t][i] \in Nat
  BY <1>0
<1> DEFINE a == adrift[t][i] - 1
           n == IF kind = "seed" THEN rows[t][i] + 1 ELSE 1
<1>3. a \in Nat /\ n \in Nat
  <2>1. \A k \in Nat : k > 0 => k - 1 \in Nat
    OBVIOUS
  <2>2. a \in Nat
    BY <1>1, <1>2, <2>1
  <2>3. n \in Nat
    BY <1>2
  <2> QED
    BY <2>2, <2>3
<1>4. adrift' = [adrift EXCEPT ![t] = [adrift[t] EXCEPT ![i] = a]]
  BY <1>1
<1> HIDE DEF a, n
<1>5. [adrift[t] EXCEPT ![i] = a] \in [1..Statements -> Nat]
  BY <1>0, <1>3
<1>6. /\ adrift' \in [Targets -> [1..Statements -> Nat]]
      /\ adrift'[t][i] = a
      /\ \A u \in Targets : \A k \in 1..Statements :
            t # u \/ i # k => adrift'[u][k] = adrift[u][k]
  BY <1>0, <1>3, <1>4, <1>5
<1>7. /\ rows' \in [Targets -> [1..Statements -> Nat]]
      /\ rows'[t][i] \in {rows[t][i], n}
      /\ \A u \in Targets : \A k \in 1..Statements :
            t # u \/ i # k => rows'[u][k] = rows[u][k]
  <2>1. CASE UNCHANGED rows
    BY <1>0, <2>1
  <2>2. CASE rows' # rows
    <3>1. rows' = [rows EXCEPT ![t] = [rows[t] EXCEPT ![i] = n]]
      BY <1>1, <2>2 DEF n
    <3>2. [rows[t] EXCEPT ![i] = n] \in [1..Statements -> Nat]
      BY <1>0, <1>3
    <3> QED
      BY <1>0, <1>3, <3>1, <3>2
  <2> QED
    BY <2>1, <2>2
<1>8. /\ adrift'[t][i] = adrift[t][i] - 1
      /\ rows'[t][i] \in
            {rows[t][i], IF kind = "seed" THEN rows[t][i] + 1 ELSE 1}
  BY <1>6, <1>7 DEF a, n
<1>9. adrift[t][i] > 0
  BY <1>1
<1>10. \A u \in Targets : \A k \in 1..Statements :
          t # u \/ i # k => /\ rows'[u][k] = rows[u][k]
                           /\ adrift'[u][k] = adrift[u][k]
  BY <1>6, <1>7
<1>11. /\ rows' \in [Targets -> [1..Statements -> Nat]]
       /\ adrift' \in [Targets -> [1..Statements -> Nat]]
  BY <1>6, <1>7
<1> QED
  BY <1>8, <1>9, <1>10, <1>11

\* Every step of handler, container, cluster and user keeps the types.
LEMMA TypeStep == TypeInv /\ [Next]_vars => TypeInv'
<1> SUFFICES ASSUME TypeInv, [Next]_vars PROVE TypeInv'
  OBVIOUS
<1> USE TypeFacts
<1>1. CASE Begin
  <2>1. UNCHANGED <<kind, want, edits, job, cached, events, made, pods, rows,
                    adrift, left, ready, faults, manual>>
    BY <1>1 DEF Begin, spec, cluster, budget
  <2>2. /\ pc' = "examine" /\ req' = want
        /\ cm' \in {want, cm}
    BY <1>1 DEF Begin
  <2> QED
    BY <2>1, <2>2, PodsKept, TypeParts
<1>2. CASE Examine
  <2>1. UNCHANGED <<kind, want, edits, cm, job, cached, events, made, pods,
                    rows, adrift, left, req, faults, manual>>
    BY <1>2 DEF Examine, spec, cluster, budget
  <2>2. /\ pc = "examine" /\ pc' \in {"idle", "create", "delete"}
        /\ ready' \in {ready, req, None}
    BY <1>2 DEF Examine
  <2> QED
    BY <2>1, <2>2, PodsKept, TypeParts
<1>3. CASE DeleteJob
  <2>1. UNCHANGED <<kind, want, edits, cm, cached, made, pods, rows, adrift,
                    left, req, faults, manual>>
    BY <1>3 DEF DeleteJob, spec, budget
  <2>2. pc' = "idle" /\ ready' = None
    BY <1>3 DEF DeleteJob
  <2>3. job' \in Version /\ events' \in Seq(Version)
    BY <1>3, MarkEffect, StoreTypes DEF DeleteJob, Version
  <2> QED
    BY <2>1, <2>2, <2>3, PodsKept, TypeParts
<1>4. CASE CreateJob
  <2>1. UNCHANGED <<kind, want, edits, cm, cached, rows, adrift, left, req,
                    faults, manual>>
    BY <1>4 DEF CreateJob, spec, budget
  <2>2. pc = "create" /\ pc' = "idle" /\ ready' = None
    BY <1>4 DEF CreateJob
  <2>3. CASE UNCHANGED <<job, events, made, pods>>
    BY <2>1, <2>2, <2>3, PodsKept, TypeParts
  <2>4. CASE ~UNCHANGED <<job, events, made, pods>>
    <3>1. PICK v \in JobType, q \in PodType :
             /\ Store(v) /\ made' = made + 1
             /\ pods' = pods \cup {q}
             /\ q.job = made + 1 /\ q.at = 0 /\ ~q.inserting
      BY <1>4, <2>4, CreateEffect
    <3>2. job' \in Version /\ events' \in Seq(Version) /\ made' \in Nat
      BY <3>1, StoreTypes DEF Version
    <3>3. Statements' = Statements /\ PodType' = PodType
      BY <2>1 DEF Statements, PodType
    <3>4. q.job # 0
      BY <3>1
    <3>5. /\ (pods \subseteq PodType)'
          /\ (\A r \in pods : r.at # 0 => r.target # None)'
          /\ PodsSound'
      BY <3>1, <3>3, <3>4 DEF PodsSound
    <3> QED
      BY <2>1, <2>2, <3>2, <3>5, TypeParts
  <2> QED
    BY <2>3, <2>4
<1>5. CASE Abort
  <2>1. UNCHANGED <<kind, want, edits, cm, job, cached, events, made, pods,
                    rows, adrift, left, req, manual>>
    BY <1>5 DEF Abort, Fault, spec, cluster
  <2>2. /\ pc' = "idle" /\ ready' \in {ready, None}
        /\ faults < MaxFaults /\ faults' = faults + 1
    BY <1>5 DEF Abort, Fault
  <2>3. faults' \in 0..MaxFaults
    BY <2>2, JobBounds
  <2> QED
    BY <2>1, <2>2, <2>3, PodsKept, TypeParts
<1>6. CASE Sync
  <2>1. UNCHANGED <<kind, want, edits, cm, job, made, pods, rows, adrift,
                    left, pc, req, ready, faults, manual>>
    BY <1>6 DEF Sync, spec, operator, budget
  <2>2. cached' \in Version /\ events' \in Seq(Version)
    <3>1. events \in Seq(Version) /\ events # <<>>
      BY <1>6 DEF Sync
    <3> QED
      BY <1>6, <3>1, HeadTailProperties DEF Sync
  <2> QED
    BY <2>1, <2>2, PodsKept, TypeParts
<1>7. CASE StartPod
  <2>1. UNCHANGED <<kind, want, edits, cm, job, cached, events, made, rows,
                    adrift, left, pc, req, ready, faults, manual>>
    BY <1>7 DEF StartPod, spec, cluster, operator, budget
  <2>2. PICK p \in pods, q \in PodType :
           /\ Moved(p, q) /\ q.at = 1
           /\ q.inserting = p.inserting /\ q.target \in Targets
    BY <1>7, StartEffect
  <2>3. 1 \in 1..Statements
    BY StatementsNat
  <2>4. /\ (pods \subseteq PodType)'
        /\ (\A r \in pods : r.at # 0 => r.target # None)'
        /\ PodsSound'
    BY <2>1, <2>2, <2>3, PodReplaced, TargetsAssumption DEF Moved
  <2> QED
    BY <2>1, <2>4, TypeParts
<1>8. CASE RunStatement
  <2>1. UNCHANGED <<kind, want, edits, cm, job, cached, events, made, rows,
                    adrift, left, pc, req, ready, faults, manual>>
    BY <1>8 DEF RunStatement, spec, cluster, operator, budget
  <2>2. PICK p \in pods, q \in PodType :
           /\ Moved(p, q) /\ q.target = p.target /\ p.target \in Targets
           /\ q.inserting => q.at \in 1..Statements
    BY <1>8, StatementEffect
  <2>3. /\ (pods \subseteq PodType)'
        /\ (\A r \in pods : r.at # 0 => r.target # None)'
        /\ PodsSound'
    BY <2>1, <2>2, PodReplaced, TargetsAssumption DEF Moved
  <2> QED
    BY <2>1, <2>3, TypeParts
<1>9. CASE Commit
  <2>1. UNCHANGED <<kind, want, edits, cm, job, cached, events, made, adrift,
                    left, pc, req, ready>>
    BY <1>9 DEF Commit, spec, cluster, operator
  <2>2. PICK p \in pods, q \in PodType :
           /\ Moved(p, q) /\ q.target = p.target /\ p.target \in Targets
           /\ ~q.inserting
           /\ rows' \in [Targets -> [1..Statements -> Nat]]
    BY <1>9, CommitEffect
  <2>3. /\ (pods \subseteq PodType)'
        /\ (\A r \in pods : r.at # 0 => r.target # None)'
        /\ PodsSound'
    BY <2>1, <2>2, PodReplaced, TargetsAssumption DEF Moved
  <2>4. faults' \in 0..MaxFaults /\ manual' = manual
    BY <1>9, JobBounds DEF Commit, budget, Fault
  <2> QED
    BY <2>1, <2>2, <2>3, <2>4, TypeParts
<1>10. CASE RestartPod
  <2>1. UNCHANGED <<kind, want, edits, cm, job, cached, events, made, rows, pc,
                    req, ready, manual>>
    BY <1>10 DEF RestartPod, Fault, spec, cluster, operator
  <2>2. PICK p \in pods, q \in PodType :
           Moved(p, q) /\ q.at = 0 /\ ~q.inserting
    BY <1>10, RestartEffect
  <2>3. /\ (pods \subseteq PodType)'
        /\ (\A r \in pods : r.at # 0 => r.target # None)'
        /\ PodsSound'
    BY <2>1, <2>2, PodReplaced DEF Moved
  <2>4. faults' \in 0..MaxFaults
    BY <1>10, JobBounds DEF RestartPod, Fault
  <2>5. /\ adrift' \in [Targets -> [1..Statements -> Nat]]
        /\ left' \in [Targets -> [1..Statements -> Nat]]
    BY <1>10, AbandonEffect DEF RestartPod
  <2> QED
    BY <2>1, <2>3, <2>4, <2>5, TypeParts
<1>11. CASE FinishPod
  <2>1. UNCHANGED <<kind, want, edits, cm, cached, made, rows, adrift, left,
                    pc, req, ready, faults, manual>>
    BY <1>11 DEF FinishPod, spec, operator, budget
  <2>2. pods' \subseteq pods
    BY <1>11 DEF FinishPod
  <2>3. job' \in Version /\ events' \in Seq(Version)
    BY <1>11, FinishEffect, StoreTypes DEF Version
  <2> QED
    BY <2>1, <2>2, <2>3, PodsKept, TypeParts
<1>12. CASE FailJob
  <2>1. UNCHANGED <<kind, want, edits, cm, cached, made, rows, pc, req, ready,
                    manual>>
    BY <1>12 DEF FailJob, Fault, spec, operator
  <2>2. pods' \subseteq pods
    BY <1>12 DEF FailJob
  <2>3. job' \in Version /\ events' \in Seq(Version)
    BY <1>12, FailEffect, StoreTypes DEF Version
  <2>4. faults' \in 0..MaxFaults
    BY <1>12, JobBounds DEF FailJob, Fault
  <2>5. /\ adrift' \in [Targets -> [1..Statements -> Nat]]
        /\ left' \in [Targets -> [1..Statements -> Nat]]
    BY <1>12, AbandonEffect DEF FailJob
  <2> QED
    BY <2>1, <2>2, <2>3, <2>4, <2>5, PodsKept, TypeParts
<1>13. CASE RemoveJob
  <2>1. UNCHANGED <<kind, want, edits, cm, cached, made, rows, pc, req, ready,
                    faults, manual>>
    BY <1>13 DEF RemoveJob, spec, operator, budget
  <2>2. pods' \subseteq pods
    BY <1>13 DEF RemoveJob
  <2>3. job' \in Version /\ events' \in Seq(Version)
    BY <1>13, StoreTypes DEF Version, RemoveJob
  <2>4. /\ adrift' \in [Targets -> [1..Statements -> Nat]]
        /\ left' \in [Targets -> [1..Statements -> Nat]]
    BY <1>13, AbandonEffect DEF RemoveJob
  <2> QED
    BY <2>1, <2>2, <2>3, <2>4, PodsKept, TypeParts
<1>14. CASE DeleteByHand
  <2>1. UNCHANGED <<kind, want, edits, cm, cached, made, pods, rows, adrift,
                    left, pc, req, ready>>
    BY <1>14 DEF DeleteByHand, spec, operator
  <2>2. job' \in Version /\ events' \in Seq(Version)
    BY <1>14, MarkEffect, StoreTypes DEF Version, DeleteByHand
  <2>3. faults' \in 0..MaxFaults /\ manual' \in BOOLEAN
    BY <1>14, JobBounds DEF DeleteByHand
  <2> QED
    BY <2>1, <2>2, <2>3, PodsKept, TypeParts
<1>15. CASE EditTarget
  <2>1. UNCHANGED <<kind, cm, job, cached, events, made, pods, rows, adrift,
                    left, pc, req, ready, faults, manual>>
    BY <1>15 DEF EditTarget, cluster, operator, budget
  <2>2. want' \in Targets /\ edits' \in 0..MaxEdits
    BY <1>15, JobBounds DEF EditTarget
  <2> QED
    BY <2>1, <2>2, PodsKept, TypeParts
<1>16. CASE EndQuery
  <2>1. UNCHANGED <<kind, want, edits, cm, job, cached, events, made, pods,
                    left, pc, req, ready, faults, manual>>
    BY <1>16 DEF EndQuery, spec, cluster, operator, budget
  <2>2. /\ rows' \in [Targets -> [1..Statements -> Nat]]
        /\ adrift' \in [Targets -> [1..Statements -> Nat]]
    BY <1>16, EndEffect
  <2> QED
    BY <2>1, <2>2, PodsKept, TypeParts
<1>17. CASE UNCHANGED vars
  BY <1>17, PodsKept, TypeParts DEF vars
<1> QED
  BY <1>1, <1>2, <1>3, <1>4, <1>5, <1>6, <1>7, <1>8, <1>9, <1>10, <1>11,
     <1>12, <1>13, <1>14, <1>15, <1>16, <1>17 DEF Next, Handle, RunPod

\* Every state of a Job's life has the shape TypeOK says, for both Jobs, all
\* sets of targets and all bounds.
THEOREM TypesHold == Spec => []TypeOK
<1>1. TypeInv => TypeOK
  BY DEF TypeInv
<1> QED
  BY <1>1, TypeInit, TypeStep, PTL DEF Spec

-----------------------------------------------------------------------------
(***************************************************************************)
(* A condition that is True stands on work that was done.                  *)
(***************************************************************************)

\* The cache gets to know only what the API server stores.
LEMMA KnownStore ==
    ASSUME TypeInv, NEW w \in Version, Store(w), cached' = cached,
           NEW v, Known(v)'
    PROVE  Known(v) \/ v = w
<1>1. events \in Seq(Version)
  BY TypeFacts
<1>2. /\ Len(events') = Len(events) + 1
      /\ \A i \in 1..Len(events) : events'[i] = events[i]
      /\ events'[Len(events) + 1] = w
  BY <1>1, AppendProperties DEF Store
<1>3. CASE v = job' \/ v = cached'
  BY <1>3 DEF Known, Store
<1>4. CASE \E i \in 1..Len(events') : v = events'[i]
  <2>1. PICK i \in 1..Len(events') : v = events'[i]
    BY <1>4
  <2>2. Len(events) \in Nat
    BY <1>1, LenProperties
  <2>3. i \in 1..Len(events) \/ i = Len(events) + 1
    BY <1>2, <2>2
  <2> QED
    BY <1>2, <2>1, <2>3 DEF Known
<1> QED
  BY <1>3, <1>4 DEF Known

\* The informer learns of no version of the Job that was not under way.
LEMMA KnownSync ==
    ASSUME TypeInv, Sync, NEW v, Known(v)'
    PROVE  Known(v)
<1>1. events \in Seq(Version) /\ events # <<>> /\ job' = job
  BY TypeFacts DEF Sync
<1>2. /\ Len(events) \in Nat /\ Len(events) >= 1
      /\ Len(events') = Len(events) - 1
      /\ cached' = events[1]
      /\ \A i \in 1..Len(events') : events'[i] = events[i + 1]
  BY <1>1, HeadTailProperties, LenProperties, EmptySeq DEF Sync
<1>3. CASE v = job' \/ v = cached'
  <2>1. 1 \in 1..Len(events)
    BY <1>2
  <2> QED
    BY <1>1, <1>2, <1>3, <2>1 DEF Known
<1>4. CASE \E i \in 1..Len(events') : v = events'[i]
  <2>1. PICK i \in 1..Len(events') : v = events'[i]
    BY <1>4
  <2>2. i + 1 \in 1..Len(events)
    BY <1>2
  <2> QED
    BY <1>2, <2>1, <2>2 DEF Known
<1> QED
  BY <1>3, <1>4 DEF Known

\* Without a write or an event no version becomes known.
LEMMA KnownSame ==
    ASSUME UNCHANGED <<job, cached, events>>, NEW v, Known(v)'
    PROVE  Known(v)
BY DEF Known

\* What is filled stays so while rows only come in.
LEMMA DoneStays ==
    ASSUME TypeInv, Done, kind' = kind,
           rows' \in [Targets -> [1..Statements -> Nat]],
           \A t \in Targets : \A i \in 1..Statements :
               rows[t][i] > 0 => rows'[t][i] > 0,
           \/ edits' = edits /\ want' = want
           \/ edits' # 0
    PROVE  Done'
<1>1. Statements' = Statements /\ want \in Targets
  BY TypeFacts DEF Statements
<1>2. \A t \in Targets : Filled(t) => Filled(t)'
  BY <1>1 DEF Filled
<1> QED
  BY <1>1, <1>2 DEF Done

\* Nothing has run, so nothing is claimed.
LEMMA WorkInit == Init => WorkInv
<1> SUFFICES ASSUME Init PROVE WorkInv
  OBVIOUS
<1>1. \A v \in Version : Known(v) => v = job
  BY DEF Init, Known
<1>2. job = NoJob \/ (job.state = "running" /\ job.target = want)
  BY DEF Init
<1>3. Worked
  BY <1>1, <1>2, NoJobFields DEF Worked
<1>4. \A v \in JobType : Known(v) => v.target = want
  BY <1>1, <1>2, NoJobFields DEF Version
<1> QED
  BY <1>3, <1>4 DEF Init, WorkInv, Ran, OneTarget, ReadyAfterWork

\* Rows only come in, and an edit is counted.
Grows ==
    /\ kind' = kind
    /\ rows' \in [Targets -> [1..Statements -> Nat]]
    /\ \A t \in Targets : \A i \in 1..Statements :
          rows[t][i] > 0 => rows'[t][i] > 0
    /\ \/ edits' = edits /\ want' = want
       \/ edits' # 0

\* A step that writes neither spec nor tables is one of those that only add.
LEMMA GrowsSame ==
    ASSUME TypeInv, UNCHANGED <<kind, want, edits, rows>>
    PROVE  Grows
BY TypeFacts DEF Grows

\* Trino only adds rows when it ends a query.
LEMMA EndGrows ==
    ASSUME TypeInv, EndQuery, UNCHANGED <<kind, want, edits>>
    PROVE  Grows
<1>1. PICK t \in Targets, i \in 1..Statements :
         /\ rows' \in [Targets -> [1..Statements -> Nat]]
         /\ rows'[t][i] \in
               {rows[t][i], IF kind = "seed" THEN rows[t][i] + 1 ELSE 1}
         /\ \A u \in Targets : \A k \in 1..Statements :
               t # u \/ i # k => rows'[u][k] = rows[u][k]
  BY EndEffect
<1>2. rows[t][i] \in Nat
  BY TypeFacts
<1>3. rows[t][i] > 0 => rows'[t][i] > 0
  <2>1. CASE rows'[t][i] = rows[t][i]
    BY <2>1
  <2>2. CASE rows'[t][i] = 1
    BY <2>2
  <2>3. CASE rows'[t][i] = rows[t][i] + 1
    BY <1>2, <2>3
  <2> QED
    BY <1>1, <2>1, <2>2, <2>3
<1> QED
  BY <1>1, <1>3 DEF Grows

\* What has to be shown of a step.
LEMMA WorkParts ==
    ASSUME TypeInv, WorkInv, Grows, Ran',
           \A v \in Version : Known(v)' =>
               Known(v) \/ v.state # "succeeded" \/ Done',
           edits' = 0 =>
               /\ cm' \in {None, want} /\ req' \in {None, want}
               /\ ready' \in {None, want}
               /\ \A v \in JobType : Known(v)' => Known(v) \/ v.target = want
               /\ \A p \in pods' : p.of = want /\ p.target \in {None, want},
           ready' = ready \/ ready' = None \/ Done
    PROVE  WorkInv'
<1>1. Done => Done'
  BY DoneStays DEF Grows
<1>2. Worked'
  BY <1>1 DEF WorkInv, Worked
<1>3. OneTarget'
  <2>1. edits' = 0 => edits = 0 /\ want' = want
    BY DEF Grows
  <2> QED
    BY <2>1 DEF WorkInv, OneTarget
<1>4. ReadyAfterWork'
  <2>1. Statements' = Statements
    BY DEF Grows, Statements
  <2>2. \A t \in Targets : Filled(t) => Filled(t)'
    BY <2>1 DEF Filled, Grows
  <2>3. CASE ready' = None
    BY <2>3 DEF ReadyAfterWork
  <2>4. CASE ready' = ready /\ ready # None
    <3>1. ready \in Targets
      BY <2>4, TypeFacts
    <3>2. /\ \E t \in Targets : Filled(t)
          /\ edits = 0 => Filled(ready)
      BY <2>4 DEF WorkInv, ReadyAfterWork
    <3>3. edits' = 0 => edits = 0
      BY DEF Grows
    <3> QED
      BY <2>2, <2>4, <3>1, <3>2, <3>3 DEF ReadyAfterWork
  <2>5. CASE Done /\ ready' # None
    <3>1. edits' = 0 => ready' = want /\ want' = want
      BY <2>5 DEF Grows
    <3> QED
      BY <1>1, <2>5, <3>1 DEF ReadyAfterWork, Done
  <2> QED
    BY <2>3, <2>4, <2>5
<1> QED
  BY <1>2, <1>3, <1>4 DEF WorkInv

\* A container has run what it has passed.
LEMMA RanMoved ==
    ASSUME TypeInv, Ran, Grows, NEW p \in pods, NEW q \in PodType, Moved(p, q),
           \A i \in 1..Statements : i < q.at => rows'[q.target][i] > 0
    PROVE  Ran'
<1>1. Statements' = Statements
  BY DEF Grows, Statements
<1> SUFFICES ASSUME NEW r \in pods', NEW i \in 1..Statements, i < r.at
             PROVE  rows'[r.target][i] > 0
  BY <1>1 DEF Ran
<1>2. CASE r = q
  BY <1>2
<1>3. CASE r # q
  <2>1. r \in pods
    BY <1>3 DEF Moved
  <2>2. rows[r.target][i] > 0
    BY <2>1 DEF Ran
  <2>3. r \in PodType /\ r.at # 0
    BY <2>1, TypeFacts, PodFields, StatementsNat
  <2>4. r.target \in Targets
    BY <2>1, <2>3, TypeFacts, PodFields
  <2> QED
    BY <2>2, <2>4 DEF Grows
<1> QED
  BY <1>2, <1>3

\* Pods that end or are made leave behind containers that ran everything before
\* the statement they are at.
LEMMA RanKept ==
    ASSUME TypeInv, Ran, UNCHANGED <<kind, rows>>,
           \A p \in pods' : p \in pods \/ p.at = 0
    PROVE  Ran'
<1>1. Statements' = Statements
  BY DEF Statements
<1>2. \A i \in 1..Statements : ~(i < 0)
  BY StatementsNat
<1> QED
  BY <1>1, <1>2 DEF Ran

\* The pods stay with the one target.
LEMMA TargetMoved ==
    ASSUME OneTarget, NEW p \in pods, NEW q, Moved(p, q), edits = 0,
           q.target \in {None, want}
    PROVE  \A r \in pods' : r.of = want /\ r.target \in {None, want}
BY DEF OneTarget, Moved

\* A Job is stored as succeeded only by the container that ran all statements,
\* and the handler claims only what the cache shows as succeeded.
LEMMA WorkStep == TypeInv /\ WorkInv /\ [Next]_vars => WorkInv'
<1> SUFFICES ASSUME TypeInv, WorkInv, [Next]_vars PROVE WorkInv'
  OBVIOUS
<1> USE TypeFacts
<1>0. Ran /\ Worked /\ OneTarget /\ ReadyAfterWork
  BY DEF WorkInv
<1>1. CASE Begin
  <2>1. UNCHANGED <<kind, want, edits, job, cached, events, pods, rows, ready>>
    BY <1>1 DEF Begin, spec, cluster
  <2>2. req' = want /\ cm' \in {want, cm}
    BY <1>1 DEF Begin
  <2>3. Ran'
    BY <1>0, <2>1, RanKept
  <2>4. \A v : Known(v)' => Known(v)
    BY <2>1, KnownSame
  <2> QED
    BY <1>0, <2>1, <2>2, <2>3, <2>4, GrowsSame, WorkParts DEF OneTarget
<1>2. CASE Examine
  <2>1. UNCHANGED <<kind, want, edits, cm, job, cached, events, pods, rows,
                    req>>
    BY <1>2 DEF Examine, spec, cluster
  <2>2. Ran'
    BY <1>0, <2>1, RanKept
  <2>3. \A v : Known(v)' => Known(v)
    BY <2>1, KnownSame
  <2>4. ready' \in {ready, None} \/ (JobSucceeded(cached) /\ ready' = req)
    BY <1>2 DEF Examine
  <2>5. JobSucceeded(cached) => Done
    <3>1. Known(cached)
      BY DEF Known
    <3> QED
      BY <1>0, <3>1 DEF Worked, JobSucceeded
  <2> QED
    BY <1>0, <2>1, <2>2, <2>3, <2>4, <2>5, GrowsSame, WorkParts DEF OneTarget
<1>3. CASE DeleteJob
  <2>1. UNCHANGED <<kind, want, edits, cm, cached, pods, rows, req>>
    BY <1>3 DEF DeleteJob, spec
  <2>2. ready' = None
    BY <1>3 DEF DeleteJob
  <2>3. Ran'
    BY <1>0, <2>1, RanKept
  <2>4. CASE UNCHANGED <<job, events>>
    <3>1. \A v : Known(v)' => Known(v)
      BY <2>1, <2>4, KnownSame
    <3> QED
      BY <1>0, <2>1, <2>2, <2>3, <3>1, GrowsSame, WorkParts DEF OneTarget
  <2>5. CASE job # NoJob /\ Store([job EXCEPT !.deleting = TRUE])
    <3>1. PICK w \in JobType : Store(w) /\ Marked(job, w)
      BY <2>5, MarkEffect
    <3>2. \A v : Known(v)' => Known(v) \/ v = w
      BY <2>1, <3>1, KnownStore DEF Version
    <3>3. w.state = job.state /\ w.target = job.target
      BY <3>1 DEF Marked
    <3>4. Known(job) /\ job \in JobType
      BY <2>5 DEF Known, Version
    <3>5. w.state = "succeeded" => Done'
      BY <1>0, <2>1, <3>3, <3>4, GrowsSame, DoneStays DEF Worked, Grows
    <3>6. edits = 0 => w.target = want
      BY <1>0, <3>3, <3>4 DEF OneTarget
    <3> QED
      BY <1>0, <2>1, <2>2, <2>3, <3>2, <3>5, <3>6, GrowsSame, WorkParts
      DEF OneTarget
  <2> QED
    BY <1>3, <2>4, <2>5 DEF DeleteJob
<1>4. CASE CreateJob
  <2>1. UNCHANGED <<kind, want, edits, cm, cached, rows, req>>
    BY <1>4 DEF CreateJob, spec
  <2>2. pc = "create" /\ ready' = None
    BY <1>4 DEF CreateJob
  <2>3. CASE UNCHANGED <<job, events, made, pods>>
    <3>1. \A v : Known(v)' => Known(v)
      BY <2>1, <2>3, KnownSame
    <3>2. Ran'
      BY <1>0, <2>1, <2>3, RanKept
    <3> QED
      BY <1>0, <2>1, <2>2, <2>3, <3>1, <3>2, GrowsSame, WorkParts
      DEF OneTarget
  <2>4. CASE ~UNCHANGED <<job, events, made, pods>>
    <3>1. PICK w \in JobType, q \in PodType :
             /\ Store(w) /\ w.target = req /\ w.state = "running"
             /\ pods' = pods \cup {q}
             /\ q.of = req /\ q.target = None /\ q.at = 0
      BY <1>4, <2>4, CreateEffect
    <3>2. \A v : Known(v)' => Known(v) \/ v = w
      BY <2>1, <3>1, KnownStore DEF Version
    <3>3. edits = 0 => req = want
      BY <1>0, <2>2, TargetsAssumption DEF OneTarget
    <3>4. Ran'
      BY <1>0, <2>1, <3>1, RanKept
    <3> QED
      BY <1>0, <2>1, <2>2, <3>1, <3>2, <3>3, <3>4, GrowsSame, WorkParts
      DEF OneTarget
  <2> QED
    BY <2>3, <2>4
<1>5. CASE Abort
  <2>1. UNCHANGED <<kind, want, edits, cm, job, cached, events, pods, rows,
                    req>>
    BY <1>5 DEF Abort, spec, cluster
  <2>2. ready' \in {ready, None}
    BY <1>5 DEF Abort
  <2>3. Ran'
    BY <1>0, <2>1, RanKept
  <2>4. \A v : Known(v)' => Known(v)
    BY <2>1, KnownSame
  <2> QED
    BY <1>0, <2>1, <2>2, <2>3, <2>4, GrowsSame, WorkParts DEF OneTarget
<1>6. CASE Sync
  <2>1. UNCHANGED <<kind, want, edits, cm, pods, rows, req, ready>>
    BY <1>6 DEF Sync, spec, operator
  <2>2. Ran'
    BY <1>0, <2>1, RanKept
  <2>3. \A v : Known(v)' => Known(v)
    BY <1>6, KnownSync
  <2> QED
    BY <1>0, <2>1, <2>2, <2>3, GrowsSame, WorkParts DEF OneTarget
<1>7. CASE StartPod
  <2>1. UNCHANGED <<kind, want, edits, cm, job, cached, events, rows, req,
                    ready>>
    BY <1>7 DEF StartPod, spec, cluster, operator
  <2>2. PICK p \in pods, q \in PodType :
           /\ Moved(p, q) /\ q.at = 1 /\ q.target \in Targets
           /\ q.target \in (IF kind = "seed" THEN {cm, p.target}
                                             ELSE {p.of})
    BY <1>7, StartEffect
  <2>3. \A v : Known(v)' => Known(v)
    BY <2>1, KnownSame
  <2>4. Ran'
    <3>1. \A i \in 1..Statements : ~(i < q.at)
      BY <2>2, StatementsNat
    <3> QED
      BY <1>0, <2>1, <2>2, <3>1, GrowsSame, RanMoved
  <2>5. edits = 0 => q.target \in {None, want}
    BY <1>0, <2>2 DEF OneTarget
  <2>6. edits = 0 => \A r \in pods' : r.of = want /\ r.target \in {None, want}
    BY <1>0, <2>2, <2>5, TargetMoved
  <2> QED
    BY <1>0, <2>1, <2>3, <2>4, <2>6, GrowsSame, WorkParts DEF OneTarget
<1>8. CASE RunStatement
  <2>1. UNCHANGED <<kind, want, edits, cm, job, cached, events, rows, req,
                    ready>>
    BY <1>8 DEF RunStatement, spec, cluster, operator
  <2>2. PICK p \in pods, q \in PodType :
           /\ Moved(p, q) /\ q.target = p.target
           /\ p.at \in 1..Statements /\ p.target \in Targets
           /\ q.at = p.at \/ (rows[p.target][p.at] # 0 /\ q.at = p.at + 1)
    BY <1>8, StatementEffect
  <2>3. \A v : Known(v)' => Known(v)
    BY <2>1, KnownSame
  <2>4. Ran'
    <3>1. ASSUME NEW i \in 1..Statements, i < q.at
          PROVE  rows[p.target][i] > 0
      <4>1. i < p.at \/ (i = p.at /\ rows[p.target][p.at] # 0)
        BY <2>2, <3>1
      <4>2. rows[p.target][i] \in Nat
        BY <2>2
      <4> QED
        BY <1>0, <4>1, <4>2 DEF Ran
    <3> QED
      BY <1>0, <2>1, <2>2, <3>1, GrowsSame, RanMoved
  <2>5. edits = 0 => \A r \in pods' : r.of = want /\ r.target \in {None, want}
    BY <1>0, <2>2, TargetMoved DEF OneTarget
  <2> QED
    BY <1>0, <2>1, <2>3, <2>4, <2>5, GrowsSame, WorkParts DEF OneTarget
<1>9. CASE Commit
  <2>1. UNCHANGED <<kind, want, edits, cm, job, cached, events, req, ready>>
    BY <1>9 DEF Commit, spec, cluster, operator
  <2>2. PICK p \in pods, q \in PodType :
           /\ Moved(p, q) /\ q.target = p.target
           /\ p.at \in 1..Statements /\ p.target \in Targets
           /\ q.at \in {0, p.at + 1}
           /\ rows' \in [Targets -> [1..Statements -> Nat]]
           /\ rows'[p.target][p.at] =
                 IF kind = "seed" THEN rows[p.target][p.at] + 1 ELSE 1
           /\ \A t \in Targets : \A i \in 1..Statements :
                 t # p.target \/ i # p.at => rows'[t][i] = rows[t][i]
    BY <1>9, CommitEffect
  <2>3. rows'[p.target][p.at] > 0
    <3>1. rows[p.target][p.at] \in Nat
      BY <2>2, ZenonT(30)
    <3>2. \/ rows'[p.target][p.at] = rows[p.target][p.at] + 1
          \/ rows'[p.target][p.at] = 1
      BY <2>2
    <3> QED
      BY <3>1, <3>2, SMTT(30)
  <2>4. Grows
    <3>1. ASSUME NEW t \in Targets, NEW i \in 1..Statements, rows[t][i] > 0
          PROVE  rows'[t][i] > 0
      BY <2>2, <2>3, <3>1
    <3> QED
      BY <2>1, <2>2, <3>1 DEF Grows
  <2>5. \A v : Known(v)' => Known(v)
    BY <2>1, KnownSame
  <2>6. Ran'
    <3>1. ASSUME NEW i \in 1..Statements, i < q.at
          PROVE  rows'[p.target][i] > 0
      <4>0. i \in Nat /\ p.at \in Nat /\ (q.at = 0 \/ q.at = p.at + 1)
        <5>1. Statements \in {1, 2}
          BY DEF Statements
        <5> QED
          BY <2>2, <5>1, SMTT(30)
      <4>1. i < p.at \/ i = p.at
        BY <3>1, <4>0
      <4>2. CASE i = p.at
        BY <2>3, <4>2
      <4>3. CASE i < p.at
        <5>1. rows[p.target][i] > 0
          BY <1>0, <4>3 DEF Ran
        <5> QED
          BY <2>2, <2>4, <5>1 DEF Grows
      <4> QED
        BY <4>1, <4>2, <4>3
    <3> QED
      BY <1>0, <2>2, <2>4, <3>1, RanMoved
  <2>7. edits = 0 => \A r \in pods' : r.of = want /\ r.target \in {None, want}
    BY <1>0, <2>2, TargetMoved DEF OneTarget
  <2> QED
    BY <1>0, <2>1, <2>4, <2>5, <2>6, <2>7, WorkParts DEF OneTarget
<1>10. CASE RestartPod
  <2>1. UNCHANGED <<kind, want, edits, cm, job, cached, events, rows, req,
                    ready>>
    BY <1>10 DEF RestartPod, spec, cluster, operator
  <2>2. PICK p \in pods, q \in PodType :
           Moved(p, q) /\ q.target = p.target /\ q.at = 0
    BY <1>10, RestartEffect
  <2>3. \A v : Known(v)' => Known(v)
    BY <2>1, KnownSame
  <2>4. Ran'
    BY <1>0, <2>1, <2>2, RanKept DEF Moved
  <2>5. edits = 0 => \A r \in pods' : r.of = want /\ r.target \in {None, want}
    BY <1>0, <2>2, TargetMoved DEF OneTarget
  <2> QED
    BY <1>0, <2>1, <2>3, <2>4, <2>5, GrowsSame, WorkParts DEF OneTarget
<1>11. CASE FinishPod
  <2>1. UNCHANGED <<kind, want, edits, cm, cached, rows, req, ready>>
    BY <1>11 DEF FinishPod, spec, operator
  <2>2. PICK p \in pods :
           /\ p.at > Statements
           /\ pods' = pods \ {p}
           /\ \/ /\ job # NoJob
                 /\ \E v \in JobType :
                       Store(v) /\ Decided(job, v, "succeeded")
              \/ UNCHANGED <<job, events>>
    BY <1>11, FinishEffect
  <2>3. Ran'
    BY <1>0, <2>1, <2>2, RanKept
  <2>4. CASE UNCHANGED <<job, events>>
    <3>1. \A v : Known(v)' => Known(v)
      BY <2>1, <2>4, KnownSame
    <3> QED
      BY <1>0, <2>1, <2>2, <2>3, <3>1, GrowsSame, WorkParts DEF OneTarget
  <2>5. CASE /\ job # NoJob
             /\ \E v \in JobType : Store(v) /\ Decided(job, v, "succeeded")
    <3>1. PICK w \in JobType : Store(w) /\ Decided(job, w, "succeeded")
      BY <2>5
    <3>2. \A v : Known(v)' => Known(v) \/ v = w
      BY <2>1, <3>1, KnownStore DEF Version
    <3>3. p \in PodType /\ p.at # 0
      BY <2>2, StatementsNat
    <3>4. p.target \in Targets
      BY <3>3, PodFields
    <3>5. Filled(p.target)
      <4>1. \A i \in 1..Statements : i < p.at
        BY <2>2, <3>3, PodFields, PastStatements
      <4> QED
        BY <1>0, <4>1 DEF Filled, Ran
    <3>6. edits = 0 => p.target = want
      BY <1>0, <3>4, TargetsAssumption DEF OneTarget
    <3>7. Done
      BY <3>4, <3>5, <3>6 DEF Done
    <3>8. Done'
      BY <2>1, <3>7, GrowsSame, DoneStays DEF Grows
    <3>9. edits = 0 => w.target = want
      <4>1. Known(job) /\ job \in JobType
        BY <2>5 DEF Known, Version
      <4> QED
        BY <1>0, <3>1, <4>1 DEF OneTarget, Decided
    <3> QED
      BY <1>0, <2>1, <2>2, <2>3, <3>2, <3>8, <3>9, GrowsSame, WorkParts
      DEF OneTarget
  <2> QED
    BY <2>2, <2>4, <2>5
<1>12. CASE FailJob
  <2>1. UNCHANGED <<kind, want, edits, cm, cached, rows, req, ready>>
    BY <1>12 DEF FailJob, spec, operator
  <2>2. pods' \subseteq pods
    BY <1>12 DEF FailJob
  <2>3. Ran'
    BY <1>0, <2>1, <2>2, RanKept
  <2>4. PICK w \in JobType :
           job # NoJob /\ Store(w) /\ Decided(job, w, "failed")
    BY <1>12, FailEffect
  <2>5. \A v : Known(v)' => Known(v) \/ v = w
    BY <2>1, <2>4, KnownStore DEF Version
  <2>6. w.state = "failed" /\ w.target = job.target
    BY <2>4 DEF Decided
  <2>7. edits = 0 => w.target = want
    <3>1. Known(job) /\ job \in JobType
      BY <2>4 DEF Known, Version
    <3> QED
      BY <1>0, <2>6, <3>1 DEF OneTarget
  <2> QED
    BY <1>0, <2>1, <2>2, <2>3, <2>5, <2>6, <2>7, GrowsSame, WorkParts
    DEF OneTarget
<1>13. CASE RemoveJob
  <2>1. UNCHANGED <<kind, want, edits, cm, cached, rows, req, ready>>
    BY <1>13 DEF RemoveJob, spec, operator
  <2>2. pods' \subseteq pods
    BY <1>13 DEF RemoveJob
  <2>3. Ran'
    BY <1>0, <2>1, <2>2, RanKept
  <2>4. Store(NoJob)
    BY <1>13 DEF RemoveJob
  <2>5. \A v : Known(v)' => Known(v) \/ v = NoJob
    BY <2>1, <2>4, KnownStore DEF Version
  <2> QED
    BY <1>0, <2>1, <2>2, <2>3, <2>5, NoJobFields, GrowsSame, WorkParts
    DEF OneTarget
<1>14. CASE DeleteByHand
  <2>1. UNCHANGED <<kind, want, edits, cm, cached, pods, rows, req, ready>>
    BY <1>14 DEF DeleteByHand, spec, operator
  <2>2. Ran'
    BY <1>0, <2>1, RanKept
  <2>3. job # NoJob /\ Store([job EXCEPT !.deleting = TRUE])
    BY <1>14 DEF DeleteByHand
  <2>4. PICK w \in JobType : Store(w) /\ Marked(job, w)
    BY <2>3, MarkEffect
  <2>5. \A v : Known(v)' => Known(v) \/ v = w
    BY <2>1, <2>4, KnownStore DEF Version
  <2>6. w.state = job.state /\ w.target = job.target
    BY <2>4 DEF Marked
  <2>7. Known(job) /\ job \in JobType
    BY <2>3 DEF Known, Version
  <2>8. w.state = "succeeded" => Done'
    BY <1>0, <2>1, <2>6, <2>7, GrowsSame, DoneStays DEF Worked, Grows
  <2>9. edits = 0 => w.target = want
    BY <1>0, <2>6, <2>7 DEF OneTarget
  <2> QED
    BY <1>0, <2>1, <2>2, <2>5, <2>8, <2>9, GrowsSame, WorkParts DEF OneTarget
<1>15. CASE EditTarget
  <2>1. UNCHANGED <<kind, cm, job, cached, events, pods, rows, req, ready>>
    BY <1>15 DEF EditTarget, cluster, operator
  <2>2. edits' # 0
    BY <1>15, JobBounds DEF EditTarget
  <2>3. Grows
    BY <2>1, <2>2 DEF Grows
  <2>4. Ran'
    BY <1>0, <2>1, RanKept
  <2>5. \A v : Known(v)' => Known(v)
    BY <2>1, KnownSame
  <2> QED
    BY <1>0, <2>1, <2>2, <2>3, <2>4, <2>5, WorkParts
<1>16. CASE EndQuery
  <2>1. UNCHANGED <<kind, want, edits, cm, job, cached, events, pods, req,
                    ready>>
    BY <1>16 DEF EndQuery, spec, cluster, operator
  <2>2. Grows
    BY <1>16, <2>1, EndGrows
  <2>3. Ran'
    <3>1. Statements' = Statements
      BY <2>1 DEF Statements
    <3> SUFFICES ASSUME NEW r \in pods, NEW i \in 1..Statements, i < r.at
                 PROVE  rows'[r.target][i] > 0
      BY <2>1, <3>1 DEF Ran
    <3>2. r \in PodType /\ r.at # 0
      BY PodFields, StatementsNat
    <3>3. r.target \in Targets /\ rows[r.target][i] > 0
      BY <1>0, <3>2, PodFields DEF Ran
    <3> QED
      BY <2>2, <3>3 DEF Grows
  <2>4. \A v : Known(v)' => Known(v)
    BY <2>1, KnownSame
  <2> QED
    BY <1>0, <2>1, <2>2, <2>3, <2>4, WorkParts DEF OneTarget
<1>17. CASE UNCHANGED vars
  <2>1. UNCHANGED <<kind, want, edits, cm, job, cached, events, pods, rows,
                    req, ready>>
    BY <1>17 DEF vars
  <2>2. Ran'
    BY <1>0, <2>1, RanKept
  <2>3. \A v : Known(v)' => Known(v)
    BY <2>1, KnownSame
  <2> QED
    BY <1>0, <2>1, <2>2, <2>3, GrowsSame, WorkParts DEF OneTarget
<1> QED
  BY <1>1, <1>2, <1>3, <1>4, <1>5, <1>6, <1>7, <1>8, <1>9, <1>10, <1>11,
     <1>12, <1>13, <1>14, <1>15, <1>16, <1>17 DEF Next, Handle, RunPod

\* ensureSampleDataJob and ensureMinioBucket report Ready only on finished
\* work: some target was filled, and the one of the message, before an edit.
THEOREM ReadyStandsOnWork == Spec => []ReadyAfterWork
<1>1. WorkInv => ReadyAfterWork
  BY DEF WorkInv
<1> QED
  BY <1>1, TypeInit, TypeStep, WorkInit, WorkStep, PTL DEF Spec

-----------------------------------------------------------------------------
(***************************************************************************)
(* The handler deletes only Jobs that nobody wants.                        *)
(***************************************************************************)

\* There is no pod to begin with.
LEMMA OwnedInit == Init => Owned
<1> SUFFICES ASSUME Init PROVE Owned
  OBVIOUS
<1>1. job.uid \in Nat
  BY TypeInit, TypeFacts, JobFields
<1> QED
  BY <1>1 DEF Init, Owned

\* Taking pods away, or moving one, keeps each with its Job.
LEMMA OwnedMoved ==
    ASSUME Owned, NEW p \in pods, NEW q, Moved(p, q), UNCHANGED <<job, made>>
    PROVE  Owned'
BY DEF Owned, Moved

\* Pods that end, and a Job that keeps its identity, leave each pod with a Job
\* of its own.
LEMMA OwnedKept ==
    ASSUME Owned, pods' \subseteq pods, made' = made, job'.uid \in {0, job.uid},
           TypeInv,
           \/ job'.state = job.state
           \/ job'.state = "none"
           \/ \A p \in pods' : p.job # job'.uid
    PROVE  Owned'
<1>1. job'.uid <= made' /\ made \in Nat
  BY TypeFacts DEF Owned
<1>2. \A p \in pods : p.job \in Nat /\ p.job # 0
  BY TypeFacts, PodFields DEF PodsSound
<1> QED
  BY <1>1, <1>2 DEF Owned

\* No step gives a Job a second pod, or a pod to a Job that has ended.
LEMMA OwnedStep == TypeInv /\ Owned /\ [Next]_vars => Owned'
<1> SUFFICES ASSUME TypeInv, Owned, [Next]_vars PROVE Owned'
  OBVIOUS
<1>1. CASE UNCHANGED <<job, made, pods>>
  BY <1>1 DEF Owned
<1>2. CASE DeleteJob \/ DeleteByHand
  <2>1. UNCHANGED <<made, pods>>
    BY <1>2 DEF DeleteJob, DeleteByHand
  <2>2. CASE UNCHANGED job
    BY <2>1, <2>2 DEF Owned
  <2>3. CASE job # NoJob /\ Store([job EXCEPT !.deleting = TRUE])
    <3>1. PICK w \in JobType : Store(w) /\ Marked(job, w)
      BY <2>3, MarkEffect
    <3>2. job'.uid = job.uid /\ job'.state = job.state
      BY <3>1 DEF Marked, Store
    <3> QED
      BY <2>1, <3>2, OwnedKept
  <2> QED
    BY <1>2, <2>2, <2>3 DEF DeleteJob, DeleteByHand
<1>3. CASE CreateJob
  <2>1. CASE UNCHANGED <<job, events, made, pods>>
    BY <2>1 DEF Owned
  <2>2. CASE ~UNCHANGED <<job, events, made, pods>>
    <3>1. PICK w \in JobType, q \in PodType :
             /\ Store(w) /\ w.uid = made + 1 /\ w.state = "running"
             /\ made' = made + 1
             /\ pods' = pods \cup {q} /\ q.job = made + 1
      BY <1>3, <2>2, CreateEffect
    <3>2. job' = w
      BY <3>1 DEF Store
    <3>3. made \in Nat /\ \A p \in pods : p.job \in Nat
      BY TypeFacts, PodFields
    <3>4. \A p \in pods' : p.job \in 1..made'
      BY <3>1, <3>3 DEF Owned
    <3>5. \A p \in pods : p.job # q.job
      BY <3>1, <3>3 DEF Owned
    <3>6. \A p, r \in pods' : p.job = r.job => p = r
      BY <3>1, <3>5 DEF Owned
    <3>7. job'.uid <= made'
      BY <3>1, <3>2, <3>3
    <3> QED
      BY <3>1, <3>2, <3>4, <3>6, <3>7 DEF Owned
  <2> QED
    BY <2>1, <2>2
<1>4. CASE StartPod
  <2>1. UNCHANGED <<job, made>>
    BY <1>4 DEF StartPod, cluster
  <2> QED
    BY <1>4, <2>1, StartEffect, OwnedMoved
<1>5. CASE RunStatement
  <2>1. UNCHANGED <<job, made>>
    BY <1>5 DEF RunStatement, cluster
  <2> QED
    BY <1>5, <2>1, StatementEffect, OwnedMoved
<1>6. CASE Commit
  <2>1. UNCHANGED <<job, made>>
    BY <1>6 DEF Commit, cluster
  <2> QED
    BY <1>6, <2>1, CommitEffect, OwnedMoved
<1>7. CASE RestartPod
  <2>1. UNCHANGED <<job, made>>
    BY <1>7 DEF RestartPod, cluster
  <2> QED
    BY <1>7, <2>1, RestartEffect, OwnedMoved
<1>8. CASE FinishPod
  <2>1. PICK p \in pods :
           /\ pods' = pods \ {p}
           /\ \/ /\ job.uid = p.job
                 /\ \E v \in JobType :
                       Store(v) /\ Decided(job, v, "succeeded")
              \/ UNCHANGED <<job, events>>
    BY <1>8, FinishEffect
  <2>2. made' = made /\ pods' \subseteq pods
    BY <1>8, <2>1 DEF FinishPod
  <2>3. CASE UNCHANGED <<job, events>>
    BY <2>2, <2>3, OwnedKept
  <2>4. CASE /\ job.uid = p.job
             /\ \E v \in JobType : Store(v) /\ Decided(job, v, "succeeded")
    <3>1. job'.uid = job.uid
      BY <2>4 DEF Decided, Store
    <3>2. \A r \in pods' : r.job # job'.uid
      BY <2>1, <2>4, <3>1 DEF Owned
    <3> QED
      BY <2>2, <3>1, <3>2, OwnedKept
  <2> QED
    BY <2>1, <2>3, <2>4
<1>9. CASE FailJob
  <2>1. /\ pods' = {p \in pods : p.job # job.uid}
        /\ made' = made
    BY <1>9 DEF FailJob
  <2>2. job'.uid = job.uid
    BY <1>9, FailEffect DEF Decided, Store
  <2>3. pods' \subseteq pods /\ \A p \in pods' : p.job # job'.uid
    BY <2>1, <2>2
  <2> QED
    BY <2>1, <2>2, <2>3, OwnedKept
<1>10. CASE RemoveJob
  <2>1. pods' \subseteq pods /\ made' = made /\ job' = NoJob
    BY <1>10 DEF RemoveJob, Store
  <2> QED
    BY <2>1, NoJobFields, OwnedKept
<1>11. CASE \/ Begin \/ Examine \/ Abort \/ Sync \/ EndQuery \/ EditTarget
            \/ UNCHANGED vars
  BY <1>1, <1>11 DEF Begin, Examine, Abort, Sync, EndQuery, EditTarget, vars,
                     cluster
<1> QED
  BY <1>2, <1>3, <1>4, <1>5, <1>6, <1>7, <1>8, <1>9, <1>10, <1>11
  DEF Next, Handle, RunPod

\* The cache, before and after the API server has stored a version.
LEMMA StoreEvents ==
    ASSUME TypeInv, NEW w \in Version, Store(w)
    PROVE  /\ events' # <<>> /\ job' = w
           /\ Len(events) \in Nat /\ Len(events') = Len(events) + 1
           /\ events'[Len(events')] = w
           /\ \A i \in 1..Len(events) : events'[i] = events[i]
           /\ \A i \in 1..Len(events') :
                 i \in 1..Len(events) \/ i = Len(events')
<1>1. events \in Seq(Version)
  BY TypeFacts
<1>2. /\ Len(events) \in Nat /\ Len(events') = Len(events) + 1
      /\ events' \in Seq(Version)
      /\ \A i \in 1..Len(events) : events'[i] = events[i]
      /\ events'[Len(events) + 1] = w
  BY <1>1, AppendProperties, LenProperties DEF Store
<1>3. events' # <<>>
  BY <1>2, EmptySeq
<1> QED
  BY <1>2, <1>3 DEF Store

\* A Job that changes is later than all versions of it.
LEMMA FollowedStore ==
    ASSUME TypeInv, Followed, NEW w \in Version, Store(w), cached' = cached,
           job # NoJob, Later(job, w)
    PROVE  Followed'
<1>0. job \in Version /\ cached \in Version
      /\ \A i \in 1..Len(events) : events[i] \in Version
  BY TypeFacts, ElementOfSeq
<1>1. ASSUME NEW a \in Version, Later(a, job) PROVE Later(a, w)
  BY <1>1 DEF Later
<1>2. cached' # NoJob => Later(cached', job')
  BY <1>0, <1>1, StoreEvents DEF Followed
<1>3. w # NoJob => Later(w, w)
  BY DEF Later
<1>4. \A i \in 1..Len(events') : events'[i] # NoJob => Later(events'[i], job')
  BY <1>0, <1>1, <1>3, StoreEvents DEF Followed
<1>5. \A i \in 1..Len(events) : events[i] # NoJob
  <2>1. ASSUME NEW i \in 1..Len(events), events[i] = NoJob PROVE FALSE
    <3>1. i = Len(events) /\ events # <<>>
      BY <2>1, StoreEvents, EmptySeq, TypeFacts DEF Followed
    <3> QED
      BY <2>1, <3>1 DEF Followed
  <2> QED
    BY <2>1
<1>6. \A i \in 1..Len(events') : events'[i] = NoJob => i = Len(events')
  BY <1>5, StoreEvents
<1> QED
  BY <1>2, <1>4, <1>6, StoreEvents DEF Followed

\* The first Job, and one after all is known to be gone.
LEMMA FollowedCreate ==
    ASSUME TypeInv, Followed, Unseen, NEW w \in JobType, Store(w), ~w.deleting,
           cached' = cached, cached = NoJob, job = NoJob
    PROVE  Followed' /\ Unseen'
<1>1. events \in Seq(Version) /\ Len(events) \in Nat
  BY TypeFacts, LenProperties
<1>2. Len(events) = 0
  <2>1. CASE Len(events) # 0
    <3>1. Len(events) \in 1..Len(events) /\ events # <<>>
      BY <1>1, <2>1, EmptySeq
    <3> QED
      BY <3>1 DEF Followed, Unseen
  <2> QED
    BY <2>1
<1>3. /\ events' # <<>> /\ job' = w /\ Len(events') = 1 /\ events'[1] = w
      /\ \A i \in 1..Len(events') : i = 1
  <2>1. w \in Version
    BY DEF Version
  <2> QED
    BY <1>2, <2>1, StoreEvents
<1>4. Later(w, w) /\ w # NoJob
  BY NoJobFields DEF Later
<1> QED
  BY <1>3, <1>4 DEF Followed, Unseen

\* The cache takes the next change over: what is left still leads to the Job.
LEMMA FollowedSync ==
    ASSUME TypeInv, Followed, Unseen, Sync
    PROVE  Followed' /\ Unseen'
<1>1. events \in Seq(Version) /\ events # <<>> /\ job' = job
  BY TypeFacts DEF Sync
<1>2. /\ Len(events) \in Nat /\ Len(events) >= 1
      /\ Len(events') \in Nat /\ Len(events') = Len(events) - 1
      /\ cached' = events[1]
      /\ \A i \in 1..Len(events') : events'[i] = events[i + 1]
      /\ events' \in Seq(Version)
  BY <1>1, HeadTailProperties, LenProperties, EmptySeq DEF Sync
<1>3. /\ 1 \in 1..Len(events)
      /\ \A i \in 1..Len(events') : i + 1 \in 1..Len(events)
  BY <1>2
<1>4. job' = IF events' = <<>> THEN cached' ELSE events'[Len(events')]
  <2>1. job = events[Len(events)]
    BY <1>1 DEF Followed
  <2>2. CASE events' = <<>>
    <3>1. Len(events) = 1
      BY <1>2, <2>2, EmptySeq
    <3> QED
      BY <1>1, <1>2, <2>1, <2>2, <3>1
  <2>3. CASE events' # <<>>
    <3>1. Len(events') \in 1..Len(events') /\ Len(events') + 1 = Len(events)
      BY <1>2, <2>3, EmptySeq
    <3> QED
      BY <1>1, <1>2, <2>1, <2>3, <3>1
  <2> QED
    BY <2>2, <2>3
<1>5. cached' # NoJob => Later(cached', job')
  BY <1>1, <1>2, <1>3 DEF Followed
<1>6. \A i \in 1..Len(events') : events'[i] # NoJob => Later(events'[i], job')
  BY <1>1, <1>2, <1>3 DEF Followed
<1>7. \A i \in 1..Len(events') : events'[i] = NoJob => i = Len(events')
  <2> SUFFICES ASSUME NEW i \in 1..Len(events'), events'[i] = NoJob
               PROVE  i = Len(events')
    OBVIOUS
  <2>1. i + 1 = Len(events)
    BY <1>2, <1>3 DEF Followed
  <2> QED
    BY <1>2, <2>1
<1>8. Unseen'
  <2> SUFFICES ASSUME cached' = NoJob PROVE Len(events') = 0
    BY <1>2 DEF Unseen
  <2>1. Len(events) = 1
    BY <1>2, <1>3 DEF Followed
  <2>2. Len(events') = Len(events) - 1
    BY <1>2
  <2> QED
    BY <2>1, <2>2
<1> QED
  BY <1>4, <1>5, <1>6, <1>7, <1>8 DEF Followed

\* What the cache does not show is not being deleted.
LEMMA UnseenKept ==
    ASSUME TypeInv, Followed, Unseen, cached = NoJob
    PROVE  ~job.deleting
<1>1. CASE events = <<>>
  BY <1>1, NoJobFields DEF Followed
<1>2. CASE events # <<>>
  <2>1. events \in Seq(Version) /\ Len(events) \in Nat
    BY TypeFacts, LenProperties
  <2>2. Len(events) \in 1..Len(events)
    BY <1>2, <2>1, EmptySeq
  <2> QED
    BY <1>2, <2>2 DEF Followed, Unseen
<1> QED
  BY <1>1, <1>2

\* A change that is not a deletion does not hide the Job from the cache.
LEMMA UnseenStore ==
    ASSUME TypeInv, Unseen, NEW w \in Version, Store(w), cached' = cached,
           cached = NoJob => w # NoJob /\ ~w.deleting
    PROVE  Unseen'
BY StoreEvents DEF Unseen

Past == Followed /\ Unseen /\ Unwanted

\* The cache agrees with the API server to begin with.
LEMMA PastInit == Init => Past
<1> SUFFICES ASSUME Init PROVE Past
  OBVIOUS
<1>1. events = <<>> /\ cached = job /\ pc = "idle" /\ Len(events) = 0
  BY EmptySeq DEF Init
<1>2. Later(cached, job)
  BY <1>1 DEF Later
<1> QED
  BY <1>1, <1>2 DEF Past, Followed, Unseen, Unwanted

\* While nobody deletes by hand, what the handler decided about the cached Job
\* is true of the stored one: a Job never becomes wanted again.
LEMMA PastStep ==
    ASSUME TypeInv, Owned, Past, [Next]_vars, ~manual'
    PROVE  Past'
<1>0. Followed /\ Unseen /\ Unwanted
  BY DEF Past
<1> USE TypeFacts
<1>1. CASE /\ UNCHANGED <<kind, job, cached, events, req>>
           /\ pc' # "delete" \/ pc' = pc
  <2>1. Followed' /\ Unseen'
    BY <1>0, <1>1 DEF Followed, Unseen
  <2>2. Unwanted'
    BY <1>0, <1>1 DEF Unwanted, JobFailed, Outdated
  <2> QED
    BY <2>1, <2>2 DEF Past
<1>2. CASE Begin
  <2>1. UNCHANGED <<job, cached, events>> /\ pc' = "examine"
    BY <1>2 DEF Begin, cluster
  <2>2. Followed' /\ Unseen'
    BY <1>0, <2>1 DEF Followed, Unseen
  <2>3. Unwanted'
    BY <2>1 DEF Unwanted
  <2> QED
    BY <2>2, <2>3 DEF Past
<1>3. CASE Examine
  <2>1. UNCHANGED <<kind, job, cached, events, req>>
    BY <1>3 DEF Examine, spec, cluster
  <2>2. CASE pc' # "delete"
    BY <1>1, <2>1, <2>2
  <2>3. CASE pc' = "delete"
    <3>1. cached # NoJob /\ (JobFailed(cached) \/ Outdated(cached))
      BY <1>3, <2>3 DEF Examine
    <3>2. Later(cached, job)
      BY <1>0, <3>1 DEF Followed
    <3>3. job = NoJob \/ JobFailed(job) \/ Outdated(job)
      BY <3>1, <3>2 DEF Later, JobFailed, Outdated
    <3>4. Unwanted'
      BY <2>1, <3>1, <3>3 DEF Unwanted, JobFailed, Outdated
    <3>5. Followed' /\ Unseen'
      BY <1>0, <2>1 DEF Followed, Unseen
    <3> QED
      BY <3>4, <3>5 DEF Past
  <2> QED
    BY <2>2, <2>3
<1>4. CASE DeleteJob
  <2>1. pc = "delete" /\ pc' = "idle" /\ UNCHANGED <<kind, cached, req>>
    BY <1>4 DEF DeleteJob, spec
  <2>2. CASE UNCHANGED <<job, events>>
    BY <1>1, <2>1, <2>2
  <2>3. CASE job # NoJob /\ Store([job EXCEPT !.deleting = TRUE])
    <3>1. PICK w \in JobType : Store(w) /\ Marked(job, w)
      BY <2>3, MarkEffect
    <3>2. Later(job, w) /\ w \in Version
      BY <3>1 DEF Later, Marked, Version
    <3>3. Followed'
      BY <1>0, <2>1, <2>3, <3>1, <3>2, FollowedStore
    <3>4. cached # NoJob
      BY <1>0, <2>1, <2>3 DEF Unwanted
    <3>5. Unseen'
      BY <1>0, <2>1, <3>1, <3>2, <3>4, UnseenStore
    <3>6. Unwanted'
      BY <2>1 DEF Unwanted
    <3> QED
      BY <3>3, <3>5, <3>6 DEF Past
  <2> QED
    BY <1>4, <2>2, <2>3 DEF DeleteJob
<1>5. CASE CreateJob
  <2>1. pc' = "idle" /\ UNCHANGED <<kind, cached, req>>
    BY <1>5 DEF CreateJob, spec
  <2>2. CASE UNCHANGED <<job, events, made, pods>>
    BY <1>1, <2>1, <2>2
  <2>3. CASE ~UNCHANGED <<job, events, made, pods>>
    <3>1. PICK w \in JobType : Store(w) /\ ~w.deleting
      BY <1>5, <2>3, CreateEffect
    <3>2. cached = NoJob /\ job = NoJob
      BY <1>5, <2>3, CreateEffect
    <3>3. Followed' /\ Unseen'
      BY <1>0, <2>1, <3>1, <3>2, FollowedCreate
    <3> QED
      BY <2>1, <3>3 DEF Past, Unwanted
  <2> QED
    BY <2>2, <2>3
<1>6. CASE Sync
  <2>1. UNCHANGED <<kind, job, req, pc>>
    BY <1>6 DEF Sync, spec, operator
  <2>2. Followed' /\ Unseen'
    BY <1>0, <1>6, FollowedSync
  <2>3. cached' = NoJob => job = NoJob
    <3>1. cached' # NoJob \/ Len(events') = 0
      <4>1. events' \in Seq(Version)
        BY <1>6, HeadTailProperties DEF Sync
      <4>2. Len(events') \in Nat
        BY <4>1, LenProperties
      <4>3. 1 \in 1..Len(events)
        BY <1>6, EmptySeq, LenProperties DEF Sync
      <4>4. cached' = events[1] /\ Len(events') = Len(events) - 1
        BY <1>6, HeadTailProperties DEF Sync
      <4>5. cached' = NoJob => 1 = Len(events)
        BY <1>0, <4>3, <4>4 DEF Followed
      <4> QED
        BY <4>4, <4>5
    <3>2. Len(events') = 0 => events' = <<>>
      <4>1. events' \in Seq(Version)
        BY <1>6, HeadTailProperties DEF Sync
      <4> QED
        BY <4>1, EmptySeq
    <3> QED
      BY <2>1, <2>2, <3>1, <3>2 DEF Followed
  <2>4. Unwanted'
    BY <1>0, <2>1, <2>3 DEF Unwanted, JobFailed, Outdated
  <2> QED
    BY <2>2, <2>4 DEF Past
<1>7. CASE FinishPod
  <2>1. UNCHANGED <<kind, cached, pc, req>>
    BY <1>7 DEF FinishPod, spec, operator
  <2>2. PICK p \in pods :
           \/ /\ job.uid = p.job /\ job # NoJob
              /\ \E v \in JobType :
                    Store(v) /\ Decided(job, v, "succeeded")
           \/ UNCHANGED <<job, events>>
    BY <1>7, FinishEffect
  <2>3. CASE UNCHANGED <<job, events>>
    BY <1>1, <2>1, <2>3
  <2>4. CASE /\ job.uid = p.job /\ job # NoJob
             /\ \E v \in JobType : Store(v) /\ Decided(job, v, "succeeded")
    <3>1. PICK w \in JobType : Store(w) /\ Decided(job, w, "succeeded")
      BY <2>4
    <3>2. job.state = "running"
      BY <2>4, JobFields DEF Owned, States
    <3>3. Later(job, w) /\ w \in Version
      BY <3>1, <3>2 DEF Later, Decided, Version
    <3>4. Followed'
      BY <1>0, <2>1, <2>4, <3>1, <3>3, FollowedStore
    <3>5. cached = NoJob => w # NoJob /\ ~w.deleting
      BY <1>0, <3>1, NoJobFields, UnseenKept DEF Decided
    <3>6. Unseen'
      BY <1>0, <2>1, <3>1, <3>3, <3>5, UnseenStore
    <3>7. job' = w
      BY <3>1 DEF Store
    <3>8. Unwanted'
      BY <1>0, <2>1, <2>4, <3>1, <3>2, <3>7
      DEF Unwanted, Decided, JobFailed, Outdated
    <3> QED
      BY <3>4, <3>6, <3>8 DEF Past
  <2> QED
    BY <2>2, <2>3, <2>4
<1>8. CASE FailJob
  <2>1. UNCHANGED <<kind, cached, pc, req>>
    BY <1>8 DEF FailJob, spec, operator
  <2>2. PICK w \in JobType :
           /\ job # NoJob /\ job.state = "running"
           /\ Store(w) /\ Decided(job, w, "failed")
    BY <1>8, FailEffect
  <2>3. Later(job, w) /\ w \in Version
    BY <2>2 DEF Later, Decided, Version
  <2>4. Followed'
    BY <1>0, <2>1, <2>2, <2>3, FollowedStore
  <2>5. cached = NoJob => w # NoJob /\ ~w.deleting
    BY <1>0, <2>2, NoJobFields, UnseenKept DEF Decided
  <2>6. Unseen'
    BY <1>0, <2>1, <2>2, <2>3, <2>5, UnseenStore
  <2>7. job' = w
    BY <2>2 DEF Store
  <2>8. Unwanted'
    BY <1>0, <2>1, <2>2, <2>7 DEF Unwanted, Decided, JobFailed, Outdated
  <2> QED
    BY <2>4, <2>6, <2>8 DEF Past
<1>9. CASE RemoveJob
  <2>1. UNCHANGED <<kind, cached, pc, req>>
    BY <1>9 DEF RemoveJob, spec, operator
  <2>2. job.deleting /\ Store(NoJob) /\ job' = NoJob
    BY <1>9 DEF RemoveJob, Store
  <2>3. job # NoJob /\ Later(job, NoJob) /\ NoJob \in Version
    BY <2>2, NoJobFields DEF Later, Version
  <2>4. Followed'
    BY <1>0, <2>1, <2>2, <2>3, FollowedStore
  <2>5. cached # NoJob
    BY <1>0, <2>2, UnseenKept
  <2>6. Unseen'
    BY <1>0, <2>1, <2>2, <2>3, <2>5, UnseenStore
  <2>7. Unwanted'
    BY <2>2 DEF Unwanted
  <2> QED
    BY <2>4, <2>6, <2>7 DEF Past
<1>10. CASE DeleteByHand
  BY <1>10 DEF DeleteByHand
<1>11. CASE \/ StartPod \/ RunStatement \/ Commit \/ EndQuery \/ RestartPod
            \/ Abort \/ EditTarget \/ UNCHANGED vars
  <2>1. /\ UNCHANGED <<kind, job, cached, events, req>>
        /\ pc' # "delete" \/ pc' = pc
    BY <1>11 DEF StartPod, RunStatement, Commit, EndQuery, RestartPod, Abort,
                 EditTarget, vars, cluster, spec, operator
  <2> QED
    BY <1>1, <2>1
<1> QED
  BY <1>2, <1>3, <1>4, <1>5, <1>6, <1>7, <1>8, <1>9, <1>10, <1>11
  DEF Next, Handle, RunPod

\* Whoever has deleted Jobs by hand has done so for good.
LEMMA ManualStays == [Next]_vars /\ ~manual' => ~manual
BY DEF Next, Handle, RunPod, Begin, Examine, DeleteJob, CreateJob, Abort, Sync,
       StartPod, RunStatement, Commit, EndQuery, FinishPod, RestartPod, FailJob,
       RemoveJob, DeleteByHand, EditTarget, Fault, budget, vars

\* The history of the Job is empty to begin with.
LEMMA HistoryInit == Init => HistoryInv
BY OwnedInit, PastInit DEF HistoryInv, Past

\* HistoryInv is inductive.
LEMMA HistoryStep == TypeInv /\ HistoryInv /\ [Next]_vars => HistoryInv'
BY OwnedStep, PastStep, ManualStays DEF HistoryInv, Past

\* A step that marks the Job for deletion, and is not an administrator's,
\* marks one that has failed or is outdated.
LEMMA DeleteStep ==
    ASSUME TypeInv, HistoryInv, [Next]_vars,
           ~manual', ~job.deleting, job'.deleting
    PROVE  JobFailed(job) \/ Outdated(job)
<1> USE TypeFacts
<1>0. Unwanted
  BY ManualStays DEF HistoryInv
<1>1. CASE UNCHANGED job
  BY <1>1
<1>2. CASE DeleteJob
  BY <1>0, <1>1, <1>2, NoJobFields DEF DeleteJob, Unwanted
<1>3. CASE CreateJob
  BY <1>1, <1>3, CreateEffect DEF Store
<1>4. CASE FinishPod
  BY <1>1, <1>4, FinishEffect DEF Store, Decided
<1>5. CASE FailJob
  BY <1>5, FailEffect DEF Store, Decided
<1>6. CASE RemoveJob
  BY <1>6 DEF RemoveJob
<1>7. CASE DeleteByHand
  BY <1>7 DEF DeleteByHand
<1>8. CASE \/ Begin \/ Examine \/ StartPod \/ RunStatement \/ Commit
           \/ EndQuery \/ RestartPod \/ Abort \/ Sync \/ EditTarget
           \/ UNCHANGED vars
  <2>1. UNCHANGED job
    BY <1>8 DEF Begin, Examine, StartPod, RunStatement, Commit, EndQuery,
                RestartPod, Abort, Sync, EditTarget, vars, cluster
  <2> QED
    BY <1>1, <2>1
<1> QED
  BY <1>2, <1>3, <1>4, <1>5, <1>6, <1>7, <1>8 DEF Next, Handle, RunPod

\* The Delete of ensureSampleDataJob and ensureMinioBucket goes by name and
\* through a cache of any lag, and never hits a Job that does wanted work.
THEOREM OnlyUnwantedDeleted == Spec => DeletesOnlyUnwanted
<1>1. TypeInv /\ HistoryInv /\ [Next]_vars
      => [~manual' /\ ~job.deleting /\ job'.deleting
            => JobFailed(job) \/ Outdated(job)]_vars
  BY DeleteStep
<1> QED
  BY <1>1, TypeInit, TypeStep, HistoryInit, HistoryStep, PTL
  DEF Spec, DeletesOnlyUnwanted

-----------------------------------------------------------------------------
(***************************************************************************)
(* The rows are inserted once.                                             *)
(***************************************************************************)

\* The tables are empty to begin with.
LEMMA OnceInit == Init => OnceInv
<1> SUFFICES ASSUME Init PROVE OnceInv
  OBVIOUS
<1>1. Once /\ Balanced
  BY DEF Init, Once, Balanced
<1>2. kind = "seed" => job = NoJob
  BY DEF Init
<1>3. pods = {}
  BY DEF Init
<1> QED
  BY <1>1, <1>2, <1>3, NoJobFields DEF OnceInv, Alone, Undisturbed

\* Edits and deletions by hand are never taken back.
LEMMA UndisturbedBefore ==
    ASSUME TypeInv, [Next]_vars, Undisturbed' PROVE Undisturbed
<1>1. ~manual
  BY ManualStays DEF Undisturbed
<1>2. CASE EditTarget
  BY <1>2, TypeFacts, JobBounds DEF EditTarget, Undisturbed
<1>3. CASE ~EditTarget
  <2>1. UNCHANGED <<kind, edits>>
    BY <1>3 DEF Next, Handle, RunPod, Begin, Examine, DeleteJob, CreateJob,
                Abort, Sync, StartPod, RunStatement, Commit, EndQuery,
                FinishPod, RestartPod, FailJob, RemoveJob, DeleteByHand, spec,
                vars
  <2> QED
    BY <1>1, <2>1 DEF Undisturbed
<1> QED
  BY <1>2, <1>3

\* A container that inserts is at one of the statements of a schema.
LEMMA Inserting ==
    ASSUME TypeInv, NEW p \in pods, p.inserting
    PROVE  p.target \in Targets /\ p.at \in 1..Statements
<1>1. p \in PodType /\ p.at \in 1..Statements
  BY TypeFacts DEF PodsSound
<1>2. p.at # 0
  BY <1>1, StatementsNat
<1> QED
  BY <1>1, <1>2, TypeFacts, PodFields

\* The counts of a table are numbers.
LEMMA Counts ==
    ASSUME TypeInv, NEW t \in Targets, NEW i \in 1..Statements
    PROVE  rows[t][i] \in Nat /\ adrift[t][i] \in Nat /\ left[t][i] \in Nat
BY TypeFacts

\* The books balance as long as nothing is written to them.
LEMMA BalancedSame ==
    ASSUME Balanced, UNCHANGED <<kind, rows, adrift, left>>
    PROVE  Balanced'
BY DEF Balanced, Statements

\* A container that moves is still the only one.
LEMMA AloneMoved ==
    ASSUME TypeInv, Alone, UNCHANGED <<kind, job, rows, adrift, left>>,
           NEW p \in pods, NEW q \in PodType, Moved(p, q),
           q.inserting => Room(q.target, q.at)
    PROVE  Alone'
<1>1. Balanced'
  BY BalancedSame DEF Alone
<1>2. \A t, i : Room(t, i) => Room(t, i)'
  BY DEF Room
<1> QED
  BY <1>1, <1>2 DEF Alone, Moved

\* Pods that end leave the other alone, and there is still room for its INSERT.
LEMMA AloneKept ==
    ASSUME TypeInv, Alone, UNCHANGED <<kind, rows, adrift, left>>,
           pods' \subseteq pods,
           pods' # {} => job'.uid = job.uid,
           job'.deleting => job'.state = "failed"
    PROVE  Alone'
<1>1. Balanced'
  BY BalancedSame DEF Alone
<1>2. \A t, i : Room(t, i) => Room(t, i)'
  BY DEF Room
<1> QED
  BY <1>1, <1>2 DEF Alone

\* An INSERT that is left behind is counted on both sides.
LEMMA AloneAbandon ==
    ASSUME TypeInv, Alone, UNCHANGED <<kind, rows>>,
           NEW ps, Abandon(ps),
           \A p \in pods' : p.inserting => p \in pods,
           \A p \in pods' : p.job = job'.uid,
           job'.deleting => job'.state = "failed"
    PROVE  Alone'
<1>1. Statements' = Statements
  BY DEF Statements
<1>2. ASSUME NEW t \in Targets, NEW i \in 1..Statements
      PROVE  /\ adrift'[t][i] <= left'[t][i]
             /\ rows'[t][i] + adrift'[t][i] <= 1 + left'[t][i]
             /\ Room(t, i) => Room(t, i)'
  <2>1. PICK g \in {0, 1} : /\ adrift'[t][i] = adrift[t][i] + g
                            /\ left'[t][i] = left[t][i] + g
    BY AbandonEffect
  <2>2. rows[t][i] \in Nat /\ adrift[t][i] \in Nat /\ left[t][i] \in Nat
    BY Counts
  <2>3. /\ adrift[t][i] <= left[t][i]
        /\ rows[t][i] + adrift[t][i] <= 1 + left[t][i]
    BY DEF Alone, Balanced
  <2>4. rows'[t][i] = rows[t][i]
    OBVIOUS
  <2> QED
    BY <2>1, <2>2, <2>3, <2>4 DEF Room
<1>3. Balanced'
  BY <1>1, <1>2 DEF Balanced
<1>4. \A p \in pods' : p.inserting => Room(p.target, p.at)'
  BY <1>2, Inserting DEF Alone
<1> QED
  BY <1>3, <1>4 DEF Alone

\* The container commits its INSERT, for which there was room.
LEMMA AloneCommit ==
    ASSUME TypeInv, HistoryInv, Alone, Commit, kind = "seed", kind' = kind
    PROVE  Alone'
<1>1. UNCHANGED <<job, adrift, left>> /\ Statements' = Statements
  BY DEF Commit, cluster, Statements
<1>2. PICK p \in pods, q \in PodType :
         /\ Moved(p, q)
         /\ p.inserting /\ p.at \in 1..Statements /\ p.target \in Targets
         /\ ~q.inserting
         /\ rows'[p.target][p.at] =
               IF kind = "seed" THEN rows[p.target][p.at] + 1 ELSE 1
         /\ \A t \in Targets : \A i \in 1..Statements :
               t # p.target \/ i # p.at => rows'[t][i] = rows[t][i]
  BY CommitEffect
<1>3. pods = {p}
  BY DEF Alone, HistoryInv, Owned
<1>4. pods' = {q} /\ q.job = p.job
  BY <1>2, <1>3 DEF Moved
<1>5. ASSUME NEW t \in Targets, NEW i \in 1..Statements
      PROVE  /\ adrift'[t][i] <= left'[t][i]
             /\ rows'[t][i] + adrift'[t][i] <= 1 + left'[t][i]
  <2>1. rows[t][i] \in Nat /\ adrift[t][i] \in Nat /\ left[t][i] \in Nat
    BY Counts
  <2>2. /\ adrift[t][i] <= left[t][i]
        /\ rows[t][i] + adrift[t][i] <= 1 + left[t][i]
    BY DEF Alone, Balanced
  <2>3. CASE t = p.target /\ i = p.at
    <3>1. rows[t][i] + adrift[t][i] <= left[t][i]
      BY <1>2, <2>3 DEF Alone, Room
    <3>2. rows'[t][i] = rows[t][i] + 1
      BY <1>2, <2>3
    <3> QED
      BY <1>1, <2>1, <2>2, <3>1, <3>2
  <2>4. CASE t # p.target \/ i # p.at
    <3>1. rows'[t][i] = rows[t][i]
      BY <1>2, <2>4
    <3> QED
      BY <1>1, <2>2, <3>1
  <2> QED
    BY <2>3, <2>4
<1>6. Balanced'
  BY <1>1, <1>5 DEF Balanced
<1> QED
  BY <1>1, <1>2, <1>4, <1>6 DEF Alone

\* Trino ends an INSERT that was left behind: what it commits was counted.
LEMMA AloneEnd ==
    ASSUME TypeInv, Alone, EndQuery, kind = "seed"
    PROVE  Alone'
<1>1. UNCHANGED <<kind, job, pods, left>> /\ Statements' = Statements
  BY DEF EndQuery, spec, cluster, Statements
<1>2. PICK t \in Targets, i \in 1..Statements :
         /\ adrift[t][i] > 0 /\ adrift'[t][i] = adrift[t][i] - 1
         /\ rows'[t][i] \in
               {rows[t][i], IF kind = "seed" THEN rows[t][i] + 1 ELSE 1}
         /\ \A u \in Targets : \A k \in 1..Statements :
               t # u \/ i # k => /\ rows'[u][k] = rows[u][k]
                                 /\ adrift'[u][k] = adrift[u][k]
  BY EndEffect
<1>3. ASSUME NEW u \in Targets, NEW k \in 1..Statements
      PROVE  /\ adrift'[u][k] <= left'[u][k]
             /\ rows'[u][k] + adrift'[u][k] <= 1 + left'[u][k]
             /\ Room(u, k) => Room(u, k)'
  <2>1. rows[u][k] \in Nat /\ adrift[u][k] \in Nat /\ left[u][k] \in Nat
    BY Counts
  <2>2. /\ adrift[u][k] <= left[u][k]
        /\ rows[u][k] + adrift[u][k] <= 1 + left[u][k]
    BY DEF Alone, Balanced
  <2>3. CASE u = t /\ k = i
    <3>1. /\ adrift'[u][k] = adrift[u][k] - 1
          /\ rows'[u][k] = rows[u][k] \/ rows'[u][k] = rows[u][k] + 1
      BY <1>2, <2>3
    <3> QED
      BY <1>1, <2>1, <2>2, <3>1 DEF Room
  <2>4. CASE u # t \/ k # i
    <3>1. rows'[u][k] = rows[u][k] /\ adrift'[u][k] = adrift[u][k]
      BY <1>2, <2>4
    <3> QED
      BY <1>1, <2>2, <3>1 DEF Room
  <2> QED
    BY <2>3, <2>4
<1>4. Balanced'
  BY <1>1, <1>3 DEF Balanced
<1>5. \A p \in pods : p.inserting => Room(p.target, p.at)'
  BY <1>3, Inserting DEF Alone
<1> QED
  BY <1>1, <1>4, <1>5 DEF Alone

\* Without edits and deletions by hand, a Job is replaced only after it failed,
\* when its pod has ended, so no two containers insert beside each other.
LEMMA AloneStep ==
    ASSUME TypeInv, WorkInv, HistoryInv, Undisturbed, Alone,
           [Next]_vars, Undisturbed'
    PROVE  Alone'
<1> USE TypeFacts
<1>0. kind' = kind /\ kind = "seed" /\ edits = 0
  BY DEF Undisturbed
<1>1. CASE UNCHANGED <<job, pods, rows, adrift, left>>
  BY <1>0, <1>1, AloneKept DEF Alone
<1>2. CASE DeleteJob
  <2>1. UNCHANGED <<pods, rows, adrift, left>> /\ pc = "delete"
    BY <1>2 DEF DeleteJob
  <2>2. CASE UNCHANGED job
    BY <1>1, <2>1, <2>2
  <2>3. CASE /\ job # NoJob /\ ~job.deleting
             /\ Store([job EXCEPT !.deleting = TRUE])
    <3>1. PICK w \in JobType : Store(w) /\ Marked(job, w)
      BY <2>3, MarkEffect
    <3>2. JobFailed(job) \/ Outdated(job)
      BY <2>1, <2>3 DEF HistoryInv, Unwanted, Undisturbed
    <3>3. ~Outdated(job)
      <4>1. job \in JobType /\ Known(job)
        BY <2>3 DEF Version, Known
      <4>2. job.target = want /\ req = want
        BY <1>0, <2>1, <4>1, TargetsAssumption DEF WorkInv, OneTarget
      <4> QED
        BY <1>0, <4>2 DEF Outdated
    <3>4. job'.uid = job.uid /\ job'.state = "failed"
      BY <3>1, <3>2, <3>3 DEF Store, Marked, JobFailed
    <3> QED
      BY <1>0, <2>1, <3>4, AloneKept
  <2> QED
    BY <1>2, <2>2, <2>3 DEF DeleteJob
<1>3. CASE CreateJob
  <2>1. CASE UNCHANGED <<job, events, made, pods>>
    BY <1>1, <1>3, <2>1 DEF CreateJob
  <2>2. CASE ~UNCHANGED <<job, events, made, pods>>
    <3>1. PICK w \in JobType, q \in PodType :
             /\ Store(w) /\ w.uid = made + 1 /\ ~w.deleting
             /\ pods' = pods \cup {q}
             /\ q.job = made + 1 /\ ~q.inserting
      BY <1>3, <2>2, CreateEffect
    <3>2. job = NoJob /\ job' = w /\ UNCHANGED <<rows, adrift, left>>
      BY <1>3, <2>2, <3>1, CreateEffect DEF CreateJob, Store
    <3>3. pods = {}
      BY <3>2, NoJobFields DEF Alone, PodsSound
    <3>4. Balanced'
      BY <1>0, <3>2, BalancedSame DEF Alone
    <3> QED
      BY <3>1, <3>2, <3>3, <3>4 DEF Alone
  <2> QED
    BY <2>1, <2>2
<1>4. CASE StartPod
  <2>1. UNCHANGED <<job, rows, adrift, left>>
    BY <1>4 DEF StartPod, cluster
  <2>2. PICK p \in pods, q \in PodType :
           Moved(p, q) /\ p.at = 0 /\ q.inserting = p.inserting
    BY <1>4, StartEffect
  <2>3. ~p.inserting
    <3>1. ~(0 \in 1..Statements)
      BY StatementsNat
    <3> QED
      BY <2>2, <3>1 DEF PodsSound
  <2> QED
    BY <1>0, <2>1, <2>2, <2>3, AloneMoved
<1>5. CASE RunStatement
  <2>1. UNCHANGED <<job, rows, adrift, left>>
    BY <1>5 DEF RunStatement, cluster
  <2>2. PICK p \in pods, q \in PodType :
           /\ Moved(p, q) /\ q.target = p.target
           /\ p.at \in 1..Statements /\ p.target \in Targets
           /\ q.inserting => q.at = p.at /\ rows[p.target][p.at] = 0
    BY <1>5, StatementEffect
  <2>3. rows[p.target][p.at] = 0 => Room(p.target, p.at)
    <3>1. adrift[p.target][p.at] <= left[p.target][p.at]
      BY <2>2 DEF Alone, Balanced
    <3>2. adrift[p.target][p.at] \in Nat
      BY <2>2, Counts
    <3> QED
      BY <3>1, <3>2 DEF Room
  <2> QED
    BY <1>0, <2>1, <2>2, <2>3, AloneMoved
<1>6. CASE Commit
  BY <1>0, <1>6, AloneCommit
<1>7. CASE RestartPod
  <2>1. UNCHANGED <<job, rows>>
    BY <1>7 DEF RestartPod, cluster
  <2>2. PICK p \in pods, q \in PodType : Moved(p, q) /\ ~q.inserting
    BY <1>7, RestartEffect
  <2>3. PICK r \in pods : Abandon({r})
    BY <1>7 DEF RestartPod
  <2>4. /\ \A x \in pods' : x.inserting => x \in pods
        /\ \A x \in pods' : x.job = job'.uid
        /\ job'.deleting => job'.state = "failed"
    BY <2>1, <2>2 DEF Alone, Moved
  <2> QED
    BY <1>0, <2>1, <2>3, <2>4, AloneAbandon
<1>8. CASE FinishPod
  <2>1. pods' \subseteq pods /\ UNCHANGED <<rows, adrift, left>>
    BY <1>8 DEF FinishPod
  <2>2. CASE UNCHANGED job
    BY <1>0, <2>1, <2>2, AloneKept DEF Alone
  <2>3. CASE job' # job
    <3>1. PICK p \in pods :
             /\ job.uid = p.job
             /\ \E v \in JobType :
                   Store(v) /\ Decided(job, v, "succeeded")
      BY <1>8, <2>3, FinishEffect
    <3>2. job'.uid = job.uid /\ job'.deleting = job.deleting
      BY <3>1 DEF Store, Decided
    <3>3. ~job.deleting
      BY <3>1 DEF Alone, HistoryInv, Owned
    <3> QED
      BY <1>0, <2>1, <3>2, <3>3, AloneKept
  <2> QED
    BY <2>2, <2>3
<1>9. CASE FailJob
  <2>1. pods' \subseteq pods /\ rows' = rows /\ Abandon(pods \ pods')
    BY <1>9 DEF FailJob
  <2>2. job'.uid = job.uid /\ job'.state = "failed"
    BY <1>9, FailEffect DEF Store, Decided
  <2>3. /\ \A p \in pods' : p.inserting => p \in pods
        /\ \A p \in pods' : p.job = job'.uid
    BY <2>1, <2>2 DEF Alone
  <2> QED
    BY <1>0, <2>1, <2>2, <2>3, AloneAbandon
<1>10. CASE RemoveJob
  <2>1. /\ pods' \subseteq pods /\ rows' = rows /\ Abandon(pods \ pods')
        /\ job.deleting /\ job' = NoJob
    BY <1>10 DEF RemoveJob, Store
  <2>2. pods' = {}
    BY <2>1 DEF Alone, HistoryInv, Owned
  <2>3. /\ \A p \in pods' : p.inserting => p \in pods
        /\ \A p \in pods' : p.job = job'.uid
        /\ job'.deleting => job'.state = "failed"
    BY <2>1, <2>2, NoJobFields
  <2> QED
    BY <1>0, <2>1, <2>3, AloneAbandon
<1>11. CASE DeleteByHand
  BY <1>11 DEF DeleteByHand, Undisturbed
<1>12. CASE EndQuery
  BY <1>0, <1>12, AloneEnd
<1>13. CASE Begin \/ Examine \/ Abort \/ Sync \/ EditTarget \/ UNCHANGED vars
  <2>1. UNCHANGED <<job, pods, rows, adrift, left>>
    BY <1>13 DEF Begin, Examine, Abort, Sync, EditTarget, vars, cluster
  <2> QED
    BY <1>1, <2>1
<1> QED
  BY <1>2, <1>3, <1>4, <1>5, <1>6, <1>7, <1>8, <1>9, <1>10, <1>11, <1>12,
     <1>13 DEF Next, Handle, RunPod

\* A platform's seed Job never turns into its bucket Job.
LEMMA KindStays == [Next]_vars => kind' = kind
BY DEF Next, Handle, RunPod, Begin, Examine, DeleteJob, CreateJob,
       Abort, Sync, StartPod, RunStatement, Commit, EndQuery, FinishPod,
       EditTarget, RestartPod, FailJob, RemoveJob, DeleteByHand, spec, vars

\* "mc mb --ignore-existing" makes a bucket once, whoever runs it.
LEMMA BucketStep ==
    ASSUME TypeInv, kind = "bucket", Once, [Next]_vars
    PROVE  Once'
<1>0. Statements' = Statements
  BY KindStays DEF Statements
<1>1. CASE Commit
  <2>1. PICK p \in pods, q \in PodType :
           /\ p.at \in 1..Statements /\ p.target \in Targets
           /\ rows'[p.target][p.at] =
                 IF kind = "seed" THEN rows[p.target][p.at] + 1 ELSE 1
           /\ \A t \in Targets : \A i \in 1..Statements :
                 t # p.target \/ i # p.at => rows'[t][i] = rows[t][i]
    BY <1>1, CommitEffect
  <2>2. rows'[p.target][p.at] = 1
    BY <2>1
  <2> SUFFICES ASSUME NEW t \in Targets, NEW i \in 1..Statements
               PROVE  rows'[t][i] <= 1
    BY <1>0 DEF Once
  <2>3. CASE t = p.target /\ i = p.at
    BY <2>2, <2>3
  <2>4. CASE t # p.target \/ i # p.at
    BY <2>1, <2>4 DEF Once
  <2> QED
    BY <2>3, <2>4
<1>2. CASE EndQuery
  <2>1. PICK t \in Targets, i \in 1..Statements :
           /\ rows'[t][i] \in
                 {rows[t][i], IF kind = "seed" THEN rows[t][i] + 1 ELSE 1}
           /\ \A u \in Targets : \A k \in 1..Statements :
                 t # u \/ i # k => rows'[u][k] = rows[u][k]
    BY <1>2, EndEffect
  <2>2. rows'[t][i] = rows[t][i] \/ rows'[t][i] = 1
    BY <2>1
  <2> SUFFICES ASSUME NEW u \in Targets, NEW k \in 1..Statements
               PROVE  rows'[u][k] <= 1
    BY <1>0 DEF Once
  <2>3. CASE t = u /\ i = k
    BY <2>2, <2>3 DEF Once
  <2>4. CASE t # u \/ i # k
    BY <2>1, <2>4 DEF Once
  <2> QED
    BY <2>3, <2>4
<1>3. CASE ~Commit /\ ~EndQuery
  <2>1. UNCHANGED rows
    BY <1>3 DEF Next, Handle, RunPod, Begin, Examine, DeleteJob, CreateJob,
                Abort, Sync, StartPod, RunStatement, FinishPod, EditTarget,
                RestartPod, FailJob, RemoveJob, DeleteByHand, vars
  <2> QED
    BY <1>0, <2>1 DEF Once
<1> QED
  BY <1>1, <1>2, <1>3

\* OnceInv is inductive: "mc mb --ignore-existing" and the INSERT of a lone
\* container add rows only where there are none, but for queries left behind.
LEMMA OnceStep ==
    TypeInv /\ WorkInv /\ HistoryInv /\ OnceInv /\ [Next]_vars => OnceInv'
BY UndisturbedBefore, AloneStep, BucketStep, KindStays DEF OnceInv

\* The balance bounds the rows.
LEMMA OnceMeans == TypeInv /\ OnceInv => SeededOnce
<1> SUFFICES ASSUME TypeInv, OnceInv, edits = 0, ~manual,
                    NEW t \in Targets, NEW i \in 1..Statements
             PROVE  rows[t][i] <= 1 + left[t][i]
  BY DEF SeededOnce
<1>1. rows[t][i] \in Nat /\ adrift[t][i] \in Nat /\ left[t][i] \in Nat
  BY Counts
<1>2. CASE kind = "seed"
  <2>1. rows[t][i] + adrift[t][i] <= 1 + left[t][i]
    BY <1>2 DEF OnceInv, Undisturbed, Alone, Balanced
  <2> QED
    BY <1>1, <2>1
<1>3. CASE kind = "bucket"
  <2>1. rows[t][i] <= 1
    BY <1>3 DEF OnceInv, Once
  <2> QED
    BY <1>1, <2>1
<1> QED
  BY <1>2, <1>3, TypeFacts

\* The INSERT ... WHERE NOT EXISTS of sampleDataSQL fills a table once, and
\* once more at most for each INSERT that run_statement left to Trino when its
\* container ended, whatever restarts, failures and replaced Jobs there are.
THEOREM RowsInsertedOnce == Spec => []SeededOnce
BY OnceMeans, TypeInit, TypeStep, WorkInit, WorkStep, HistoryInit, HistoryStep,
   OnceInit, OnceStep, PTL DEF Spec

=============================================================================
