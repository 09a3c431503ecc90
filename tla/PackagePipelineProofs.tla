----------------------- MODULE PackagePipelineProofs -----------------------
(***************************************************************************)
(* Theorems about PackagePipeline, for every set of nodes, packages and    *)
(* concurrent tasks: PipelineInv is inductive.                             *)
(***************************************************************************)
EXTENDS PackagePipeline, TLAPS

USE PipelineAssumption

(* The empty tables and the empty registry satisfy the invariant. *)
LEMMA PipelineInit == Init => PipelineInv
<1> SUFFICES ASSUME Init PROVE PipelineInv OBVIOUS
<1>1. NoReply \in Reply /\ NoReply.reason # "missing_package" /\ ~NoReply.stored
  BY DEF NoReply, Reply
<1>2. TypeOK
  BY <1>1 DEF Init, TypeOK, Idle, Verdict
<1>3. ListedInv /\ StoredInv
  BY DEF Init, ListedInv, StoredInv, Idle, NoJob
<1>4. StoredPackagesAreListed /\ StoredPackageDecodes /\ VerdictsHaveBytes
  BY <1>1 DEF Init, StoredPackagesAreListed, StoredPackageDecodes, VerdictsHaveBytes
<1> QED BY <1>2, <1>3, <1>4 DEF PipelineInv

(* Reading the registry never makes a verdict worse than the table. *)
LEMMA LoadKeeps ==
    ASSUME PipelineInv, NEW p \in Package, Load(p), UNCHANGED blobs
    PROVE  /\ loaded' \in [Package -> Verdict]
           /\ VerdictsHaveBytes'
           /\ \A q \in blobs : loaded[q] # "missing_package" => loaded'[q] # "missing_package"
<1>1. loaded \in [Package -> Verdict] /\ blobs \in SUBSET Package
  BY DEF PipelineInv, TypeOK
<1>2. Resolution(p) \in Verdict
  BY <1>1 DEF Resolution, Verdict
<1>3. loaded' = [loaded EXCEPT ![p] = Resolution(p)]
  BY DEF Load
<1>4. Resolution(p) \in {"ready", "invalid_package"} => p \in blobs
  BY DEF Resolution, PipelineInv, VerdictsHaveBytes
<1>5. p \in blobs /\ loaded[p] # "missing_package" => Resolution(p) # "missing_package"
  BY DEF Resolution
<1> QED BY <1>1, <1>2, <1>3, <1>4, <1>5 DEF PipelineInv, VerdictsHaveBytes

(* What a step that replaces one job has to establish: the tables and the
   registry only gain, and the new job keeps the promises of PipelineInv. *)
LEMMA JobStep ==
    ASSUME PipelineInv, NEW t \in Task, NEW job \in Job \union {NoJob},
           task' = [task EXCEPT ![t] = job],
           job # NoJob => JobOK(job),
           UNCHANGED <<participants, restarts>>,
           due' \in SUBSET Node,
           presence' \in [Node -> SUBSET Package],
           \A n \in Node : presence[n] \subseteq presence'[n],
           blobs \subseteq blobs', blobs' \in SUBSET Package,
           StoredPackagesAreListed', VerdictsHaveBytes',
           loaded' \in [Package -> Verdict],
           \A s \in Task \ {t} : \A q \in blobs :
               loaded[q] # "missing_package" => loaded'[q] # "missing_package",
           reply' \in [Task -> Reply], StoredPackageDecodes',
           job.stage \in {"download", "redownload"} => job.ids \subseteq presence'[job.node],
           job # NoJob /\ job.stored =>
               /\ job.stage \in {"invalidating", "reloading"}
               /\ job.wanted \subseteq blobs'
               /\ job.stage = "reloading" =>
                     \A p \in job.wanted : loaded'[p] # "missing_package"
    PROVE  PipelineInv'
<1>1. task \in [Task -> Job \union {NoJob}]
  BY DEF PipelineInv, TypeOK
<1>2. \A s \in Task : task'[s] = IF s = t THEN job ELSE task[s]
  BY <1>1
<1>3. TypeOK'
  <2>1. task' \in [Task -> Job \union {NoJob}]
    BY <1>1
  <2>2. \A s \in Task : (~Idle(s))' => JobOK(task[s])'
    BY <1>2 DEF PipelineInv, TypeOK, Idle, JobOK
  <2> QED BY <2>1, <2>2 DEF PipelineInv, TypeOK, participants
<1>4. ListedInv'
  <2> SUFFICES ASSUME NEW s \in Task, task'[s].stage \in {"download", "redownload"}
               PROVE  task'[s].ids \subseteq presence'[task'[s].node]
    BY DEF ListedInv
  <2>1. CASE s = t
    BY <1>2, <2>1
  <2>2. CASE s # t
    <3>1. task'[s] = task[s] /\ task[s] \in Job
      BY <1>1, <1>2, <2>2 DEF NoJob
    <3>2. task[s].node \in Node /\ task[s].ids \subseteq presence[task[s].node]
      BY <3>1 DEF Job, PipelineInv, ListedInv
    <3> QED BY <3>1, <3>2
  <2> QED BY <2>1, <2>2
<1>5. StoredInv'
  <2> SUFFICES ASSUME NEW s \in Task, task'[s] # NoJob, task'[s].stored
               PROVE  /\ task'[s].stage \in {"invalidating", "reloading"}
                      /\ task'[s].wanted \subseteq blobs'
                      /\ task'[s].stage = "reloading" =>
                            \A p \in task'[s].wanted : loaded'[p] # "missing_package"
    BY DEF StoredInv, Idle
  <2>1. CASE s = t
    BY <1>2, <2>1
  <2>2. CASE s # t
    BY <1>2, <2>2 DEF PipelineInv, StoredInv, Idle
  <2> QED BY <2>1, <2>2
<1> QED BY <1>3, <1>4, <1>5 DEF PipelineInv

(* An answer that keeps the promise of StoredPackageDecodes may be given. *)
LEMMA ReplyStep ==
    ASSUME PipelineInv, NEW t \in Task, NEW answer \in Reply,
           answer.stored => answer.reason # "missing_package",
           reply' = [reply EXCEPT ![t] = answer]
    PROVE  reply' \in [Task -> Reply] /\ StoredPackageDecodes'
<1>1. reply \in [Task -> Reply]
  BY DEF PipelineInv, TypeOK
<1>2. reply' \in [Task -> Reply] /\ \A s \in Task : reply'[s] = IF s = t THEN answer ELSE reply[s]
  BY <1>1
<1> QED BY <1>2 DEF PipelineInv, StoredPackageDecodes

(* A new job satisfies what the invariant says of a job. *)
LEMMA NewJobOK ==
    ASSUME NEW op \in {"sync", "decode"}, NEW n \in Node, NEW wanted \in SUBSET Package,
           op = "decode" => \E p \in Package : wanted = {p},
           op = "sync" => wanted = Package
    PROVE  /\ NewJob(op, n, wanted) \in Job /\ JobOK(NewJob(op, n, wanted))
           /\ NewJob(op, n, wanted).stage \in {"refs", "pqsRefs"}
           /\ ~NewJob(op, n, wanted).stored
BY DEF NewJob, Job, Stage, JobOK

(* A sync starts with nothing fetched. *)
LEMMA StartSyncKeeps ==
    ASSUME PipelineInv, NEW t \in Task, NEW n \in Node, StartSync(t, n)
    PROVE  PipelineInv'
<1> DEFINE job == NewJob("sync", n, Package)
<1>1. job \in Job /\ JobOK(job) /\ job.stage \in {"refs", "pqsRefs"} /\ ~job.stored
  BY NewJobOK
<1>2. task' = [task EXCEPT ![t] = job] /\ due' \in SUBSET Node
  BY DEF StartSync, PipelineInv, TypeOK
<1>3. UNCHANGED <<participants, tables, loaded, reply, restarts>>
  BY DEF StartSync
<1> HIDE DEF job
<1> QED BY <1>1, <1>2, <1>3, JobStep DEF PipelineInv, TypeOK, StoredPackagesAreListed,
           StoredPackageDecodes, VerdictsHaveBytes, tables

(* A decode request is answered, or starts a refresh of its package. *)
LEMMA DecodeKeeps ==
    ASSUME PipelineInv, NEW t \in Task, NEW n \in Node, NEW p \in Package, Decode(t, n, p)
    PROVE  PipelineInv'
<1>1. UNCHANGED <<participants, tables, due, restarts>> /\ Load(p) /\ UNCHANGED blobs
  BY DEF Decode, tables
<1>2. /\ loaded' \in [Package -> Verdict] /\ VerdictsHaveBytes'
      /\ \A q \in blobs : loaded[q] # "missing_package" => loaded'[q] # "missing_package"
  BY <1>1, LoadKeeps
<1>3. reply' \in [Task -> Reply] /\ StoredPackageDecodes'
  <2> DEFINE ready == [reason |-> "ready", stored |-> FALSE]
  <2>1. ready \in Reply /\ NoReply \in Reply /\ ~ready.stored /\ ~NoReply.stored
    BY DEF Reply, NoReply, Verdict
  <2>2. reply' = [reply EXCEPT ![t] = ready] \/ reply' = [reply EXCEPT ![t] = NoReply]
    BY DEF Decode
  <2> HIDE DEF ready
  <2> QED BY <2>1, <2>2, ReplyStep
<1>4. PICK job \in Job \union {NoJob} :
         /\ task' = [task EXCEPT ![t] = job]
         /\ job # NoJob => JobOK(job) /\ job.stage \in {"refs", "pqsRefs"} /\ ~job.stored
  <2>1. CASE Resolution(p) = "ready"
    <3>1. task' = [task EXCEPT ![t] = NoJob]
      BY <2>1 DEF Decode, Idle, PipelineInv, TypeOK
    <3> QED BY <3>1
  <2>2. CASE Resolution(p) # "ready"
    <3>1. task' = [task EXCEPT ![t] = NewJob("decode", n, {p})]
      BY <2>2 DEF Decode
    <3> QED BY <3>1, NewJobOK
  <2> QED BY <2>1, <2>2
<1>5. job.stage \notin {"download", "redownload"}
  BY <1>4 DEF NoJob
<1>6. /\ due' \in SUBSET Node /\ presence' \in [Node -> SUBSET Package]
      /\ presence' = presence /\ blobs' = blobs /\ blobs \in SUBSET Package
      /\ StoredPackagesAreListed'
  BY <1>1 DEF PipelineInv, TypeOK, StoredPackagesAreListed, tables
<1>7. job # NoJob => JobOK(job) /\ ~job.stored
  BY <1>4
<1>8. UNCHANGED <<participants, restarts>>
  BY <1>1
<1>9. task' = [task EXCEPT ![t] = job]
  BY <1>4
<1> QED BY <1>2, <1>3, <1>5, <1>6, <1>7, <1>8, <1>9, JobStep

(* A job in flight, and what the invariant says of it. *)
LEMMA JobInFlight ==
    ASSUME PipelineInv, NEW t \in Task, task[t].stage # "idle"
    PROVE  /\ task[t] \in Job /\ JobOK(task[t]) /\ task[t] # NoJob
           /\ task[t].node \in Node /\ task[t].wanted \in SUBSET Package
BY DEF PipelineInv, TypeOK, Idle, NoJob, Job

(* A job that has not finished can go on, and one that has can end. *)
LEMMA FinishJob ==
    ASSUME PipelineInv, NEW t \in Task, task[t].stage # "idle", NEW stored \in BOOLEAN,
           Finish(t, stored)
    PROVE  \E job \in Job \union {NoJob} :
             /\ task' = [task EXCEPT ![t] = job]
             /\ job # NoJob => JobOK(job) /\ job.stage = "invalidating"
                                /\ job.stored = stored /\ job.wanted = task[t].wanted
                                /\ task[t].op = "decode"
             /\ job.stage \notin {"download", "redownload", "reloading"}
<1>1. task[t] \in Job /\ JobOK(task[t])
  BY JobInFlight
<1>2. CASE task[t].op = "sync"
  <2>1. task' = [task EXCEPT ![t] = NoJob] /\ NoJob.stage \notin {"download", "redownload", "reloading"}
    BY <1>2 DEF Finish, NoJob
  <2> QED BY <2>1
<1>3. CASE task[t].op # "sync"
  <2> DEFINE job == [task[t] EXCEPT !.stage = "invalidating", !.ids = {}, !.stored = stored]
  <2>1. task' = [task EXCEPT ![t] = job]
    BY <1>3 DEF Finish
  <2>2. /\ job \in Job /\ job.stage = "invalidating" /\ job.stored = stored
        /\ job.wanted = task[t].wanted /\ job.op = task[t].op /\ task[t].op = "decode"
    BY <1>1, <1>3 DEF Job, Stage
  <2>3. JobOK(job)
    BY <1>1, <2>2 DEF JobOK
  <2> HIDE DEF job
  <2> QED BY <2>1, <2>2, <2>3
<1> QED BY <1>2, <1>3

(* What the tables and the registry keep when a step leaves them alone. *)
LEMMA TablesKept ==
    ASSUME PipelineInv
    PROVE  /\ UNCHANGED presence => /\ presence' \in [Node -> SUBSET Package]
                                    /\ \A n \in Node : presence[n] \subseteq presence'[n]
           /\ UNCHANGED blobs => blobs \subseteq blobs' /\ blobs' \in SUBSET Package
           /\ UNCHANGED tables => StoredPackagesAreListed'
           /\ UNCHANGED loaded =>
                 /\ loaded' \in [Package -> Verdict]
                 /\ blobs \subseteq blobs' => VerdictsHaveBytes'
                 /\ \A q \in blobs : loaded[q] # "missing_package" => loaded'[q] # "missing_package"
           /\ UNCHANGED reply => reply' \in [Task -> Reply] /\ StoredPackageDecodes'
           /\ UNCHANGED due => due' \in SUBSET Node
BY DEF PipelineInv, TypeOK, tables, StoredPackagesAreListed, VerdictsHaveBytes, StoredPackageDecodes

(* Recording presence only adds rows, and adds those of the references. *)
LEMMA PresenceGrows ==
    ASSUME PipelineInv, NEW n \in Node, NEW refs \in SUBSET Package,
           presence' = [presence EXCEPT ![n] = @ \union refs]
    PROVE  /\ presence' \in [Node -> SUBSET Package]
           /\ \A m \in Node : presence[m] \subseteq presence'[m]
           /\ refs \subseteq presence'[n]
           /\ UNCHANGED blobs => StoredPackagesAreListed'
<1>1. presence \in [Node -> SUBSET Package]
  BY DEF PipelineInv, TypeOK
<1>2. /\ presence' \in [Node -> SUBSET Package] /\ refs \subseteq presence'[n]
      /\ \A m \in Node : presence[m] \subseteq presence'[m]
  BY <1>1
<1>3. UNCHANGED blobs => StoredPackagesAreListed'
  BY <1>2 DEF PipelineInv, StoredPackagesAreListed
<1> QED BY <1>2, <1>3

(* References are among the packages wanted, downloads among the references. *)
LEMMA RefsTypes ==
    ASSUME PipelineInv, NEW t \in Task, task[t].stage # "idle"
    PROVE  /\ Refs(t) \in SUBSET Package /\ Refs(t) \subseteq task[t].wanted
           /\ ToDownload(t) \subseteq Refs(t)
BY JobInFlight DEF Refs, ToDownload, PipelineInv, TypeOK

(* References from gRPC: presence is recorded before the download starts. *)
LEMMA RefsListedKeeps ==
    ASSUME PipelineInv, NEW t \in Task, RefsListed(t)
    PROVE  PipelineInv'
<1>1. task[t].stage = "refs" /\ UNCHANGED <<participants, blobs, loaded, due, reply, restarts>>
  BY DEF RefsListed
<1>2. task[t] \in Job /\ JobOK(task[t]) /\ task[t].node \in Node /\ task[t] # NoJob
  BY <1>1, JobInFlight
<1>3. Refs(t) \in SUBSET Package /\ Refs(t) \subseteq task[t].wanted /\ ToDownload(t) \subseteq Refs(t)
  BY <1>1, RefsTypes
<1>4. presence' = [presence EXCEPT ![task[t].node] = @ \union Refs(t)]
  BY DEF RefsListed
<1>5. /\ presence' \in [Node -> SUBSET Package]
      /\ \A m \in Node : presence[m] \subseteq presence'[m]
      /\ Refs(t) \subseteq presence'[task[t].node]
      /\ StoredPackagesAreListed'
  BY <1>1, <1>2, <1>3, <1>4, PresenceGrows
<1>6. CASE ToDownload(t) = {}
  <2>1. Finish(t, FALSE)
    BY <1>6 DEF RefsListed
  <2>2. PICK job \in Job \union {NoJob} :
           /\ task' = [task EXCEPT ![t] = job]
           /\ job # NoJob => JobOK(job) /\ job.stored = FALSE
           /\ job.stage \notin {"download", "redownload", "reloading"}
    BY <1>1, <2>1, FinishJob
  <2> QED BY <1>1, <1>5, <2>2, TablesKept, JobStep
<1>7. CASE ToDownload(t) # {}
  <2> DEFINE job == [task[t] EXCEPT !.stage = "download", !.ids = ToDownload(t)]
  <2>1. task' = [task EXCEPT ![t] = job]
    BY <1>7 DEF RefsListed
  <2>2. /\ job \in Job /\ job.stage = "download" /\ job.ids = ToDownload(t)
        /\ job.node = task[t].node /\ job.wanted = task[t].wanted
        /\ job.op = task[t].op /\ job.stored = task[t].stored
    BY <1>2, <1>3 DEF Job, Stage
  <2>3. JobOK(job) /\ job.ids \subseteq presence'[job.node]
    BY <1>1, <1>2, <1>3, <1>5, <1>7, <2>2 DEF JobOK
  <2>4. ~job.stored
    BY <1>1, <1>2, <2>2 DEF PipelineInv, StoredInv, Idle, NoJob
  <2> HIDE DEF job
  <2> QED BY <1>1, <1>5, <2>1, <2>2, <2>3, <2>4, TablesKept, JobStep
<1> QED BY <1>6, <1>7

(* A step that only moves a job from one fetching stage to another. *)
LEMMA MoveKeeps ==
    ASSUME PipelineInv, NEW t \in Task, NEW stage \in {"pqsRefs", "redownload"},
           task[t].stage \in {"refs", "download"},
           stage = "redownload" => task[t].stage = "download",
           task' = [task EXCEPT ![t].stage = stage],
           UNCHANGED <<participants, tables, loaded, due, reply, restarts>>
    PROVE  PipelineInv'
<1> DEFINE job == [task[t] EXCEPT !.stage = stage]
<1>1. task[t] \in Job /\ JobOK(task[t]) /\ task[t] # NoJob /\ ~Idle(t)
  BY JobInFlight DEF Idle
<1>2. task' = [task EXCEPT ![t] = job]
  OBVIOUS
<1>3. /\ job \in Job /\ job.stage = stage /\ job.ids = task[t].ids /\ job.node = task[t].node
      /\ job.op = task[t].op /\ job.wanted = task[t].wanted /\ job.stored = task[t].stored
  BY <1>1 DEF Job, Stage
<1>4. JobOK(job) /\ ~job.stored
  BY <1>1, <1>3 DEF JobOK, PipelineInv, StoredInv
<1>5. job.stage \in {"download", "redownload"} => job.ids \subseteq presence[job.node]
  BY <1>3 DEF PipelineInv, ListedInv
<1>6. UNCHANGED presence /\ UNCHANGED blobs
  BY DEF tables
<1> HIDE DEF job
<1> QED BY <1>2, <1>3, <1>4, <1>5, <1>6, TablesKept, JobStep

(* References from PQS: presence is recorded and the job is done. *)
LEMMA PqsRefsListedKeeps ==
    ASSUME PipelineInv, NEW t \in Task, PqsRefsListed(t)
    PROVE  PipelineInv'
<1>1. /\ task[t].stage = "pqsRefs" /\ Finish(t, FALSE)
      /\ UNCHANGED <<participants, blobs, loaded, due, reply, restarts>>
      /\ presence' = [presence EXCEPT ![task[t].node] = @ \union Refs(t)]
  BY DEF PqsRefsListed
<1>2. task[t].node \in Node /\ Refs(t) \in SUBSET Package
  BY <1>1, JobInFlight, RefsTypes
<1>3. /\ presence' \in [Node -> SUBSET Package]
      /\ \A m \in Node : presence[m] \subseteq presence'[m]
      /\ StoredPackagesAreListed'
  BY <1>1, <1>2, PresenceGrows
<1>4. PICK job \in Job \union {NoJob} :
         /\ task' = [task EXCEPT ![t] = job]
         /\ job # NoJob => JobOK(job) /\ job.stored = FALSE
         /\ job.stage \notin {"download", "redownload", "reloading"}
  BY <1>1, FinishJob
<1> QED BY <1>1, <1>3, <1>4, TablesKept, JobStep

(* A task that throws leaves nothing behind but its answer. *)
LEMMA FailKeeps ==
    ASSUME PipelineInv, NEW t \in Task, Fail(t),
           UNCHANGED <<participants, tables, loaded, due, restarts>>
    PROVE  PipelineInv'
<1>1. task' = [task EXCEPT ![t] = NoJob] /\ NoJob.stage \notin {"download", "redownload"}
  BY DEF Fail, NoJob
<1>2. reply' \in [Task -> Reply] /\ StoredPackageDecodes'
  <2> DEFINE error == [reason |-> "error", stored |-> FALSE]
  <2>1. error \in Reply /\ ~error.stored
    BY DEF Reply
  <2>2. UNCHANGED reply \/ reply' = [reply EXCEPT ![t] = error]
    BY DEF Fail
  <2> HIDE DEF error
  <2> QED BY <2>1, <2>2, ReplyStep, TablesKept
<1>3. UNCHANGED presence /\ UNCHANGED blobs
  BY DEF tables
<1> QED BY <1>1, <1>2, <1>3, TablesKept, JobStep

(* A decode request wanted one package: what arrives is that package. *)
LEMMA PackagesArriveKeeps ==
    ASSUME PipelineInv, NEW t \in Task, PackagesArrive(t)
    PROVE  PipelineInv'
<1>1. /\ task[t].stage \in {"download", "redownload"} /\ Finish(t, TRUE)
      /\ blobs' = blobs \union task[t].ids
      /\ UNCHANGED <<participants, presence, loaded, due, reply, restarts>>
  BY DEF PackagesArrive
<1>2. /\ task[t] \in Job /\ JobOK(task[t]) /\ task[t].node \in Node
      /\ task[t].ids \subseteq task[t].wanted /\ task[t].wanted \in SUBSET Package
  BY <1>1, JobInFlight DEF JobOK
<1>3. blobs \subseteq blobs' /\ blobs' \in SUBSET Package
  BY <1>1, <1>2 DEF PipelineInv, TypeOK
<1>4. StoredPackagesAreListed'
  <2>1. task[t].ids \subseteq presence[task[t].node]
    BY <1>1 DEF PipelineInv, ListedInv
  <2> QED BY <1>1, <1>2, <2>1 DEF PipelineInv, StoredPackagesAreListed
<1>5. PICK job \in Job \union {NoJob} :
         /\ task' = [task EXCEPT ![t] = job]
         /\ job # NoJob => JobOK(job) /\ job.stage = "invalidating"
                            /\ job.wanted = task[t].wanted /\ task[t].op = "decode"
         /\ job.stage \notin {"download", "redownload", "reloading"}
  BY <1>1, FinishJob
<1>6. task[t].op = "decode" => task[t].wanted \subseteq blobs'
  BY <1>1, <1>2 DEF JobOK
<1> QED BY <1>1, <1>3, <1>4, <1>5, <1>6, TablesKept, JobStep

(* The one package of a decode request. *)
LEMMA WantedIsOne ==
    ASSUME PipelineInv, NEW t \in Task, task[t].stage \in {"invalidating", "reloading"}
    PROVE  TheWanted(t) \in Package /\ task[t].wanted = {TheWanted(t)} /\ task[t].op = "decode"
<1>1. task[t] \in Job /\ JobOK(task[t])
  BY JobInFlight
<1>2. task[t].op = "decode"
  BY <1>1 DEF Job, JobOK
<1> QED BY <1>1, <1>2 DEF JobOK, TheWanted

(* Clearing a verdict never brings "missing_package" back. *)
LEMMA InvalidateKeeps ==
    ASSUME PipelineInv, NEW t \in Task, Invalidate(t)
    PROVE  PipelineInv'
<1> DEFINE job == [task[t] EXCEPT !.stage = "reloading"]
           p == TheWanted(t)
<1>1. /\ task[t].stage = "invalidating" /\ task' = [task EXCEPT ![t] = job]
      /\ loaded' = [loaded EXCEPT ![p] = "unread"]
      /\ UNCHANGED <<participants, due, reply, restarts>> /\ UNCHANGED tables
      /\ UNCHANGED presence /\ UNCHANGED blobs
  BY DEF Invalidate, tables
<1>2. task[t] \in Job /\ JobOK(task[t]) /\ task[t] # NoJob /\ ~Idle(t)
  BY <1>1, JobInFlight DEF Idle
<1>3. p \in Package /\ task[t].wanted = {p} /\ task[t].op = "decode"
  BY <1>1, WantedIsOne
<1>4. /\ job \in Job /\ job.stage = "reloading" /\ job.wanted = {p}
      /\ job.op = "decode" /\ job.stored = task[t].stored
  BY <1>2, <1>3 DEF Job, Stage
<1>5. JobOK(job)
  BY <1>3, <1>4 DEF JobOK
<1>6. loaded' \in [Package -> Verdict] /\ \A q \in Package : loaded'[q] \in {loaded[q], "unread"}
  BY <1>1, <1>3 DEF PipelineInv, TypeOK, Verdict
<1>7. loaded'[p] = "unread"
  BY <1>1, <1>3 DEF PipelineInv, TypeOK
<1>8. VerdictsHaveBytes'
  BY <1>1, <1>6 DEF PipelineInv, VerdictsHaveBytes
<1>9. \A q \in blobs : loaded[q] # "missing_package" => loaded'[q] # "missing_package"
  BY <1>6 DEF PipelineInv, TypeOK
<1>10. job.stored => job.wanted \subseteq blobs' /\ \A q \in job.wanted : loaded'[q] # "missing_package"
  BY <1>1, <1>2, <1>3, <1>4, <1>7 DEF PipelineInv, StoredInv
<1> HIDE DEF job, p
<1> QED BY <1>1, <1>4, <1>5, <1>6, <1>8, <1>9, <1>10, TablesKept, JobStep

(* The second attempt of a request that stored its package finds it. *)
LEMMA DecodeAgainKeeps ==
    ASSUME PipelineInv, NEW t \in Task, DecodeAgain(t)
    PROVE  PipelineInv'
<1> DEFINE p == TheWanted(t)
           answer == [reason |-> Resolution(p), stored |-> task[t].stored]
<1>1. /\ task[t].stage = "reloading" /\ Load(p)
      /\ reply' = [reply EXCEPT ![t] = answer] /\ task' = [task EXCEPT ![t] = NoJob]
      /\ UNCHANGED <<participants, due, restarts>> /\ UNCHANGED tables
      /\ UNCHANGED presence /\ UNCHANGED blobs
  BY DEF DecodeAgain, tables
<1>2. task[t] \in Job /\ ~Idle(t)
  BY <1>1, JobInFlight DEF Idle
<1>3. p \in Package /\ task[t].wanted = {p}
  BY <1>1, WantedIsOne
<1>4. Resolution(p) \in Verdict
  BY <1>3 DEF Resolution, Verdict, PipelineInv, TypeOK
<1>5. task[t].stored \in BOOLEAN
  BY <1>2 DEF Job
<1>6. answer \in Reply
  BY <1>4, <1>5 DEF Reply
<1>7. answer.stored => answer.reason # "missing_package"
  BY <1>1, <1>2, <1>3 DEF PipelineInv, StoredInv, Resolution
<1>8. reply' \in [Task -> Reply] /\ StoredPackageDecodes'
  <2> HIDE DEF answer
  <2> QED BY <1>1, <1>6, <1>7, ReplyStep
<1>9. /\ loaded' \in [Package -> Verdict] /\ VerdictsHaveBytes'
      /\ \A q \in blobs : loaded[q] # "missing_package" => loaded'[q] # "missing_package"
  BY <1>1, <1>3, LoadKeeps
<1>10. NoJob.stage \notin {"download", "redownload"}
  BY DEF NoJob
<1> HIDE DEF p, answer
<1> QED BY <1>1, <1>8, <1>9, <1>10, TablesKept, JobStep

(* An inspection reads the registry and leaves everything else alone. *)
LEMMA InspectKeeps ==
    ASSUME PipelineInv, NEW p \in Package, Inspect(p)
    PROVE  PipelineInv'
<1>1. Load(p) /\ UNCHANGED <<participants, tables, due, task, reply, restarts>> /\ UNCHANGED blobs
  BY DEF Inspect, tables
<1>2. /\ loaded' \in [Package -> Verdict] /\ VerdictsHaveBytes'
      /\ \A q \in blobs : loaded[q] # "missing_package" => loaded'[q] # "missing_package"
  BY <1>1, LoadKeeps
<1>3. TypeOK'
  BY <1>1, <1>2 DEF PipelineInv, TypeOK, Idle, participants, tables
<1>4. ListedInv' /\ StoredPackagesAreListed' /\ StoredPackageDecodes'
  BY <1>1 DEF PipelineInv, ListedInv, StoredPackagesAreListed, StoredPackageDecodes, tables
<1>5. StoredInv'
  <2> SUFFICES ASSUME NEW t \in Task, task[t] # NoJob, task[t].stored
               PROVE  /\ task[t].stage \in {"invalidating", "reloading"}
                      /\ task[t].wanted \subseteq blobs
                      /\ task[t].stage = "reloading" =>
                            \A q \in task[t].wanted : loaded'[q] # "missing_package"
    BY <1>1 DEF StoredInv, Idle
  <2> QED BY <1>2 DEF PipelineInv, StoredInv, Idle
<1> QED BY <1>2, <1>3, <1>4, <1>5 DEF PipelineInv

(* Time and the participants touch neither the cache nor the jobs. *)
LEMMA EnvironmentKeeps ==
    ASSUME PipelineInv, UNCHANGED <<tables, loaded, task, reply, restarts>>,
           hosted' \in [Node -> SUBSET Package], grpcUp' \in [Node -> BOOLEAN],
           due' \in SUBSET Node
    PROVE  PipelineInv'
<1>1. TypeOK'
  BY DEF PipelineInv, TypeOK, Idle, tables
<1>2. ListedInv' /\ StoredInv'
  BY DEF PipelineInv, ListedInv, StoredInv, Idle, tables
<1>3. StoredPackagesAreListed' /\ StoredPackageDecodes' /\ VerdictsHaveBytes'
  BY DEF PipelineInv, StoredPackagesAreListed, StoredPackageDecodes, VerdictsHaveBytes, tables
<1> QED BY <1>1, <1>2, <1>3 DEF PipelineInv

(* A restart keeps the tables, with whatever rows had been written. *)
LEMMA RestartKeeps ==
    ASSUME PipelineInv, Restart
    PROVE  PipelineInv'
<1>1. /\ restarts' \in 0..MaxRestarts /\ UNCHANGED participants
      /\ loaded' = [p \in Package |-> "unread"] /\ due' = Node
      /\ task' = [t \in Task |-> NoJob] /\ reply' = [t \in Task |-> NoReply]
  BY DEF Restart, PipelineInv, TypeOK
<1>2. /\ presence' \in [Node -> SUBSET Package] /\ blobs' \in SUBSET Package
      /\ StoredPackagesAreListed'
  <2>1. CASE UNCHANGED tables
    BY <2>1 DEF PipelineInv, TypeOK, tables, StoredPackagesAreListed
  <2>2. ASSUME NEW t \in Task, NEW written \in SUBSET Package,
               task[t].stage \in {"refs", "pqsRefs"},
               presence' = [presence EXCEPT ![task[t].node] = @ \union written],
               UNCHANGED blobs
        PROVE  /\ presence' \in [Node -> SUBSET Package] /\ blobs' \in SUBSET Package
               /\ StoredPackagesAreListed'
    <3>1. task[t].node \in Node
      BY <2>2, JobInFlight
    <3> QED BY <2>2, <3>1, PresenceGrows DEF PipelineInv, TypeOK
  <2>3. ASSUME NEW t \in Task, NEW written \in SUBSET Package,
               task[t].stage \in {"download", "redownload"},
               written \subseteq task[t].ids,
               blobs' = blobs \union written, UNCHANGED presence
        PROVE  /\ presence' \in [Node -> SUBSET Package] /\ blobs' \in SUBSET Package
               /\ StoredPackagesAreListed'
    <3>1. task[t].node \in Node /\ task[t].ids \subseteq presence[task[t].node]
      BY <2>3, JobInFlight DEF PipelineInv, ListedInv
    <3> QED BY <2>3, <3>1 DEF PipelineInv, TypeOK, StoredPackagesAreListed
  <2> QED BY <2>1, <2>2, <2>3 DEF Restart
<1>3. NoReply \in Reply /\ ~NoReply.stored /\ NoJob.stage \notin {"download", "redownload"}
  BY DEF NoReply, Reply, NoJob
<1>4. TypeOK'
  BY <1>1, <1>2, <1>3 DEF PipelineInv, TypeOK, Idle, participants, Verdict
<1>5. ListedInv' /\ StoredInv' /\ StoredPackageDecodes' /\ VerdictsHaveBytes'
  BY <1>1, <1>3 DEF ListedInv, StoredInv, StoredPackageDecodes, VerdictsHaveBytes, Idle
<1> QED BY <1>2, <1>4, <1>5 DEF PipelineInv

(* Every step keeps the invariant. *)
LEMMA PipelineStep == PipelineInv /\ [Next]_vars => PipelineInv'
<1> SUFFICES ASSUME PipelineInv, [Next]_vars PROVE PipelineInv'
  OBVIOUS
<1>1. ASSUME NEW t \in Task, NEW n \in Node, StartSync(t, n) PROVE PipelineInv'
  BY <1>1, StartSyncKeeps
<1>2. ASSUME NEW t \in Task, NEW n \in Node, NEW p \in Package, Decode(t, n, p)
      PROVE  PipelineInv'
  BY <1>2, DecodeKeeps
<1>3. ASSUME NEW t \in Task, Proceed(t) PROVE PipelineInv'
  <2>1. CASE RefsListed(t)
    BY <2>1, RefsListedKeeps
  <2>2. CASE RefsFallBack(t)
    BY <2>2, MoveKeeps DEF RefsFallBack
  <2>3. CASE PqsRefsListed(t)
    BY <2>3, PqsRefsListedKeeps
  <2>4. CASE PqsRefsFail(t)
    BY <2>4, FailKeeps DEF PqsRefsFail
  <2>5. CASE PackagesArrive(t)
    BY <2>5, PackagesArriveKeeps
  <2>6. CASE DownloadFails(t)
    BY <2>6, MoveKeeps DEF DownloadFails
  <2>7. CASE RedownloadFails(t)
    BY <2>7, FailKeeps DEF RedownloadFails
  <2>8. CASE Invalidate(t)
    BY <2>8, InvalidateKeeps
  <2>9. CASE DecodeAgain(t)
    BY <2>9, DecodeAgainKeeps
  <2> QED BY <1>3, <2>1, <2>2, <2>3, <2>4, <2>5, <2>6, <2>7, <2>8, <2>9 DEF Proceed
<1>4. ASSUME NEW p \in Package, Inspect(p) PROVE PipelineInv'
  BY <1>4, InspectKeeps
<1>5. ASSUME NEW n \in Node, IntervalPasses(n) PROVE PipelineInv'
  BY <1>5, EnvironmentKeeps DEF IntervalPasses, participants, PipelineInv, TypeOK
<1>6. ASSUME NEW n \in Node, FlipGrpc(n) PROVE PipelineInv'
  BY <1>6, EnvironmentKeeps DEF FlipGrpc, PipelineInv, TypeOK
<1>7. ASSUME NEW n \in Node, NEW p \in Package, Upload(n, p) PROVE PipelineInv'
  BY <1>7, EnvironmentKeeps DEF Upload, PipelineInv, TypeOK
<1>8. CASE Restart
  BY <1>8, RestartKeeps
<1>9. CASE UNCHANGED vars
  BY <1>9, EnvironmentKeeps DEF vars, participants, PipelineInv, TypeOK
<1> QED BY <1>1, <1>2, <1>3, <1>4, <1>5, <1>6, <1>7, <1>8, <1>9 DEF Next

(* PipelineInv holds in every reachable state, whatever the interleaving of
   syncs, refreshes, inspections and restarts. *)
THEOREM PipelineInvariant == Spec => []PipelineInv
<1> QED BY PipelineInit, PipelineStep, PTL DEF Spec

(* A decode request that stored the package it lacked is never told that the
   package is missing. *)
THEOREM StoredPackageIsFound == Spec => []StoredPackageDecodes
<1>1. PipelineInv => StoredPackageDecodes
  BY DEF PipelineInv
<1> QED BY <1>1, PipelineInvariant, PTL

(* Some node is on record for every package whose bytes are cached, even
   after a restart in the middle of a sync. *)
THEOREM StoredPackagesListed == Spec => []StoredPackagesAreListed
<1>1. PipelineInv => StoredPackagesAreListed
  BY DEF PipelineInv
<1> QED BY <1>1, PipelineInvariant, PTL

(* The registry calls a package ready or invalid only when the cache holds
   its bytes. *)
THEOREM VerdictsBacked == Spec => []VerdictsHaveBytes
<1>1. PipelineInv => VerdictsHaveBytes
  BY DEF PipelineInv
<1> QED BY <1>1, PipelineInvariant, PTL

-----------------------------------------------------------------------------
(* Syncs of a participant that answers and has every package.              *)

(* What SyncsComplete says of a step, for one node. *)
Completes(n) ==
    /\ OnCourse(n)'
    /\ \A t \in Task : SyncOf(n, t) /\ Idle(t)' /\ restarts' = restarts => blobs' = Package

(* Replacing one job leaves the others on course, since what is stored stays. *)
LEMMA CourseKept ==
    ASSUME PipelineInv, NEW n \in Node, OnCourse(n), NEW t \in Task,
           NEW job \in Job \union {NoJob}, task' = [task EXCEPT ![t] = job],
           blobs \subseteq blobs',
           job # NoJob /\ job.op = "sync" /\ job.node = n =>
               \/ job.stage = "refs"
               \/ job.stage = "download" /\ Package \subseteq blobs' \union job.ids,
           SyncOf(n, t) /\ job = NoJob => blobs' = Package
    PROVE  Completes(n)
<1>1. \A s \in Task : task'[s] = IF s = t THEN job ELSE task[s]
  BY DEF PipelineInv, TypeOK
<1>2. OnCourse(n)'
  <2> SUFFICES ASSUME NEW s \in Task, task'[s] # NoJob, task'[s].op = "sync", task'[s].node = n
               PROVE  \/ task'[s].stage = "refs"
                      \/ task'[s].stage = "download" /\ Package \subseteq blobs' \union task'[s].ids
    BY DEF OnCourse, SyncOf, Idle
  <2>1. CASE s = t
    BY <1>1, <2>1
  <2>2. CASE s # t
    BY <1>1, <2>2 DEF OnCourse, SyncOf, Idle
  <2> QED BY <2>1, <2>2
<1>3. \A s \in Task : SyncOf(n, s) /\ Idle(s)' => blobs' = Package
  BY <1>1 DEF SyncOf, Idle
<1> QED BY <1>2, <1>3 DEF Completes

(* A job that goes on stays a sync or a decode request, of the same node, and
   takes nothing from the cache. *)
LEMMA ProceedKeepsKind ==
    ASSUME PipelineInv, NEW t \in Task, Proceed(t)
    PROVE  /\ blobs \subseteq blobs'
           /\ \E job \in Job \union {NoJob} :
                 /\ task' = [task EXCEPT ![t] = job]
                 /\ job # NoJob => job.op = task[t].op /\ job.node = task[t].node
<1>1. task[t] \in Job
  <2>1. task[t].stage # "idle"
    BY DEF Proceed, RefsListed, RefsFallBack, PqsRefsListed, PqsRefsFail, PackagesArrive,
           DownloadFails, RedownloadFails, Invalidate, DecodeAgain
  <2> QED BY <2>1, JobInFlight
<1>2. blobs \subseteq blobs'
  BY DEF Proceed, RefsListed, RefsFallBack, PqsRefsListed, PqsRefsFail, PackagesArrive,
         DownloadFails, RedownloadFails, Invalidate, DecodeAgain, tables
<1>3. \A stage \in Stage : [task[t] EXCEPT !.stage = stage] \in Job
  BY <1>1 DEF Job
<1>4. ASSUME NEW stored \in BOOLEAN
      PROVE  [task[t] EXCEPT !.stage = "invalidating", !.ids = {}, !.stored = stored] \in Job
  BY <1>1 DEF Job, Stage
<1>5. CASE Finish(t, FALSE) \/ Finish(t, TRUE)
  BY <1>1, <1>2, <1>4, <1>5 DEF Finish, Job
<1>6. CASE Fail(t) \/ DecodeAgain(t)
  BY <1>2, <1>6 DEF Fail, DecodeAgain
<1>7. CASE RefsFallBack(t) \/ DownloadFails(t) \/ Invalidate(t)
  <2>1. PICK stage \in Stage : task' = [task EXCEPT ![t].stage = stage]
    BY <1>7 DEF RefsFallBack, DownloadFails, Invalidate, Stage
  <2> DEFINE job == [task[t] EXCEPT !.stage = stage]
  <2>2. task' = [task EXCEPT ![t] = job]
    BY <2>1
  <2>3. job \in Job /\ job.op = task[t].op /\ job.node = task[t].node
    BY <1>1, <1>3 DEF Job
  <2> HIDE DEF job
  <2> QED BY <1>2, <2>2, <2>3
<1>8. CASE RefsListed(t) /\ ToDownload(t) # {}
  <2> DEFINE job == [task[t] EXCEPT !.stage = "download", !.ids = ToDownload(t)]
  <2>1. task' = [task EXCEPT ![t] = job]
    BY <1>8 DEF RefsListed
  <2>2. ToDownload(t) \in SUBSET Package
    BY <1>8, RefsTypes DEF RefsListed
  <2>3. job \in Job /\ job.op = task[t].op /\ job.node = task[t].node
    BY <1>1, <2>2 DEF Job, Stage
  <2> QED BY <1>2, <2>1, <2>3
<1> QED BY <1>5, <1>6, <1>7, <1>8 DEF Proceed, RefsListed, PqsRefsListed, PqsRefsFail,
           PackagesArrive, RedownloadFails

(* A sync of a participant that is whole lists every package and gets all that
   the cache does not hold, or has nothing to get. *)
LEMMA WholeSyncCompletes ==
    ASSUME PipelineInv, NEW n \in GrpcNode, Whole(n), OnCourse(n), NEW t \in Task, SyncOf(n, t),
           Proceed(t)
    PROVE  Completes(n)
<1>1. /\ task[t] \in Job /\ JobOK(task[t]) /\ task[t].op = "sync" /\ task[t].node = n
      /\ task[t].wanted = Package /\ n \in Node
  BY DEF SyncOf, Idle, PipelineInv, TypeOK, JobOK
<1>2. \/ task[t].stage = "refs"
      \/ task[t].stage = "download" /\ Package \subseteq blobs \union task[t].ids
  BY DEF OnCourse
<1>3. task[t].ids \subseteq Package /\ blobs \subseteq Package
  BY <1>1 DEF Job, PipelineInv, TypeOK
<1>4. Refs(t) = Package /\ ToDownload(t) = Package \ blobs
  BY <1>1 DEF Refs, ToDownload, Whole
<1>5. CASE task[t].stage = "refs"
  <2>1. RefsListed(t)
    BY <1>1, <1>5 DEF Whole, Proceed, RefsFallBack, PqsRefsListed, PqsRefsFail, PackagesArrive,
           DownloadFails, RedownloadFails, Invalidate, DecodeAgain
  <2>2. blobs' = blobs
    BY <2>1 DEF RefsListed
  <2>3. CASE Package \subseteq blobs
    <3>1. task' = [task EXCEPT ![t] = NoJob] /\ blobs' = Package
      BY <1>1, <1>3, <1>4, <2>1, <2>2, <2>3 DEF RefsListed, Finish
    <3> QED BY <1>1, <2>2, <3>1, CourseKept
  <2>4. CASE ~(Package \subseteq blobs)
    <3> DEFINE job == [task[t] EXCEPT !.stage = "download", !.ids = Package \ blobs]
    <3>1. task' = [task EXCEPT ![t] = job]
      BY <1>4, <2>1, <2>4 DEF RefsListed
    <3>2. job \in Job /\ job.stage = "download" /\ job.ids = Package \ blobs
      BY <1>1 DEF Job, Stage
    <3>3. job # NoJob
      BY <3>2 DEF NoJob
    <3> HIDE DEF job
    <3> QED BY <1>1, <2>2, <3>1, <3>2, <3>3, CourseKept
  <2> QED BY <2>3, <2>4
<1>6. CASE task[t].stage = "download" /\ Package \subseteq blobs \union task[t].ids
  <2>1. PackagesArrive(t)
    BY <1>1, <1>3, <1>6 DEF Whole, Downloadable, Proceed, RefsListed, RefsFallBack, PqsRefsListed,
           PqsRefsFail, DownloadFails, RedownloadFails, Invalidate, DecodeAgain
  <2>2. task' = [task EXCEPT ![t] = NoJob] /\ blobs' = Package
    BY <1>1, <1>3, <1>6, <2>1 DEF PackagesArrive, Finish
  <2> QED BY <1>1, <1>3, <2>2, CourseKept
<1> QED BY <1>2, <1>5, <1>6

(* PackagePipeline, SyncsComplete: while a participant answers and has every
   package, no sync of it ends without the cache having them all, whatever
   other syncs, requests and restarts come between. *)
THEOREM WholeSyncsComplete == Spec => SyncsComplete
<1>1. ASSUME PipelineInv, [Next]_vars, NEW n \in GrpcNode, Whole(n), OnCourse(n)
      PROVE  Completes(n) \/ UNCHANGED vars
  <2> n \in Node
    OBVIOUS
  <2>1. ASSUME UNCHANGED <<task, blobs>> PROVE Completes(n)
    BY <1>1, <2>1 DEF Completes, OnCourse, SyncOf, Idle
  <2>2. ASSUME NEW t \in Task, NEW m \in Node, StartSync(t, m) PROVE Completes(n)
    <3> DEFINE job == NewJob("sync", m, Package)
    <3>1. job \in Job /\ (m = n => job.stage = "refs") /\ job.node = m
      BY NewJobOK DEF NewJob
    <3>2. task' = [task EXCEPT ![t] = job] /\ blobs' = blobs /\ ~SyncOf(n, t)
      BY <2>2 DEF StartSync, tables, SyncOf
    <3> HIDE DEF job
    <3> QED BY <1>1, <3>1, <3>2, CourseKept
  <2>3. ASSUME NEW t \in Task, NEW m \in Node, NEW p \in Package, Decode(t, m, p)
        PROVE  Completes(n)
    <3>1. blobs' = blobs /\ ~SyncOf(n, t)
      BY <2>3 DEF Decode, tables, SyncOf
    <3>2. CASE task' = task
      BY <2>1, <3>1, <3>2
    <3>3. CASE task' = [task EXCEPT ![t] = NewJob("decode", m, {p})]
      <4>1. NewJob("decode", m, {p}) \in Job /\ NewJob("decode", m, {p}).op = "decode"
        BY NewJobOK DEF NewJob
      <4>2. \E job \in Job : task' = [task EXCEPT ![t] = job] /\ job.op = "decode"
        BY <3>3, <4>1
      <4> QED BY <1>1, <3>1, <4>2, CourseKept
    <3> QED BY <2>3, <3>2, <3>3 DEF Decode
  <2>4. ASSUME NEW t \in Task, Proceed(t) PROVE Completes(n)
    <3>1. CASE SyncOf(n, t)
      BY <1>1, <2>4, <3>1, WholeSyncCompletes
    <3>2. CASE ~SyncOf(n, t)
      <4>1. blobs \subseteq blobs'
        BY <1>1, <2>4, ProceedKeepsKind
      <4>2. PICK job \in Job \union {NoJob} :
               /\ task' = [task EXCEPT ![t] = job]
               /\ job # NoJob => job.op = task[t].op /\ job.node = task[t].node
        BY <1>1, <2>4, ProceedKeepsKind
      <4>3. ~Idle(t)
        <5>1. task[t].stage # "idle"
          BY <2>4 DEF Proceed, RefsListed, RefsFallBack, PqsRefsListed, PqsRefsFail,
                 PackagesArrive, DownloadFails, RedownloadFails, Invalidate, DecodeAgain
        <5> QED BY <5>1 DEF Idle, NoJob
      <4>4. ~(job # NoJob /\ job.op = "sync" /\ job.node = n)
        BY <3>2, <4>2, <4>3 DEF SyncOf
      <4> QED BY <1>1, <3>2, <4>1, <4>2, <4>4, CourseKept
    <3> QED BY <3>1, <3>2
  <2>5. ASSUME NEW p \in Package, Inspect(p) PROVE Completes(n)
    BY <2>1, <2>5 DEF Inspect, tables
  <2>6. ASSUME NEW m \in Node, IntervalPasses(m) \/ FlipGrpc(m) \/ (\E p \in Package : Upload(m, p))
        PROVE  Completes(n)
    BY <2>1, <2>6 DEF IntervalPasses, FlipGrpc, Upload, tables
  <2>7. CASE Restart
    <3>1. restarts' # restarts /\ \A t \in Task : Idle(t)'
      BY <1>1, <2>7 DEF Restart, Idle, PipelineInv, TypeOK
    <3> QED BY <3>1 DEF Completes, OnCourse, SyncOf
  <2> QED BY <1>1, <2>2, <2>3, <2>4, <2>5, <2>6, <2>7 DEF Next
<1>2. PipelineInv /\ [Next]_vars =>
         [\A n \in GrpcNode : Whole(n) /\ OnCourse(n) =>
             /\ OnCourse(n)'
             /\ \A t \in Task : SyncOf(n, t) /\ Idle(t)' /\ restarts' = restarts
                   => blobs' = Package]_vars
  BY <1>1 DEF Completes
<1> QED BY <1>2, PipelineInvariant, PTL DEF Spec, SyncsComplete
=============================================================================
