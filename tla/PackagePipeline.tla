-------------------------- MODULE PackagePipeline --------------------------
(***************************************************************************)
(* From a participant's packages to a decoded value: the package sync      *)
(* (backend/src/packages/package-sync.service.ts), the SQLite cache it     *)
(* fills (package-cache.service.ts), the in-memory registry in front of it *)
(* (package-registry.service.ts) and the decoders' refresh-and-retry       *)
(* (backend/src/pqs/pqs-summary.service.ts).                               *)
(*                                                                         *)
(* Background syncs, started by the poller when a node's interval is due,  *)
(* and decode requests run at once.  They share the SQLite tables, which   *)
(* survive a restart, and the registry, which remembers for the life of    *)
(* the process what it made of a package: parsed, missing, or invalid.     *)
(* Every await is a point where the others run; a restart may come at any  *)
(* point, between two rows of one loop included.                           *)
(***************************************************************************)
EXTENDS Naturals, FiniteSets

CONSTANTS
    Node,         \* configured nodes
    GrpcNode,     \* nodes in mode pqs_with_grpc
    Package,      \* package ids
    Corrupt,      \* packages whose bytes the DAML-LF loader rejects
    Task,         \* syncs and decode requests that may run at once
    MaxRestarts   \* bound on restarts of the backend

ASSUME PipelineAssumption ==
    /\ GrpcNode \subseteq Node
    /\ Corrupt \subseteq Package
    /\ MaxRestarts \in Nat

-----------------------------------------------------------------------------
(* What PackageRegistryService.packageCache says of a package. *)
Verdict == {"unread", "ready", "missing_package", "invalid_package"}

Stage == {"refs", "pqsRefs", "download", "redownload", "invalidating", "reloading"}

(* A sync wants every package of the node, a decode request the one it could
   not resolve.  "stored" tells whether the task itself stored what it wanted. *)
Job == [stage : Stage, op : {"sync", "decode"}, node : Node, wanted : SUBSET Package,
        ids : SUBSET Package, stored : BOOLEAN]

NoJob == [stage |-> "idle"]

Reply == [reason : Verdict \union {"none", "error"}, stored : BOOLEAN]
NoReply == [reason |-> "none", stored |-> FALSE]

VARIABLES
    hosted,    \* packages each participant holds
    grpcUp,    \* whether the node's gRPC services answer
    presence,  \* node_packages
    blobs,     \* packages
    loaded,    \* PackageRegistryService.packageCache
    due,       \* nodes whose sync interval has passed
    task,      \* syncs and decode requests in flight
    reply,     \* how a task's last decode request was answered
    restarts   \* restarts so far (bounds the environment)

participants == <<hosted, grpcUp>>
tables == <<presence, blobs>>
vars == <<participants, tables, loaded, due, task, reply, restarts>>

Init ==
    /\ hosted \in [Node -> SUBSET Package]
    /\ grpcUp = [n \in Node |-> TRUE]
    /\ presence = [n \in Node |-> {}]
    /\ blobs = {}
    /\ loaded = [p \in Package |-> "unread"]
    /\ due = Node
    /\ task = [t \in Task |-> NoJob]
    /\ reply = [t \in Task |-> NoReply]
    /\ restarts = 0

Idle(t) == task[t] = NoJob

-----------------------------------------------------------------------------
(* PackageRegistryService *)

(* Mutant of Resolution: the metadata row is taken for the bytes. *)
ResolutionByPresence(p) ==
    IF loaded[p] # "unread" THEN loaded[p]
    ELSE IF \A n \in Node : p \notin presence[n] THEN "missing_package"
    ELSE IF p \in Corrupt THEN "invalid_package"
    ELSE "ready"

(* loadPackageSync: a remembered verdict wins, else the table is asked. *)
Resolution(p) ==
    IF loaded[p] # "unread" THEN loaded[p]
    ELSE IF p \notin blobs THEN "missing_package"
    ELSE IF p \in Corrupt THEN "invalid_package"
    ELSE "ready"

Load(p) == loaded' = [loaded EXCEPT ![p] = Resolution(p)]

(* inspectPackage and the type resolvers read the registry and never ask for
   a refresh. *)
Inspect(p) ==
    /\ Load(p)
    /\ UNCHANGED <<participants, tables, due, task, reply, restarts>>

-----------------------------------------------------------------------------
(* PackageSyncService *)

(* Node mode decides which source is asked for the package references. *)
NewJob(op, n, wanted) ==
    [stage |-> IF n \in GrpcNode THEN "refs" ELSE "pqsRefs",
     op |-> op, node |-> n, wanted |-> wanted, ids |-> {}, stored |-> FALSE]

(* syncNodePackagesIfDue: the interval restarts before the sync has done
   anything. *)
StartSync(t, n) ==
    /\ Idle(t)
    /\ n \in due
    /\ due' = due \ {n}
    /\ task' = [task EXCEPT ![t] = NewJob("sync", n, Package)]
    /\ UNCHANGED <<participants, tables, loaded, reply, restarts>>

(* A sync that ends returns to the poller; a decode request goes on. *)
Finish(t, stored) ==
    task' = [task EXCEPT ![t] =
        IF task[t].op = "sync" THEN NoJob
        ELSE [task[t] EXCEPT !.stage = "invalidating", !.ids = {}, !.stored = stored]]

(* The poller catches what a sync throws; a decode request fails, without
   invalidating anything. *)
Fail(t) ==
    /\ task' = [task EXCEPT ![t] = NoJob]
    /\ reply' = IF task[t].op = "sync" THEN reply
                ELSE [reply EXCEPT ![t] = [reason |-> "error", stored |-> FALSE]]

Refs(t) == hosted[task[t].node] \intersect task[t].wanted

(* Mutant of ToDownload: what the node was seen with counts as downloaded. *)
ToDownloadUnseen(t) ==
    IF task[t].op = "sync" THEN Refs(t) \ presence[task[t].node] ELSE Refs(t)

(* What is downloaded: a sync skips what the cache holds, a refresh by id
   does not. *)
ToDownload(t) == IF task[t].op = "sync" THEN Refs(t) \ blobs ELSE Refs(t)

(* The references have arrived: their presence is recorded and, when they
   came over gRPC, the packages are downloaded next. *)
RefsListed(t) ==
    /\ task[t].stage = "refs"
    /\ grpcUp[task[t].node]
    /\ presence' = [presence EXCEPT ![task[t].node] = @ \union Refs(t)]
    /\ IF ToDownload(t) = {} THEN Finish(t, FALSE)
       ELSE task' = [task EXCEPT ![t].stage = "download", ![t].ids = ToDownload(t)]
    /\ UNCHANGED <<participants, blobs, loaded, due, reply, restarts>>

RefsFallBack(t) ==
    /\ task[t].stage = "refs"
    /\ ~grpcUp[task[t].node]
    /\ task' = [task EXCEPT ![t].stage = "pqsRefs"]
    /\ UNCHANGED <<participants, tables, loaded, due, reply, restarts>>

(* PQS answers or rejects.  References from PQS are recorded and nothing is
   downloaded. *)
PqsRefsListed(t) ==
    /\ task[t].stage = "pqsRefs"
    /\ presence' = [presence EXCEPT ![task[t].node] = @ \union Refs(t)]
    /\ Finish(t, FALSE)
    /\ UNCHANGED <<participants, blobs, loaded, due, reply, restarts>>

PqsRefsFail(t) ==
    /\ task[t].stage = "pqsRefs"
    /\ Fail(t)
    /\ UNCHANGED <<participants, tables, loaded, due, restarts>>

(* Promise.all over getPackage: one package that cannot be had fails all. *)
Downloadable(t) == grpcUp[task[t].node] /\ task[t].ids \subseteq hosted[task[t].node]

PackagesArrive(t) ==
    /\ task[t].stage \in {"download", "redownload"}
    /\ Downloadable(t)
    /\ blobs' = blobs \union task[t].ids
    /\ Finish(t, TRUE)
    /\ UNCHANGED <<participants, presence, loaded, due, reply, restarts>>

(* fetchPackages asks again, once, for everything. *)
DownloadFails(t) ==
    /\ task[t].stage = "download"
    /\ ~Downloadable(t)
    /\ task' = [task EXCEPT ![t].stage = "redownload"]
    /\ UNCHANGED <<participants, tables, loaded, due, reply, restarts>>

RedownloadFails(t) ==
    /\ task[t].stage = "redownload"
    /\ ~Downloadable(t)
    /\ Fail(t)
    /\ UNCHANGED <<participants, tables, loaded, due, restarts>>
-----------------------------------------------------------------------------
(* decodeContractData and decodeExerciseData *)

TheWanted(t) == CHOOSE p \in task[t].wanted : TRUE

(* The first attempt reads the registry.  A package that is missing or
   invalid is refreshed from the node the value came from. *)
Decode(t, n, p) ==
    /\ Idle(t)
    /\ Load(p)
    /\ IF Resolution(p) = "ready"
       THEN /\ reply' = [reply EXCEPT ![t] = [reason |-> "ready", stored |-> FALSE]]
            /\ UNCHANGED task
       ELSE /\ task' = [task EXCEPT ![t] = NewJob("decode", n, {p})]
            /\ reply' = [reply EXCEPT ![t] = NoReply]
    /\ UNCHANGED <<participants, tables, due, restarts>>

(* Mutant of Invalidate: the registry keeps its verdict. *)
InvalidateNothing(t) ==
    /\ task[t].stage = "invalidating"
    /\ task' = [task EXCEPT ![t].stage = "reloading"]
    /\ UNCHANGED <<participants, tables, loaded, due, reply, restarts>>

(* refreshPackageForNode, after the sync it awaited. *)
Invalidate(t) ==
    /\ task[t].stage = "invalidating"
    /\ loaded' = [loaded EXCEPT ![TheWanted(t)] = "unread"]
    /\ task' = [task EXCEPT ![t].stage = "reloading"]
    /\ UNCHANGED <<participants, tables, due, reply, restarts>>

(* The second attempt is the last: its reason is what the caller sees. *)
DecodeAgain(t) ==
    /\ task[t].stage = "reloading"
    /\ Load(TheWanted(t))
    /\ reply' = [reply EXCEPT ![t] =
          [reason |-> Resolution(TheWanted(t)), stored |-> task[t].stored]]
    /\ task' = [task EXCEPT ![t] = NoJob]
    /\ UNCHANGED <<participants, tables, due, restarts>>

-----------------------------------------------------------------------------
(* The environment *)

IntervalPasses(n) ==
    /\ n \notin due
    /\ due' = due \union {n}
    /\ UNCHANGED <<participants, tables, loaded, task, reply, restarts>>

(* A restart keeps the tables and nothing else.  The rows of one upsert loop
   are committed one by one, so a restart may leave some of them behind. *)
Restart ==
    /\ restarts < MaxRestarts
    /\ restarts' = restarts + 1
    /\ \/ UNCHANGED tables
       \/ \E t \in Task : \E written \in SUBSET Package :
             \/ /\ task[t].stage \in {"refs", "pqsRefs"}
                /\ written \subseteq Refs(t)
                /\ presence' = [presence EXCEPT ![task[t].node] = @ \union written]
                /\ UNCHANGED blobs
             \/ /\ task[t].stage \in {"download", "redownload"}
                /\ Downloadable(t) /\ written \subseteq task[t].ids
                /\ blobs' = blobs \union written
                /\ UNCHANGED presence
    /\ loaded' = [p \in Package |-> "unread"]
    /\ due' = Node
    /\ task' = [t \in Task |-> NoJob]
    /\ reply' = [t \in Task |-> NoReply]
    /\ UNCHANGED participants

(* A package is uploaded to, or removed from, a participant. *)
Upload(n, p) ==
    /\ hosted' = [hosted EXCEPT ![n] = IF p \in @ THEN @ \ {p} ELSE @ \union {p}]
    /\ UNCHANGED <<grpcUp, tables, loaded, due, task, reply, restarts>>

FlipGrpc(n) ==
    /\ n \in GrpcNode
    /\ grpcUp' = [grpcUp EXCEPT ![n] = ~@]
    /\ UNCHANGED <<hosted, tables, loaded, due, task, reply, restarts>>

-----------------------------------------------------------------------------
Proceed(t) ==
    \/ RefsListed(t) \/ RefsFallBack(t) \/ PqsRefsListed(t) \/ PqsRefsFail(t)
    \/ PackagesArrive(t) \/ DownloadFails(t) \/ RedownloadFails(t)
    \/ Invalidate(t) \/ DecodeAgain(t)

Next ==
    \/ \E t \in Task :
          \/ \E n \in Node : StartSync(t, n) \/ (\E p \in Package : Decode(t, n, p))
          \/ Proceed(t)
    \/ \E p \in Package : Inspect(p)
    \/ \E n \in Node :
          IntervalPasses(n) \/ FlipGrpc(n) \/ (\E p \in Package : Upload(n, p))
    \/ Restart

Spec == Init /\ [][Next]_vars

(* The poller asks for a sync again and again (strongly fair only because
   Task bounds what is in flight), time passes and requests end. *)
SyncFairness ==
    /\ \A n \in Node : SF_vars(\E t \in Task : StartSync(t, n)) /\ WF_vars(IntervalPasses(n))
    /\ \A t \in Task : WF_vars(Proceed(t))

FairSpec == Spec /\ SyncFairness

-----------------------------------------------------------------------------
(* Properties *)

JobOK(job) ==
    /\ job.stage \in {"refs", "download", "redownload"} => job.node \in GrpcNode
    /\ job.stage \in {"download", "redownload"} => job.ids # {} /\ job.ids \subseteq job.wanted
    /\ job.op = "decode" => \E p \in Package : job.wanted = {p}
    /\ job.op = "sync" => job.wanted = Package /\ job.stage \notin {"invalidating", "reloading"}

TypeOK ==
    /\ hosted \in [Node -> SUBSET Package]
    /\ grpcUp \in [Node -> BOOLEAN]
    /\ presence \in [Node -> SUBSET Package]
    /\ blobs \in SUBSET Package
    /\ loaded \in [Package -> Verdict]
    /\ due \in SUBSET Node
    /\ task \in [Task -> Job \union {NoJob}]
    /\ \A t \in Task : ~Idle(t) => JobOK(task[t])
    /\ reply \in [Task -> Reply]
    /\ restarts \in 0..MaxRestarts

(* Whatever bytes are cached, some node is on record as holding the package,
   restarts in the middle of a sync included. *)
StoredPackagesAreListed == blobs \subseteq UNION {presence[n] : n \in Node}

(* A decode request that has itself stored the package it lacked does not
   answer that the package is missing: no other request or inspection can put
   the stale verdict back between the invalidation and the second attempt. *)
StoredPackageDecodes ==
    \A t \in Task : reply[t].stored => reply[t].reason # "missing_package"

(* The registry speaks of bytes that are there. *)
VerdictsHaveBytes ==
    \A p \in Package : loaded[p] \in {"ready", "invalid_package"} => p \in blobs

(* A participant that answers and has every package. *)
Whole(n) == grpcUp[n] /\ hosted[n] = Package

SyncOf(n, t) == ~Idle(t) /\ task[t].op = "sync" /\ task[t].node = n

(* Each sync of node n in flight has yet to list the packages, or downloads
   all that are not stored. *)
OnCourse(n) ==
    \A t \in Task : SyncOf(n, t) =>
        \/ task[t].stage = "refs"
        \/ task[t].stage = "download" /\ Package \subseteq blobs \union task[t].ids

(* The part of SyncCatchesUp that is due to no fairness: while a participant
   is whole its syncs stay on course, whatever other tasks store or invalidate
   meanwhile, and one that ends, other than by a restart, leaves no package
   out.  Neither PQS nor a second download is resorted to. *)
SyncsComplete ==
    [][\A n \in GrpcNode : Whole(n) /\ OnCourse(n) =>
          /\ OnCourse(n)'
          /\ \A t \in Task : SyncOf(n, t) /\ Idle(t)' /\ restarts' = restarts
                => blobs' = Package]_vars

(* A participant that stays reachable and keeps its packages has all of them
   in the cache in the end, whatever syncs failed before. *)
SyncCatchesUp ==
    \A n \in GrpcNode :
        <>[](grpcUp[n] /\ hosted[n] = Package) => <>(blobs = Package)

-----------------------------------------------------------------------------
(* The inductive invariant behind StoredPackageDecodes. *)

(* What is being downloaded is on record already. *)
ListedInv ==
    \A t \in Task : task[t].stage \in {"download", "redownload"} =>
        task[t].ids \subseteq presence[task[t].node]

(* A request that stored its package finds it in the table and, once it has
   cleared the registry, no verdict that misses it. *)
StoredInv ==
    \A t \in Task : ~Idle(t) /\ task[t].stored =>
        /\ task[t].stage \in {"invalidating", "reloading"}
        /\ task[t].wanted \subseteq blobs
        /\ task[t].stage = "reloading" =>
              \A p \in task[t].wanted : loaded[p] # "missing_package"

PipelineInv ==
    /\ TypeOK
    /\ ListedInv
    /\ StoredInv
    /\ StoredPackagesAreListed
    /\ StoredPackageDecodes
    /\ VerdictsHaveBytes
=============================================================================
