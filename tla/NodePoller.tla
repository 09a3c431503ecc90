----------------------------- MODULE NodePoller -----------------------------
(***************************************************************************)
(* The polling orchestrator and the node cache it fills                    *)
(* (backend/src/orchestrator/node-poller.service.ts,                       *)
(* backend/src/cache/node-cache.service.ts, backend/src/domain/            *)
(* node-health.ts).                                                        *)
(*                                                                         *)
(* Each configured node is refreshed once during bootstrap, one node after *)
(* the other, and from then on by a timer of its own.  Nothing keeps two   *)
(* refreshes of one node from overlapping: refreshNode reads the previous  *)
(* snapshot, awaits PQS and gRPC, stores a snapshot, awaits the package    *)
(* sync, perhaps awaits an activity backfill, and only then touches the    *)
(* activity history.  A pass is one call of refreshNode.                   *)
(*                                                                         *)
(* Time is counted in ticks and a bucket is BucketSpan ticks.  PQS and the *)
(* gRPC services are external: they answer what they hold when they are    *)
(* asked, reject while they are down, or have not answered yet.            *)
(***************************************************************************)
EXTENDS Integers, Sequences, SequencesExt

CONSTANTS
    Node,          \* configured nodes
    NodeOrder,     \* configService.list()
    GrpcNode,      \* nodes in mode pqs_with_grpc
    Pass,          \* refreshNode calls that may be in flight at once
    Overlap,       \* whether a refresh may outlast the polling interval
    Responsive,    \* nodes whose PQS and gRPC answer or reject every request
    MaxTime,       \* bound on the clock
    MaxCommits,    \* bound on the updates PQS ever stores, per node
    MaxResets,     \* bound on PQS databases being re-initialised, per node
    BucketSpan,    \* ticks in an activity bucket (15 minutes)
    Retention,     \* buckets kept before the newest one (31 days)
    Backfill       \* buckets a backfill looks back (30 days)

ASSUME PollerAssumption ==
    /\ GrpcNode \subseteq Node
    /\ Responsive \subseteq Node
    /\ Overlap \in BOOLEAN
    /\ MaxTime \in Nat /\ MaxCommits \in Nat /\ MaxResets \in Nat
    /\ BucketSpan \in Nat \ {0} /\ Retention \in Nat /\ Backfill \in Nat
    /\ NodeOrder \in Seq(Node)

-----------------------------------------------------------------------------
(* What travels through a refresh *)

(* The outcome of runAttempt: PQS answers with its cumulative update count
   and gRPC with its service info; "at" is when the answer was produced. *)
Pending == [kind |-> "pending", count |-> 0, at |-> 0]
Failed == [kind |-> "failed", count |-> 0, at |-> 0]
Answer == {Pending, Failed} \union [kind : {"ok"}, count : Nat, at : Nat]

Ok(count, at) == [kind |-> "ok", count |-> count, at |-> at]

(* What a snapshot shows of a source is told by when the source said it;
   defaultLedgerSummary and defaultServiceInfo are what no source ever said. *)
Never == -1

Status == {"healthy", "degraded", "down"}

NoSnapshot == [kind |-> "none"]
NoSeries == [kind |-> "none"]
IdlePass == [stage |-> "idle"]

VARIABLES
    now,        \* wall clock
    up,         \* whether the node's PQS answers
    grpcUp,     \* whether the node's gRPC services answer
    total,      \* updates PQS holds
    committed,  \* the same, per bucket of their effective time
    commits,    \* updates stored so far (bounds the environment)
    resets,     \* re-initialisations so far (bounds the environment)
    bootAt,     \* position of onApplicationBootstrap in NodeOrder
    timers,     \* nodes whose interval timer is armed
    pass,       \* calls of refreshNode in flight
    snapshots,  \* NodeCacheService.snapshots
    history,    \* NodeCacheService.activityHistory
    baseline    \* updates that fall before the samples of the node's history

sources == <<up, grpcUp, total, committed, commits, resets>>
cache == <<snapshots, history, baseline>>
vars == <<now, sources, bootAt, timers, pass, cache>>

Bucket == 0..(MaxTime \div BucketSpan)
BucketOf(time) == time \div BucketSpan

Init ==
    /\ now = 0
    /\ up \in [Node -> BOOLEAN]
    /\ grpcUp \in [Node -> BOOLEAN]
    /\ total = [n \in Node |-> 0]
    /\ committed = [n \in Node |-> [b \in Bucket |-> 0]]
    /\ commits = [n \in Node |-> 0]
    /\ resets = [n \in Node |-> 0]
    /\ bootAt = 1
    /\ timers = {}
    /\ pass = [r \in Pass |-> IdlePass]
    /\ snapshots = [n \in Node |-> NoSnapshot]
    /\ history = [n \in Node |-> NoSeries]
    /\ baseline = [n \in Node |-> 0]

Active(r) == pass[r].stage # "idle"
InFlight(n) == {r \in Pass : Active(r) /\ pass[r].node = n}

-----------------------------------------------------------------------------
(* NodeCacheService *)

HasHistory(n) == history[n].kind = "series" /\ history[n].samples # <<>>

(* filter, as a fold: SelectSeq has no definition the provers can expand. *)
Kept(samples, wanted) ==
    FoldLeft(LAMBDA kept, s : IF s \in wanted THEN Append(kept, s) ELSE kept, <<>>, samples)

(* pruneActivitySamples keeps what is recent relative to the last sample. *)
Pruned(samples) ==
    Kept(samples, {s \in Range(samples) : s.bucket >= Last(samples).bucket - Retention})

Series(last, samples) == [kind |-> "series", last |-> last, samples |-> Pruned(samples)]

(* computeActivityDelta: a first observation and a counter that went
   backwards both start a new baseline. *)
Delta(n, count) ==
    IF history[n].kind = "none" \/ count < history[n].last THEN 0 ELSE count - history[n].last

(* Mutant of Merged: a later sample of a bucket replaces the earlier one. *)
MergedReplaces(samples, bucket, value) ==
    IF samples # <<>> /\ Last(samples).bucket = bucket
    THEN [samples EXCEPT ![Len(samples)].value = value]
    ELSE Append(samples, [bucket |-> bucket, value |-> value])

(* mergeActivitySample looks at the last sample only. *)
Merged(samples, bucket, value) ==
    IF samples # <<>> /\ Last(samples).bucket = bucket
    THEN [samples EXCEPT ![Len(samples)].value = @ + value]
    ELSE Append(samples, [bucket |-> bucket, value |-> value])

Activity(samples) == FoldLeft(LAMBDA sum, s : sum + s.value, 0, samples)

RecordActivitySample(n, time, count) ==
    LET fresh == history[n].kind = "none"
        merged == Merged(IF fresh THEN <<>> ELSE history[n].samples,
                         BucketOf(time), Delta(n, count))
    IN  /\ history' = [history EXCEPT ![n] = Series(count, merged)]
        /\ baseline' = [baseline EXCEPT ![n] =
              (IF fresh THEN count ELSE @) + Activity(merged) - Activity(Pruned(merged))]

SeedActivityHistory(n, count, samples) ==
    /\ history' = [history EXCEPT ![n] = Series(count, samples)]
    /\ baseline' = [baseline EXCEPT ![n] = total[n] - Activity(Pruned(samples))]

-----------------------------------------------------------------------------
(* NodePollerService *)

(* The first lines of refreshNode: the previous snapshot and the timestamp
   are read before anything is awaited.  A pqs_only node needs no gRPC. *)
Previous(n) ==
    IF snapshots[n] = NoSnapshot THEN [known |-> FALSE, ledger |-> Never, service |-> Never]
    ELSE [known |-> TRUE, ledger |-> snapshots[n].ledger, service |-> snapshots[n].service]

BeginRefresh(r, n, boot) ==
    pass' = [pass EXCEPT ![r] =
        [stage |-> "fetching", node |-> n, boot |-> boot,
         timestamp |-> now, previous |-> Previous(n),
         ledger |-> Pending,
         service |-> IF n \in GrpcNode THEN Pending ELSE Ok(0, now)]]

BootPending == \E r \in Pass : Active(r) /\ pass[r].boot

(* onApplicationBootstrap awaits the first refresh of a node before it arms
   the node's timer and turns to the next node. *)
Bootstrap(r) ==
    /\ ~Active(r)
    /\ bootAt <= Len(NodeOrder)
    /\ ~BootPending
    /\ BeginRefresh(r, NodeOrder[bootAt], TRUE)
    /\ UNCHANGED <<now, sources, bootAt, timers, cache>>

(* Mutant of TimerFires: a setTimeout that nothing arms again. *)
TimerFiresOnce(r, n) ==
    /\ ~Active(r)
    /\ n \in timers
    /\ BeginRefresh(r, n, FALSE)
    /\ timers' = timers \ {n}
    /\ UNCHANGED <<now, sources, bootAt, cache>>

(* The interval fires whether or not the previous refresh has ended, unless
   every refresh is known to be shorter than the interval. *)
TimerFires(r, n) ==
    /\ ~Active(r)
    /\ n \in timers
    /\ Overlap \/ InFlight(n) = {}
    /\ BeginRefresh(r, n, FALSE)
    /\ UNCHANGED <<now, sources, bootAt, timers, cache>>

(* refreshNode returns; the bootstrap loop goes on. *)
EndRefresh(r) ==
    /\ pass' = [pass EXCEPT ![r] = IdlePass]
    /\ IF pass[r].boot
       THEN timers' = timers \union {pass[r].node} /\ bootAt' = bootAt + 1
       ELSE UNCHANGED <<timers, bootAt>>

(* fetchSummary and fetchOperationalInfo, each through runAttempt. *)
PqsAnswers(r) ==
    /\ pass[r].stage = "fetching"
    /\ pass[r].ledger = Pending
    /\ pass' = [pass EXCEPT ![r].ledger =
          IF up[pass[r].node] THEN Ok(total[pass[r].node], now) ELSE Failed]
    /\ UNCHANGED <<now, sources, bootAt, timers, cache>>

GrpcAnswers(r) ==
    /\ pass[r].stage = "fetching"
    /\ pass[r].service = Pending
    /\ pass' = [pass EXCEPT ![r].service = IF grpcUp[pass[r].node] THEN Ok(0, now) ELSE Failed]
    /\ UNCHANGED <<now, sources, bootAt, timers, cache>>

(* Mutant of NodeStatus: a node with a usable snapshot counts as healthy. *)
NodeStatusIgnoringStale(pqsOk, grpcRequired, grpcOk, usable) ==
    IF (~pqsOk /\ ~usable) \/ (grpcRequired /\ ~grpcOk) THEN "degraded" ELSE "healthy"

(* computeNodeStatus, called with isStale = ~pqsOk. *)
NodeStatus(pqsOk, grpcRequired, grpcOk, usable) ==
    IF \/ ~pqsOk /\ ~usable
       \/ ~pqsOk
       \/ grpcRequired /\ ~grpcOk
    THEN "degraded"
    ELSE "healthy"

(* Mutant of Carried: a failed source loses what was known of it. *)
CarriedNothing(answer, previous) == IF answer.kind = "ok" THEN answer.at ELSE Never

(* What a source contributes to the new snapshot: its answer, else what the
   snapshot read at the start carried, else a default. *)
Carried(answer, previous) == IF answer.kind = "ok" THEN answer.at ELSE previous

NewSnapshot(p) ==
    LET pqsOk == p.ledger.kind = "ok"
        grpcRequired == p.node \in GrpcNode
        grpcOk == grpcRequired => p.service.kind = "ok"
    IN  [kind |-> "snapshot",
         status |-> NodeStatus(pqsOk, grpcRequired, grpcOk, pqsOk \/ p.previous.known),
         checkedAt |-> p.timestamp,
         ledger |-> Carried(p.ledger, p.previous.ledger),
         service |-> Carried(p.service, p.previous.service)]

(* Promise.all settles: the snapshot is replaced as a whole.  Without a
   ledger answer the refresh ends here; otherwise the rest of it needs the
   timestamp and the ledger summary only. *)
StoreSnapshot(r) ==
    LET p == pass[r] IN
    /\ p.stage = "fetching"
    /\ p.ledger # Pending /\ p.service # Pending
    /\ snapshots' = [snapshots EXCEPT ![p.node] = NewSnapshot(p)]
    /\ IF p.ledger.kind = "ok"
       THEN /\ pass' = [pass EXCEPT ![r] =
                  [stage |-> "syncing", node |-> p.node, boot |-> p.boot,
                   timestamp |-> p.timestamp, ledger |-> p.ledger]]
            /\ UNCHANGED <<timers, bootAt>>
       ELSE EndRefresh(r)
    /\ UNCHANGED <<now, sources, history, baseline>>

(* The package sync has returned or thrown, which is caught.  A node that has
   history records a sample at once; one without asks PQS for buckets. *)
RecordAfterSync(r) ==
    LET p == pass[r] IN
    /\ p.stage = "syncing"
    /\ HasHistory(p.node)
    /\ RecordActivitySample(p.node, p.timestamp, p.ledger.count)
    /\ EndRefresh(r)
    /\ UNCHANGED <<now, sources, snapshots>>

RequestBackfill(r) ==
    /\ pass[r].stage = "syncing"
    /\ ~HasHistory(pass[r].node)
    /\ pass' = [pass EXCEPT ![r].stage = "backfilling"]
    /\ UNCHANGED <<now, sources, bootAt, timers, cache>>

(* fetchActivityBuckets: the non-empty buckets of the last days, in order. *)
ActivityBuckets(n) ==
    LET every == [k \in 1..(MaxTime \div BucketSpan + 1) |->
                     [bucket |-> k - 1, value |-> committed[n][k - 1]]]
    IN  Kept(every, {s \in Range(every) : s.value > 0 /\ s.bucket >= BucketOf(now) - Backfill})

SeedFromBackfill(r) ==
    LET p == pass[r] IN
    /\ p.stage = "backfilling"
    /\ up[p.node]
    /\ ActivityBuckets(p.node) # <<>>
    /\ SeedActivityHistory(p.node, p.ledger.count, ActivityBuckets(p.node))
    /\ EndRefresh(r)
    /\ UNCHANGED <<now, sources, snapshots>>

(* An empty or failed backfill falls through to a plain sample. *)
RecordAfterBackfill(r) ==
    LET p == pass[r] IN
    /\ p.stage = "backfilling"
    /\ up[p.node] => ActivityBuckets(p.node) = <<>>
    /\ RecordActivitySample(p.node, p.timestamp, p.ledger.count)
    /\ EndRefresh(r)
    /\ UNCHANGED <<now, sources, snapshots>>

-----------------------------------------------------------------------------
(* The environment *)

Tick ==
    /\ now < MaxTime
    /\ now' = now + 1
    /\ UNCHANGED <<sources, bootAt, timers, pass, cache>>

Commit(n) ==
    /\ commits[n] < MaxCommits
    /\ commits' = [commits EXCEPT ![n] = @ + 1]
    /\ total' = [total EXCEPT ![n] = @ + 1]
    /\ committed' = [committed EXCEPT ![n][BucketOf(now)] = @ + 1]
    /\ UNCHANGED <<now, up, grpcUp, resets, bootAt, timers, pass, cache>>

(* The PQS database is restored or re-initialised: its count starts over. *)
ResetPqs(n) ==
    /\ resets[n] < MaxResets
    /\ resets' = [resets EXCEPT ![n] = @ + 1]
    /\ total' = [total EXCEPT ![n] = 0]
    /\ committed' = [committed EXCEPT ![n] = [b \in Bucket |-> 0]]
    /\ UNCHANGED <<now, up, grpcUp, commits, bootAt, timers, pass, cache>>

FlipPqs(n) ==
    /\ up' = [up EXCEPT ![n] = ~@]
    /\ UNCHANGED <<now, grpcUp, total, committed, commits, resets, bootAt, timers, pass, cache>>

FlipGrpc(n) ==
    /\ n \in GrpcNode
    /\ grpcUp' = [grpcUp EXCEPT ![n] = ~@]
    /\ UNCHANGED <<now, up, total, committed, commits, resets, bootAt, timers, pass, cache>>

-----------------------------------------------------------------------------
Answers(r) == PqsAnswers(r) \/ GrpcAnswers(r)

Continue(r) ==
    \/ StoreSnapshot(r)
    \/ RecordAfterSync(r) \/ RequestBackfill(r)
    \/ SeedFromBackfill(r) \/ RecordAfterBackfill(r)

Environment ==
    \/ Tick
    \/ \E n \in Node : Commit(n) \/ ResetPqs(n) \/ FlipPqs(n) \/ FlipGrpc(n)

Next ==
    \/ \E r \in Pass : Bootstrap(r) \/ (\E n \in Node : TimerFires(r, n)) \/ Answers(r) \/ Continue(r)
    \/ Environment

Spec == Init /\ [][Next]_vars

(* The event loop runs what is ready, timers go on firing (strongly fair only
   because Pass bounds the refreshes in flight, which the code does not), and
   responsive sources answer. *)
PollingFairness ==
    /\ SF_vars(\E r \in Pass : Bootstrap(r))
    /\ \A n \in Node : SF_vars(\E r \in Pass : TimerFires(r, n))
    /\ \A r \in Pass :
          /\ WF_vars(Active(r) /\ pass[r].node \in Responsive /\ Answers(r))
          /\ WF_vars(Continue(r))

FairSpec == Spec /\ PollingFairness

-----------------------------------------------------------------------------
(* Properties *)

Reading == Nat \union {Never}
Snapshot == [kind : {"snapshot"}, status : Status, checkedAt : Nat,
             ledger : Reading, service : Reading]
FetchingPass ==
    [stage : {"fetching"}, node : Node, boot : BOOLEAN, timestamp : Nat,
     previous : [known : BOOLEAN, ledger : Reading, service : Reading],
     ledger : Answer, service : Answer]
RecordingPass ==
    [stage : {"syncing", "backfilling"}, node : Node, boot : BOOLEAN,
     timestamp : Nat, ledger : Answer]

Refreshes == FetchingPass \union RecordingPass \union {IdlePass}

SourcesOK ==
    /\ now \in 0..MaxTime
    /\ up \in [Node -> BOOLEAN]
    /\ grpcUp \in [Node -> BOOLEAN]
    /\ total \in [Node -> Nat]
    /\ committed \in [Node -> [Bucket -> Nat]]
    /\ commits \in [Node -> Nat]
    /\ resets \in [Node -> Nat]

RefreshOK ==
    /\ bootAt \in 1..(Len(NodeOrder) + 1)
    /\ timers \in SUBSET Node
    /\ pass \in [Pass -> Refreshes]
    /\ snapshots \in [Node -> Snapshot \union {NoSnapshot}]

HistoryOK ==
    /\ history \in [Node -> [kind : {"series"}, last : Nat,
                             samples : Seq([bucket : Bucket, value : Int])] \union {NoSeries}]
    /\ baseline \in [Node -> Int]

TypeOK == SourcesOK /\ RefreshOK /\ HistoryOK

(* A snapshot shown as healthy holds what the sources answered after that
   refresh began; anything older is labelled degraded, however refreshes of
   the node overlap and overwrite each other's snapshots. *)
HealthyIsFresh ==
    \A n \in Node :
        snapshots[n] # NoSnapshot /\ snapshots[n].status = "healthy" =>
            /\ snapshots[n].ledger >= snapshots[n].checkedAt
            /\ n \in GrpcNode => snapshots[n].service >= snapshots[n].checkedAt

Reachable(n) == up[n] /\ grpcUp[n]
Healthy(n) == snapshots[n] # NoSnapshot /\ snapshots[n].status = "healthy"

(* A node whose sources stay reachable is healthy from some moment on, even
   though late refreshes from before the recovery may still store theirs. *)
SnapshotRecovers ==
    \A n \in Node : <>[]Reachable(n) => <>[]Healthy(n)

(* No refresh of node n in flight was told of a failure. *)
NoFailureHeld(n) ==
    \A r \in InFlight(n) : pass[r].stage = "fetching" => Failed \notin {pass[r].ledger, pass[r].service}

(* The part of SnapshotRecovers that is due to no fairness: once the refreshes
   that saw a node fail have ended, every snapshot stored while it is reachable
   is healthy, in whatever order the refreshes in flight end; nothing but a
   failure that a refresh itself was told of degrades a node. *)
RecoveryLasts ==
    [][\A n \in Node : Reachable(n) /\ NoFailureHeld(n) =>
          /\ NoFailureHeld(n)'
          /\ snapshots'[n] = snapshots[n] \/ Healthy(n)']_vars

Counted(n) == baseline[n] + Activity(history[n].samples)

(* While PQS does not start over, every update up to the last observed count
   is in some bucket, whatever polls failed in between and whenever the
   backfill ran. *)
NoUpdateUncounted ==
    \A n \in Node : history[n] # NoSeries /\ resets[n] = 0 => Counted(n) >= history[n].last

(* Another refresh has stored a newer ledger since this one began. *)
Overtaken(r) == pass[r].previous.ledger < snapshots[pass[r].node].ledger

(* A snapshot falls back to an older ledger reading only when the refresh that
   stores it was overtaken by another, and never behind the reading that was
   shown when it began: a failed source alone, however refreshes overlap, takes
   back nothing. *)
LedgerGoesBackOnlyOvertaken ==
    [][\A n \in Node : snapshots[n] # NoSnapshot =>
          \/ snapshots'[n].ledger >= snapshots[n].ledger
          \/ \E r \in InFlight(n) :
                /\ pass[r].stage = "fetching" /\ pass'[r].stage # "fetching"
                /\ Overtaken(r)
                /\ snapshots'[n].ledger >= pass[r].previous.ledger]_vars

-----------------------------------------------------------------------------
(* The inductive invariant behind HealthyIsFresh. *)

(* At most one refresh belongs to the bootstrap loop, the one of the node the
   loop is at. *)
BootInv ==
    /\ \A r \in Pass : Active(r) /\ pass[r].boot =>
          bootAt <= Len(NodeOrder) /\ pass[r].node = NodeOrder[bootAt]
    /\ \A r, s \in Pass :
          Active(r) /\ pass[r].boot /\ Active(s) /\ pass[s].boot => r = s

(* An answer is not older than the refresh that asked for it. *)
AnswersInv ==
    \A r \in Pass : pass[r].stage = "fetching" =>
        /\ pass[r].timestamp <= now
        /\ pass[r].ledger.kind = "ok" => pass[r].ledger.at >= pass[r].timestamp
        /\ pass[r].service.kind = "ok" => pass[r].service.at >= pass[r].timestamp

FreshInv == SourcesOK /\ RefreshOK /\ BootInv /\ AnswersInv /\ HealthyIsFresh

(* What LedgerGoesBackOnlyOvertaken rests on besides: no reading is of the
   future, and what a refresh read of the previous snapshot is not newer than
   the refresh. *)
LedgerInv ==
    /\ \A n \in Node : snapshots[n] # NoSnapshot => snapshots[n].ledger <= now
    /\ \A r \in Pass : pass[r].stage = "fetching" =>
          /\ pass[r].previous.ledger <= pass[r].timestamp
          /\ pass[r].ledger.kind = "ok" => pass[r].ledger.at <= now

(* What NoUpdateUncounted rests on: a refresh that goes on after its snapshot
   was answered by PQS, and none in flight holds a count above what PQS has
   stored, unless PQS started over since. *)
AnswersCounted ==
    \A r \in Pass : Active(r) =>
        /\ pass[r].timestamp <= now
        /\ pass[r].stage = "fetching" \/ pass[r].ledger.kind = "ok"
        /\ pass[r].ledger.kind = "ok" /\ resets[pass[r].node] = 0 =>
              pass[r].ledger.count <= total[pass[r].node]

CountedInv == HistoryOK /\ AnswersCounted /\ NoUpdateUncounted
=============================================================================
