----------------------------- MODULE Debugger -----------------------------
(***************************************************************************)
(* Sessions of the debugger (backend/src/debugger/debugger.service.ts       *)
(* behind backend/src/api/debugger.controller.ts).  A session replays an    *)
(* update, or a create that never happened.  Building one takes many        *)
(* awaits: the SDK is imported once, the store of sessions is made by the   *)
(* first caller, and a gRPC client is kept open until the session is built. *)
(*                                                                          *)
(* A continuation whose promise is already settled runs before any answer   *)
(* of the outside world does: see Quiet.                                    *)
(***************************************************************************)
EXTENDS Naturals, Sequences, FiniteSets

CONSTANTS Caller,
          GrpcNodes,    \* the nodes in mode pqs_with_grpc, in configured order
          MaxSessions,  \* bound: sessions that get built
          MaxStores     \* bound: stores made, over all restarts

ASSUME BoundsAssumption == /\ MaxSessions \in Nat /\ MaxStores \in Nat
                           /\ GrpcNodes \in Seq(STRING)

Session == 1..MaxSessions
NoStore == 0
Node == {GrpcNodes[i] : i \in 1..Len(GrpcNodes)}

\* createSession names its stages; createSimulatedSession begins with the fourth.
Stages == <<"update detail", "rights", "update", "environment", "artifacts",
            "packages", "compilation", "sources", "session">>

\* Offsets of the ledger: of the replayed update, and when the contract it uses
\* is archived (never, by the update itself, or later).
UpdateOffset == 1
Never == 0
Later == 2

\* node: the position in GrpcNodes of the node whose client is in use, or that
\* is tried next; store: the store getSessionStore returned to this call;
\* history: what the environment says of the contract the update uses.
Call == [kind : {"replay", "simulation"},
         pc : {"sdk", "store", "client", "probe", "dars", "stage"},
         node : 1..(Len(GrpcNodes) + 1), store : 0..MaxStores, stage : 0..9,
         history : {"unread", "active", "archived"}]
NoCall == [kind |-> "none", pc |-> "idle", node |-> 1, store |-> NoStore, stage |-> 0,
           history |-> "unread"]

VARIABLES
  sdk,       \* sdkModulesPromise
  store,     \* sessionStore
  made,      \* how many stores were ever made; names the next
  held,      \* which session is in which store
  artifacts, \* sessionArtifacts, by session
  calls,
  open,      \* clients not disposed, by call and node
  readable,  \* whether the directory of local DARs can be read
  built,     \* how many sessions were built; names the next
  answered,  \* sessions a caller was told of and nobody disposed
  archivedAt \* on the participant: when the contract was archived

stores == <<store, made>>
sessions == <<held, artifacts, built, answered>>
world == <<readable, archivedAt>>
vars == <<sdk, stores, sessions, calls, open, world>>

-----------------------------------------------------------------------------
Init == /\ sdk = "unloaded"
        /\ store = NoStore
        /\ made = 0
        /\ held = {}
        /\ artifacts = {}
        /\ calls = [c \in Caller |-> NoCall]
        /\ open = {}
        /\ readable \in BOOLEAN
        /\ built = 0
        /\ answered = {}
        /\ archivedAt \in {Never, UpdateOffset}

Idle(c) == calls[c].pc = "idle"
At(c, pc) == calls[c].pc = pc
Moves(c, pc) == calls' = [calls EXCEPT ![c].pc = pc]
Ends(c) == calls' = [calls EXCEPT ![c] = NoCall]
HasStore(c, s, pc) == calls' = [calls EXCEPT ![c].store = s, ![c].pc = pc]

SdkSettled == sdk \in {"loaded", "failed"}

\* Mutant of Quiet: making the store waits for the outside world.
QuietUntilStore == \A c \in Caller : ~(At(c, "sdk") /\ SdkSettled)

\* The continuations that are due before anything else happens.
Quiet == \A c \in Caller : ~At(c, "store") /\ ~(At(c, "sdk") /\ SdkSettled)

\* loadSdkModules: one import for all, remembered also when it failed.
AskSdk(c) == sdk' = IF sdk = "unloaded" THEN "loading" ELSE sdk

Opens(c, i) == open' = open \cup {<<c, GrpcNodes[i]>>}
Disposes(c) == open' = open \ {<<c, GrpcNodes[calls[c].node]>>}

\* createSession of an update.
Replay(c) ==
  /\ Quiet /\ Idle(c)
  /\ AskSdk(c)
  /\ calls' = [calls EXCEPT ![c].kind = "replay", ![c].pc = "sdk"]
  /\ UNCHANGED <<open, stores, sessions, world>>

\* createSimulatedSession, once its node and template are accepted: the client
\* comes first.
Simulate(c) ==
  /\ Quiet /\ Idle(c)
  /\ \E i \in 1..Len(GrpcNodes) :
       calls' = [calls EXCEPT ![c].kind = "simulation", ![c].pc = "client",
                              ![c].node = i]
  /\ UNCHANGED <<sdk, open, stores, sessions, world>>

SdkLoads ==
  /\ Quiet /\ sdk = "loading"
  /\ sdk' \in {"loaded", "failed"}
  /\ UNCHANGED <<calls, open, stores, sessions, world>>

AfterStore(c) == IF calls[c].kind = "replay" THEN "client" ELSE "dars"

\* The import is there.  getSessionStore returns the store there is, or awaits
\* the import once more to make one.  A simulation whose import failed leaves
\* its client open.
Resume(c) ==
  /\ At(c, "sdk") /\ SdkSettled
  /\ CASE sdk = "failed" -> Ends(c)
       [] sdk # "failed" /\ store = NoStore -> Moves(c, "store")
       [] OTHER -> HasStore(c, store, AfterStore(c))
  /\ UNCHANGED <<sdk, open, stores, sessions, world>>

\* The rest of getSessionStore: nobody looks whether another made one meanwhile.
MakeStore(c) ==
  /\ At(c, "store") /\ made < MaxStores
  /\ made' = made + 1
  /\ store' = made + 1
  /\ HasStore(c, made + 1, AfterStore(c))
  /\ UNCHANGED <<sdk, open, sessions, world>>

\* A client of the node in question; a replay goes on to probe the node, a
\* simulation to the SDK.
ClientOpens(c) ==
  /\ Quiet /\ At(c, "client") /\ calls[c].node <= Len(GrpcNodes)
  /\ Opens(c, calls[c].node)
  /\ IF calls[c].kind = "replay"
     THEN Moves(c, "probe") /\ UNCHANGED sdk
     ELSE Moves(c, "sdk") /\ AskSdk(c)
  /\ UNCHANGED <<stores, sessions, world>>

\* No client, or no node left to try.
ClientFails(c) ==
  /\ Quiet /\ At(c, "client")
  /\ Ends(c)
  /\ UNCHANGED <<sdk, open, stores, sessions, world>>

\* findReplayTarget: the node has the update; its client is kept.
ProbeFinds(c) ==
  /\ Quiet /\ At(c, "probe")
  /\ Moves(c, "dars")
  /\ UNCHANGED <<sdk, open, stores, sessions, world>>

\* It does not, or cannot be asked: its client is disposed, the next is tried.
ProbeFails(c) ==
  /\ Quiet /\ At(c, "probe")
  /\ Disposes(c)
  /\ calls' = [calls EXCEPT ![c].pc = "client", ![c].node = @ + 1]
  /\ UNCHANGED <<sdk, stores, sessions, world>>

FirstStage(k) == IF k = "replay" THEN 1 ELSE 4

\* createPackageReadService reads the local DARs, outside the try that disposes
\* the client.  A single DAR that cannot be parsed is skipped.
DarsRead(c) ==
  /\ Quiet /\ At(c, "dars")
  /\ IF readable
     THEN calls' = [calls EXCEPT ![c].pc = "stage", ![c].stage = FirstStage(calls[c].kind)]
     ELSE Ends(c)
  /\ UNCHANGED <<sdk, open, stores, sessions, world>>

StageOf(c) == Stages[calls[c].stage]

Does(c, stage) ==
  /\ Quiet /\ At(c, "stage") /\ StageOf(c) = stage
  /\ UNCHANGED <<sdk, open, stores, sessions, world>>

Passes(c, stage) == Does(c, stage) /\ calls' = [calls EXCEPT ![c].stage = @ + 1]

UpdateDetail(c) == Passes(c, "update detail")   \* from PQS, with the events' time
ReplayAccess(c) == Passes(c, "rights")          \* the parties to read as
LoadUpdate(c) == Passes(c, "update")            \* by id, whatever offset is asked for
ResolveArtifacts(c) == Passes(c, "artifacts")   \* a local DAR goes before the node's
SyncPackages(c) == Passes(c, "packages")
LoadCompilation(c) == Passes(c, "compilation")
LoadSourceBundles(c) == Passes(c, "sources")

\* Mutant of HistoryAt: the events as the participant has them now.
HistoryNow(offset) == IF archivedAt # Never THEN "archived" ELSE "active"

\* The contract's events without an archive after the update; a simulation has no
\* offset to compare with.
HistoryAt(offset) == IF archivedAt \in 1..offset THEN "archived" ELSE "active"

\* The participant is asked again, for any party, when it fails or leaves the
\* create out; only then the stage fails.
BuildEnvironment(c) ==
  /\ Does(c, "environment")
  /\ calls' = [calls EXCEPT ![c].stage = @ + 1,
                 ![c].history = HistoryAt(IF calls[c].kind = "replay" THEN UpdateOffset
                                                                      ELSE Later)]

\* Any stage may throw; the error is turned into a reply and the client goes.
StageFails(c) ==
  /\ Quiet /\ At(c, "stage")
  /\ Disposes(c)
  /\ Ends(c)
  /\ UNCHANGED <<sdk, stores, sessions, world>>

\* getSession finds a session by its artifacts and by the store of the moment.
Found(s, h, a) == store # NoStore /\ <<store, s>> \in h /\ s \in a

\* The session is in the store the call was given; its artifacts are kept and
\* getSession makes the reply.
SessionBuilt(c) ==
  /\ Quiet /\ At(c, "stage") /\ StageOf(c) = "session" /\ built < MaxSessions
  /\ LET s == built + 1
         h == held \cup {<<calls[c].store, s>>}
         a == artifacts \cup {s}
     IN /\ held' = h
        /\ artifacts' = a
        /\ built' = s
        /\ answered' = IF Found(s, h, a) THEN answered \cup {s} ELSE answered
  /\ Disposes(c)
  /\ Ends(c)
  /\ UNCHANGED <<sdk, stores, world>>

\* disposeSession.
Dispose(s) ==
  /\ Quiet /\ store # NoStore /\ s \in artifacts
  /\ held' = held \ {<<store, s>>}
  /\ artifacts' = artifacts \ {s}
  /\ answered' = answered \ {s}
  /\ UNCHANGED <<sdk, calls, open, built, stores, world>>

\* Nothing of this outlives the process.
Restart ==
  /\ sdk # "unloaded"
  /\ sdk' = "unloaded"
  /\ store' = NoStore
  /\ held' = {} /\ artifacts' = {} /\ answered' = {} /\ open' = {}
  /\ calls' = [c \in Caller |-> NoCall]
  /\ UNCHANGED <<made, built, world>>

\* Somebody archives the contract after the update.
Archive ==
  /\ Quiet /\ archivedAt = Never
  /\ archivedAt' = Later
  /\ UNCHANGED <<sdk, calls, open, readable, stores, sessions>>

Next == \/ \E c \in Caller :
             \/ Replay(c) \/ Simulate(c) \/ Resume(c) \/ MakeStore(c)
             \/ ClientOpens(c) \/ ClientFails(c) \/ ProbeFinds(c) \/ ProbeFails(c)
             \/ DarsRead(c) \/ UpdateDetail(c) \/ ReplayAccess(c) \/ LoadUpdate(c)
             \/ BuildEnvironment(c) \/ ResolveArtifacts(c) \/ SyncPackages(c)
             \/ LoadCompilation(c) \/ LoadSourceBundles(c) \/ StageFails(c)
             \/ SessionBuilt(c)
        \/ SdkLoads
        \/ \E s \in Session : Dispose(s)
        \/ Restart \/ Archive

Spec == Init /\ [][Next]_vars
-----------------------------------------------------------------------------
TypeOK ==
  /\ sdk \in {"unloaded", "loading", "loaded", "failed"}
  /\ store \in 0..MaxStores /\ made \in 0..MaxStores
  /\ held \subseteq (0..MaxStores) \X Session
  /\ artifacts \subseteq Session
  /\ calls \in [Caller -> Call \cup {NoCall}]
  /\ open \subseteq Caller \X Node
  /\ readable \in BOOLEAN
  /\ built \in 0..MaxSessions
  /\ answered \subseteq Session
  /\ archivedAt \in {Never, UpdateOffset, Later}

(* A session a caller was told of can be fetched, stepped and listed until  *)
(* somebody disposes it: two first callers may make two stores, but the     *)
(* second replaces the first before either has built anything, so only a    *)
(* session nobody was told of is lost with it.                              *)
AnsweredSessionsStay == \A s \in answered : Found(s, held, artifacts)

\* Of the sessions somebody was told of, those the service finds by now.
Kept == {s \in answered : Found(s, held, artifacts)}

(* What DebuggerView relies on: the store a session was built in stays the   *)
(* one the service looks into, so what it finds of the sessions it told of    *)
(* is lost by a disposal or a restart only, and names are new.                *)
Sessions == INSTANCE DebugSessions WITH known <- Kept, last <- built
ImplementsDebugSessions ==
  /\ Sessions!SessionsSpec
  /\ [][\A s \in Kept \ Kept' : Dispose(s) \/ Restart]_vars

(* A replay runs against the ledger as it was at the update: an archive      *)
(* that comes later, before the debugger or while it reads, is not seen.    *)
ReplaySeesItsMoment ==
  \A c \in Caller :
    (calls[c].kind = "replay" /\ calls[c].history # "unread") =>
      (calls[c].history = "archived" <=> archivedAt = UpdateOffset)
=============================================================================
