--------------------------- MODULE DebuggerProofs ---------------------------
(***************************************************************************)
(* Proofs about Debugger, for any callers, nodes and numbers of sessions:   *)
(* what it promises of its sessions (DebugSessions), that a session         *)
(* somebody was told of is still found, and that a replay sees the ledger   *)
(* of its moment.  And about its page (DebuggerView), for any updates and   *)
(* numbers of steps and requests under way: the events beside a session are *)
(* its own, and a settled page stands at the address of what it shows.      *)
(***************************************************************************)
EXTENDS MCDebugger, TLAPS

\* A node is being probed only while there is one.
Probing == \A c \in Caller : At(c, "probe") => calls[c].node <= Len(GrpcNodes)

Typed == TypeOK /\ Probing

-----------------------------------------------------------------------------
LEMMA LenInNat == Len(GrpcNodes) \in Nat
  BY BoundsAssumption

LEMMA NoCallTyped == NoCall \in Call \cup {NoCall} /\ NoCall.pc = "idle"
  BY DEF NoCall

LEMMA IdleIsNoCall ==
  ASSUME TypeOK, NEW c \in Caller, Idle(c) PROVE calls[c] = NoCall
<1>1. calls[c] \in Call \cup {NoCall}
  BY DEF TypeOK
<1>2. calls[c].pc = "idle"
  BY DEF Idle
<1> QED BY <1>1, <1>2 DEF Call

LEMMA BusyIsCall ==
  ASSUME TypeOK, NEW c \in Caller, ~Idle(c) PROVE calls[c] \in Call
<1>1. calls[c] \in Call \cup {NoCall}
  BY DEF TypeOK
<1> QED BY <1>1 DEF Idle, NoCall

\* A stage that is not the last is followed by one.
LEMMA StagesGoOn ==
  ASSUME NEW i \in 0..9, Stages[i] # "session" PROVE i + 1 \in 0..9
<1>1. Stages[9] = "session"
  BY DEF Stages
<1> QED BY <1>1

\* One call changes, and is typed.
LEMMA CallChanges ==
  ASSUME Typed, NEW c \in Caller, NEW r \in Call \cup {NoCall},
         calls' = [calls EXCEPT ![c] = r],
         r.pc = "probe" => r.node <= Len(GrpcNodes)
  PROVE  calls' \in [Caller -> Call \cup {NoCall}] /\ Probing'
<1>1. calls' \in [Caller -> Call \cup {NoCall}]
  BY DEF Typed, TypeOK
<1>2. \A d \in Caller : calls'[d] = IF d = c THEN r ELSE calls[d]
  BY DEF Typed, TypeOK
<1> QED BY <1>1, <1>2 DEF Typed, Probing, At

LEMMA CallEnds ==
  ASSUME Typed, NEW c \in Caller, Ends(c)
  PROVE  calls' \in [Caller -> Call \cup {NoCall}] /\ Probing'
<1>1. NoCall.pc # "probe"
  BY DEF NoCall
<1> QED BY <1>1, NoCallTyped, CallChanges DEF Ends

LEMMA CallMoves ==
  ASSUME Typed, NEW c \in Caller, ~Idle(c),
         NEW pc \in {"sdk", "store", "client", "probe", "dars", "stage"}, Moves(c, pc),
         pc = "probe" => calls[c].node <= Len(GrpcNodes)
  PROVE  calls' \in [Caller -> Call \cup {NoCall}] /\ Probing'
<1> DEFINE r == [calls[c] EXCEPT !.pc = pc]
<1>1. calls[c] \in Call
  BY BusyIsCall DEF Typed
<1>2. r \in Call /\ r.pc = pc /\ r.node = calls[c].node
  BY <1>1 DEF Call
<1>3. calls' = [calls EXCEPT ![c] = r]
  BY DEF Moves
<1> HIDE DEF r
<1> QED BY <1>2, <1>3, CallChanges

-----------------------------------------------------------------------------
LEMMA InitTyped == Init => Typed
<1> SUFFICES ASSUME Init PROVE Typed
  OBVIOUS
<1>1. \A c \in Caller : calls[c] = NoCall
  BY DEF Init
<1>2. Probing
  BY <1>1 DEF Probing, At, NoCall
<1> QED BY <1>2, BoundsAssumption DEF Init, Typed, TypeOK, NoStore, Never, UpdateOffset, Later

LEMMA StoreIsGiven ==
  ASSUME Typed, NEW c \in Caller, ~Idle(c), NEW s \in 0..MaxStores,
         HasStore(c, s, AfterStore(c))
  PROVE  calls' \in [Caller -> Call \cup {NoCall}] /\ Probing'
<1> DEFINE r == [calls[c] EXCEPT !.store = s, !.pc = AfterStore(c)]
<1>1. calls[c] \in Call
  BY BusyIsCall DEF Typed
<1>2. AfterStore(c) \in {"client", "dars"}
  BY DEF AfterStore
<1>3. r \in Call /\ r.pc # "probe"
  BY <1>1, <1>2 DEF Call
<1>4. calls' = [calls EXCEPT ![c] = r]
  BY DEF HasStore
<1> HIDE DEF r
<1> QED BY <1>3, <1>4, CallChanges

LEMMA CallPasses ==
  ASSUME Typed, NEW c \in Caller, At(c, "stage"), StageOf(c) # "session",
         NEW h \in {"unread", "active", "archived"},
         calls' = [calls EXCEPT ![c] = [calls[c] EXCEPT !.stage = @ + 1, !.history = h]]
  PROVE  calls' \in [Caller -> Call \cup {NoCall}] /\ Probing'
<1> DEFINE r == [calls[c] EXCEPT !.stage = @ + 1, !.history = h]
<1>1. calls[c] \in Call
  BY BusyIsCall DEF Typed, At, Idle
<1>2. calls[c].stage \in 0..9
  BY <1>1 DEF Call
<1>3. calls[c].stage + 1 \in 0..9
  BY <1>2, StagesGoOn DEF StageOf
<1>4. r \in Call /\ r.pc = "stage"
  BY <1>1, <1>3 DEF Call, At
<1>5. calls' = [calls EXCEPT ![c] = r]
  OBVIOUS
<1> HIDE DEF r
<1> QED BY <1>4, <1>5, CallChanges

\* A call begins.
LEMMA CallBegins ==
  ASSUME Typed, NEW c \in Caller, Idle(c),
         NEW k \in {"replay", "simulation"}, NEW pc \in {"sdk", "client"},
         NEW i \in 1..(Len(GrpcNodes) + 1),
         calls' = [calls EXCEPT ![c] = [calls[c] EXCEPT !.kind = k, !.pc = pc, !.node = i]]
  PROVE  calls' \in [Caller -> Call \cup {NoCall}] /\ Probing'
<1> DEFINE r == [calls[c] EXCEPT !.kind = k, !.pc = pc, !.node = i]
<1>1. calls[c] = NoCall
  BY IdleIsNoCall DEF Typed
<1>2. calls[c] \in [kind : {"none"}, pc : {"idle"}, node : 1..(Len(GrpcNodes) + 1),
                    store : 0..MaxStores, stage : 0..9,
                    history : {"unread", "active", "archived"}]
  <2>1. NoStore \in 0..MaxStores /\ 0 \in 0..9 /\ 1 \in 1..(Len(GrpcNodes) + 1)
    BY BoundsAssumption, LenInNat DEF NoStore
  <2> QED BY <1>1, <2>1 DEF NoCall
<1>3. r \in Call /\ r.pc # "probe"
  BY <1>2 DEF Call
<1>4. calls' = [calls EXCEPT ![c] = r]
  OBVIOUS
<1> HIDE DEF r
<1> QED BY <1>3, <1>4, CallChanges

LEMMA NextTyped == Typed /\ [Next]_vars => Typed'
<1> SUFFICES ASSUME Typed, [Next]_vars PROVE Typed'
  OBVIOUS
<1>0. TypeOK
  BY DEF Typed
<1>a. ASSUME NEW c \in Caller, Replay(c) PROVE Typed'
  <2>1. calls' = [calls EXCEPT ![c] =
                    [calls[c] EXCEPT !.kind = "replay", !.pc = "sdk", !.node = 1]]
    BY <1>0, <1>a, IdleIsNoCall DEF Replay, NoCall, TypeOK
  <2>2. 1 \in 1..(Len(GrpcNodes) + 1) /\ Idle(c)
    BY <1>a, LenInNat DEF Replay
  <2>3. calls' \in [Caller -> Call \cup {NoCall}] /\ Probing'
    BY <2>1, <2>2, CallBegins
  <2> QED BY <1>0, <1>a, <2>3 DEF Replay, AskSdk, Typed, TypeOK, stores, sessions, world
<1>b. ASSUME NEW c \in Caller, Simulate(c) PROVE Typed'
  <2>1. PICK i \in 1..Len(GrpcNodes) :
          calls' = [calls EXCEPT ![c].kind = "simulation", ![c].pc = "client", ![c].node = i]
    BY <1>b DEF Simulate
  <2>2. calls' = [calls EXCEPT ![c] =
                    [calls[c] EXCEPT !.kind = "simulation", !.pc = "client", !.node = i]]
    BY <2>1
  <2>3. i \in 1..(Len(GrpcNodes) + 1) /\ Idle(c)
    BY <1>b, LenInNat DEF Simulate
  <2>4. calls' \in [Caller -> Call \cup {NoCall}] /\ Probing'
    BY <2>2, <2>3, CallBegins
  <2> QED BY <1>0, <1>b, <2>4 DEF Simulate, Typed, TypeOK, stores, sessions, world
<1>c. ASSUME NEW c \in Caller, Resume(c) PROVE Typed'
  <2>1. ~Idle(c)
    BY <1>c DEF Resume, At, Idle
  <2>2. calls' \in [Caller -> Call \cup {NoCall}] /\ Probing'
    <3>1. CASE Ends(c)
      BY <3>1, CallEnds
    <3>2. CASE Moves(c, "store")
      BY <2>1, <3>2, CallMoves
    <3>3. CASE HasStore(c, store, AfterStore(c))
      BY <1>0, <2>1, <3>3, StoreIsGiven DEF TypeOK
    <3> QED BY <1>c, <3>1, <3>2, <3>3 DEF Resume
  <2> QED BY <1>0, <1>c, <2>2 DEF Resume, Typed, TypeOK, stores, sessions, world
<1>d. ASSUME NEW c \in Caller, MakeStore(c) PROVE Typed'
  <2>1. ~Idle(c) /\ made + 1 \in 0..MaxStores
    BY <1>0, <1>d, BoundsAssumption DEF MakeStore, At, Idle, TypeOK
  <2>2. calls' \in [Caller -> Call \cup {NoCall}] /\ Probing'
    BY <1>d, <2>1, StoreIsGiven DEF MakeStore
  <2> QED BY <1>0, <1>d, <2>1, <2>2 DEF MakeStore, Typed, TypeOK, sessions, world
<1>e. ASSUME NEW c \in Caller, ClientOpens(c) PROVE Typed'
  <2>1. ~Idle(c) /\ calls[c].node <= Len(GrpcNodes)
    BY <1>e DEF ClientOpens, At, Idle
  <2>2. calls' \in [Caller -> Call \cup {NoCall}] /\ Probing'
    <3>1. CASE Moves(c, "probe")
      BY <2>1, <3>1, CallMoves
    <3>2. CASE Moves(c, "sdk")
      BY <2>1, <3>2, CallMoves
    <3> QED BY <1>e, <3>1, <3>2 DEF ClientOpens
  <2>3. GrpcNodes[calls[c].node] \in Node
    <3>1. calls[c].node \in 1..(Len(GrpcNodes) + 1)
      BY <1>0, <2>1, BusyIsCall DEF Call
    <3>2. calls[c].node \in 1..Len(GrpcNodes)
      BY <2>1, <3>1, LenInNat
    <3> QED BY <3>2 DEF Node
  <2>4. open' \subseteq Caller \X Node
    BY <1>0, <1>e, <2>3 DEF ClientOpens, Opens, TypeOK
  <2>5. sdk' \in {"unloaded", "loading", "loaded", "failed"}
    BY <1>0, <1>e DEF ClientOpens, AskSdk, TypeOK
  <2> QED BY <1>0, <1>e, <2>2, <2>4, <2>5
          DEF ClientOpens, Typed, TypeOK, stores, sessions, world
<1>f. ASSUME NEW c \in Caller, ClientFails(c) PROVE Typed'
  BY <1>0, <1>f, CallEnds DEF ClientFails, Typed, TypeOK, stores, sessions, world
<1>g. ASSUME NEW c \in Caller, ProbeFinds(c) PROVE Typed'
  <2>1. ~Idle(c) /\ Moves(c, "dars")
    BY <1>g DEF ProbeFinds, At, Idle
  <2>2. calls' \in [Caller -> Call \cup {NoCall}] /\ Probing'
    BY <2>1, CallMoves
  <2> QED BY <1>0, <1>g, <2>2 DEF ProbeFinds, Typed, TypeOK, stores, sessions, world
<1>h. ASSUME NEW c \in Caller, ProbeFails(c) PROVE Typed'
  <2> DEFINE r == [calls[c] EXCEPT !.pc = "client", !.node = @ + 1]
  <2>1. calls[c] \in Call
    BY <1>0, <1>h, BusyIsCall DEF ProbeFails, At, Idle
  <2>2. calls[c].node <= Len(GrpcNodes) /\ calls[c].node \in 1..(Len(GrpcNodes) + 1)
    BY <1>h, <2>1 DEF ProbeFails, Typed, Probing, Call
  <2>3. calls[c].node + 1 \in 1..(Len(GrpcNodes) + 1)
    BY <2>2, LenInNat
  <2>4. r \in Call /\ r.pc # "probe"
    BY <2>1, <2>3 DEF Call
  <2>5. calls' = [calls EXCEPT ![c] = r]
    BY <1>h DEF ProbeFails
  <2>6. calls' \in [Caller -> Call \cup {NoCall}] /\ Probing'
    <3> HIDE DEF r
    <3> QED BY <2>4, <2>5, CallChanges
  <2>7. open' \subseteq Caller \X Node
    BY <1>0, <1>h DEF ProbeFails, Disposes, TypeOK
  <2> QED BY <1>0, <1>h, <2>6, <2>7 DEF ProbeFails, Typed, TypeOK, stores, sessions, world
<1>i. ASSUME NEW c \in Caller, DarsRead(c) PROVE Typed'
  <2>1. calls' \in [Caller -> Call \cup {NoCall}] /\ Probing'
    <3>1. CASE readable
      <4> DEFINE r == [calls[c] EXCEPT !.pc = "stage", !.stage = FirstStage(calls[c].kind)]
      <4>1. calls[c] \in Call
        BY <1>0, <1>i, BusyIsCall DEF DarsRead, At, Idle
      <4>0. FirstStage(calls[c].kind) \in 0..9
        BY DEF FirstStage
      <4>2. r \in Call /\ r.pc # "probe"
        BY <4>0, <4>1 DEF Call
      <4>3. calls' = [calls EXCEPT ![c] = r]
        BY <1>i, <3>1 DEF DarsRead
      <4> HIDE DEF r
      <4> QED BY <4>2, <4>3, CallChanges
    <3>2. CASE ~readable
      BY <1>i, <3>2, CallEnds DEF DarsRead
    <3> QED BY <3>1, <3>2
  <2> QED BY <1>0, <1>i, <2>1 DEF DarsRead, Typed, TypeOK, stores, sessions, world
<1>j. ASSUME NEW c \in Caller, NEW stage, stage # "session", Passes(c, stage) PROVE Typed'
  <2>1. At(c, "stage") /\ StageOf(c) # "session" /\ calls[c] \in Call
    BY <1>0, <1>j, BusyIsCall DEF Passes, Does, At, Idle
  <2>2. calls[c].history \in {"unread", "active", "archived"}
    BY <2>1 DEF Call
  <2>3. calls' = [calls EXCEPT ![c] =
                    [calls[c] EXCEPT !.stage = @ + 1, !.history = calls[c].history]]
    BY <1>j, <2>1 DEF Passes, Call
  <2>4. calls' \in [Caller -> Call \cup {NoCall}] /\ Probing'
    BY <2>1, <2>2, <2>3, CallPasses
  <2> QED BY <1>0, <1>j, <2>4 DEF Passes, Does, Typed, TypeOK, stores, sessions, world
<1>k. ASSUME NEW c \in Caller, BuildEnvironment(c) PROVE Typed'
  <2> DEFINE h == HistoryAt(IF calls[c].kind = "replay" THEN UpdateOffset ELSE Later)
  <2>1. h \in {"unread", "active", "archived"}
    BY DEF HistoryAt
  <2>2. calls' = [calls EXCEPT ![c] = [calls[c] EXCEPT !.stage = @ + 1, !.history = h]]
    BY <1>k DEF BuildEnvironment
  <2>3. At(c, "stage") /\ StageOf(c) # "session"
    BY <1>k DEF BuildEnvironment, Does
  <2>4. calls' \in [Caller -> Call \cup {NoCall}] /\ Probing'
    <3> HIDE DEF h
    <3> QED BY <2>1, <2>2, <2>3, CallPasses
  <2> QED BY <1>0, <1>k, <2>4 DEF BuildEnvironment, Does, Typed, TypeOK, stores, sessions, world
<1>l. ASSUME NEW c \in Caller, StageFails(c) PROVE Typed'
  BY <1>0, <1>l, CallEnds DEF StageFails, Disposes, Typed, TypeOK, stores, sessions, world
<1>m. ASSUME NEW c \in Caller, SessionBuilt(c) PROVE Typed'
  <2>1. built + 1 \in Session /\ built + 1 \in 0..MaxSessions
    BY <1>0, <1>m, BoundsAssumption DEF SessionBuilt, Session, TypeOK
  <2>2. calls' \in [Caller -> Call \cup {NoCall}] /\ Probing'
    BY <1>m, CallEnds DEF SessionBuilt
  <2>3. answered' \subseteq Session /\ artifacts' \subseteq Session
    BY <1>0, <1>m, <2>1 DEF SessionBuilt, TypeOK
  <2>4. open' \subseteq Caller \X Node
    BY <1>0, <1>m DEF SessionBuilt, Disposes, TypeOK
  <2>5. calls[c].store \in 0..MaxStores
    BY <1>0, <1>m, BusyIsCall DEF SessionBuilt, At, Idle, Call
  <2>6. held' \subseteq (0..MaxStores) \X Session
    BY <1>0, <1>m, <2>1, <2>5 DEF SessionBuilt, TypeOK
  <2> QED BY <1>0, <1>m, <2>1, <2>2, <2>3, <2>4, <2>6
          DEF SessionBuilt, Typed, TypeOK, stores, world
<1>n. CASE SdkLoads
  BY <1>0, <1>n DEF SdkLoads, Typed, TypeOK, Probing, At, stores, sessions, world
<1>o. ASSUME NEW s \in Session, Dispose(s) PROVE Typed'
  BY <1>0, <1>o DEF Dispose, Typed, TypeOK, Probing, At, stores, world
<1>p. CASE Restart
  <2>1. \A c \in Caller : calls'[c] = NoCall
    BY <1>p DEF Restart
  <2>2. Probing'
    BY <2>1 DEF Probing, At, NoCall
  <2> QED BY <1>0, <1>p, <2>2, BoundsAssumption DEF Restart, Typed, TypeOK, world, NoStore
<1>q. CASE Archive
  BY <1>0, <1>q DEF Archive, Typed, TypeOK, Probing, At, stores, sessions
<1>r. CASE UNCHANGED vars
  BY <1>0, <1>r DEF vars, Typed, TypeOK, Probing, At, stores, sessions, world
<1>s. ASSUME NEW c \in Caller,
             \/ UpdateDetail(c) \/ ReplayAccess(c) \/ LoadUpdate(c) \/ ResolveArtifacts(c)
             \/ SyncPackages(c) \/ LoadCompilation(c) \/ LoadSourceBundles(c)
      PROVE Typed'
  BY <1>j, <1>s DEF UpdateDetail, ReplayAccess, LoadUpdate, ResolveArtifacts, SyncPackages,
                    LoadCompilation, LoadSourceBundles
<1> QED BY <1>a, <1>b, <1>c, <1>d, <1>e, <1>f, <1>g, <1>h, <1>i, <1>k, <1>l, <1>m, <1>n,
           <1>o, <1>p, <1>q, <1>r, <1>s DEF Next

THEOREM TypeCorrect == Spec => []Typed
<1> QED BY InitTyped, NextTyped, PTL DEF Spec

-----------------------------------------------------------------------------
(* Sessions.                                                               *)

\* Once somebody was told of a session, there is a store and nobody makes another.
OneStore == answered # {} => \A c \in Caller : ~At(c, "store")

SessionsInv == Typed /\ OneStore /\ AnsweredSessionsStay

\* A step that leaves the store and the sessions alone; a call comes to make a
\* store only if there is none.
Aside == /\ UNCHANGED <<store, sessions>>
         /\ \A d \in Caller : calls'[d].pc = "store" => calls[d].pc = "store" \/ store = NoStore

LEMMA SessionsKept == ASSUME SessionsInv, Typed', Aside PROVE SessionsInv'
<1>1. AnsweredSessionsStay'
  BY DEF SessionsInv, AnsweredSessionsStay, Found, Aside, sessions
<1>2. answered # {} => store # NoStore
  BY DEF SessionsInv, AnsweredSessionsStay, Found
<1>3. OneStore'
  BY <1>2 DEF SessionsInv, OneStore, At, Aside, sessions
<1> QED BY <1>1, <1>3 DEF SessionsInv

LEMMA InitSessions == Init => SessionsInv
<1> SUFFICES ASSUME Init PROVE SessionsInv
  OBVIOUS
<1> QED BY InitTyped DEF Init, SessionsInv, OneStore, AnsweredSessionsStay

LEMMA NextSessions == SessionsInv /\ [Next]_vars => SessionsInv'
<1> SUFFICES ASSUME SessionsInv, [Next]_vars PROVE SessionsInv'
  OBVIOUS
<1>0. Typed /\ TypeOK /\ Typed' /\ TypeOK'
  BY NextTyped DEF SessionsInv, Typed
<1>1. calls \in [Caller -> Call \cup {NoCall}]
  BY <1>0 DEF TypeOK
<1>2. ASSUME NEW c \in Caller, NEW pc, pc # "store" \/ store = NoStore, Moves(c, pc),
             UNCHANGED <<store, sessions>>
      PROVE  SessionsInv'
  <2>1. Aside
    BY <1>1, <1>2 DEF Moves, Aside, Call, NoCall
  <2> QED BY <1>0, <2>1, SessionsKept
<1>3. ASSUME NEW c \in Caller, Ends(c), UNCHANGED <<store, sessions>>
      PROVE  SessionsInv'
  <2>1. Aside
    BY <1>1, <1>3 DEF Ends, Aside, NoCall
  <2> QED BY <1>0, <2>1, SessionsKept
<1>4. ASSUME NEW c \in Caller, NEW s, HasStore(c, s, AfterStore(c)), UNCHANGED <<store, sessions>>
      PROVE  SessionsInv'
  <2>1. AfterStore(c) # "store"
    BY DEF AfterStore
  <2>2. Aside
    BY <1>1, <1>4, <2>1 DEF HasStore, Aside, Call, NoCall
  <2> QED BY <1>0, <2>2, SessionsKept
<1>a. ASSUME NEW c \in Caller, Replay(c) PROVE SessionsInv'
  <2>1. Aside
    BY <1>1, <1>a DEF Replay, Aside, Call, NoCall, stores
  <2> QED BY <1>0, <2>1, SessionsKept
<1>b. ASSUME NEW c \in Caller, Simulate(c) PROVE SessionsInv'
  <2>1. Aside
    BY <1>1, <1>b DEF Simulate, Aside, Call, NoCall, stores
  <2> QED BY <1>0, <2>1, SessionsKept
<1>c. ASSUME NEW c \in Caller, Resume(c) PROVE SessionsInv'
  BY <1>c, <1>2, <1>3, <1>4 DEF Resume, stores
<1>d. ASSUME NEW c \in Caller, MakeStore(c) PROVE SessionsInv'
  <2>1. answered = {}
    BY <1>d DEF MakeStore, SessionsInv, OneStore
  <2>2. answered' = {}
    BY <1>d, <2>1 DEF MakeStore, sessions
  <2> QED BY <1>0, <2>2 DEF SessionsInv, OneStore, AnsweredSessionsStay
<1>e. ASSUME NEW c \in Caller, ClientOpens(c) PROVE SessionsInv'
  BY <1>e, <1>2 DEF ClientOpens, stores
<1>f. ASSUME NEW c \in Caller, ClientFails(c) \/ StageFails(c) PROVE SessionsInv'
  BY <1>f, <1>3 DEF ClientFails, StageFails, stores
<1>g. ASSUME NEW c \in Caller, ProbeFinds(c) PROVE SessionsInv'
  BY <1>g, <1>2 DEF ProbeFinds, stores
<1>h. ASSUME NEW c \in Caller, ProbeFails(c) PROVE SessionsInv'
  <2>1. Aside
    BY <1>1, <1>h DEF ProbeFails, Aside, Call, NoCall, stores
  <2> QED BY <1>0, <2>1, SessionsKept
<1>i. ASSUME NEW c \in Caller, DarsRead(c) PROVE SessionsInv'
  <2>1. CASE readable
    <3>1. Aside
      BY <1>1, <1>i, <2>1 DEF DarsRead, Aside, Call, NoCall, stores
    <3> QED BY <1>0, <3>1, SessionsKept
  <2>2. CASE ~readable
    BY <1>i, <1>3, <2>2 DEF DarsRead, stores
  <2> QED BY <2>1, <2>2
<1>j. ASSUME NEW c \in Caller, NEW stage, Passes(c, stage) PROVE SessionsInv'
  <2>1. Aside
    BY <1>1, <1>j DEF Passes, Does, Aside, Call, NoCall, stores
  <2> QED BY <1>0, <2>1, SessionsKept
<1>k. ASSUME NEW c \in Caller, BuildEnvironment(c) PROVE SessionsInv'
  <2>1. Aside
    BY <1>1, <1>k DEF BuildEnvironment, Does, Aside, Call, NoCall, stores
  <2> QED BY <1>0, <2>1, SessionsKept
<1>m. ASSUME NEW c \in Caller, SessionBuilt(c) PROVE SessionsInv'
  <2>1. \A d \in Caller : ~At(d, "store")
    BY <1>m DEF SessionBuilt, Quiet
  <2>2. OneStore'
    BY <1>1, <1>m, <2>1 DEF SessionBuilt, Ends, OneStore, At, NoCall
  <2>3. AnsweredSessionsStay'
    BY <1>m DEF SessionBuilt, stores, SessionsInv, AnsweredSessionsStay, Found
  <2> QED BY <1>0, <2>2, <2>3 DEF SessionsInv
<1>n. CASE SdkLoads \/ Archive \/ UNCHANGED vars
  <2>1. Aside
    BY <1>n DEF SdkLoads, Archive, Aside, vars, stores, sessions
  <2> QED BY <1>0, <2>1, SessionsKept
<1>o. ASSUME NEW s \in Session, Dispose(s) PROVE SessionsInv'
  <2>1. OneStore'
    BY <1>o DEF Dispose, Quiet, OneStore, At
  <2>2. AnsweredSessionsStay'
    BY <1>o DEF Dispose, stores, SessionsInv, AnsweredSessionsStay, Found
  <2> QED BY <1>0, <2>1, <2>2 DEF SessionsInv
<1>p. CASE Restart
  <2>1. answered' = {}
    BY <1>p DEF Restart
  <2> QED BY <1>0, <2>1 DEF SessionsInv, OneStore, AnsweredSessionsStay
<1>s. ASSUME NEW c \in Caller,
             \/ UpdateDetail(c) \/ ReplayAccess(c) \/ LoadUpdate(c) \/ ResolveArtifacts(c)
             \/ SyncPackages(c) \/ LoadCompilation(c) \/ LoadSourceBundles(c)
      PROVE SessionsInv'
  BY <1>j, <1>s DEF UpdateDetail, ReplayAccess, LoadUpdate, ResolveArtifacts, SyncPackages,
                    LoadCompilation, LoadSourceBundles
<1> QED BY <1>a, <1>b, <1>c, <1>d, <1>e, <1>f, <1>g, <1>h, <1>i, <1>k, <1>m, <1>n,
           <1>o, <1>p, <1>s DEF Next

(* A session a caller was told of is found until it is disposed: the second of *)
(* two first stores replaces the first before anybody was told of a session   *)
(* (AnsweredSessionsStay).                                                    *)
THEOREM AnsweredSessionsAreFound == Spec => []AnsweredSessionsStay
<1>1. Spec => []SessionsInv
  BY InitSessions, NextSessions, PTL DEF Spec
<1>2. SessionsInv => AnsweredSessionsStay
  BY DEF SessionsInv
<1> QED BY <1>1, <1>2, PTL

-----------------------------------------------------------------------------
(* The debugger implements DebugSessions.                                  *)

\* What is found of the sessions is all that was told.
LEMMA AllAreKept == SessionsInv => Kept = answered
  BY DEF SessionsInv, AnsweredSessionsStay, Kept

\* A session is given up by its disposal or by a restart.
LostOnPurpose == \A s \in Kept \ Kept' : Dispose(s) \/ Restart

LEMMA StepOfSessions ==
  SessionsInv /\ SessionsInv' /\ [Next]_vars =>
    [Sessions!SessionsNext]_(Sessions!sessionVars) /\ [LostOnPurpose]_vars
<1> SUFFICES ASSUME SessionsInv, SessionsInv', [Next]_vars
             PROVE  /\ Sessions!SessionsNext \/ UNCHANGED <<Kept, built>>
                    /\ LostOnPurpose
  BY DEF Sessions!sessionVars
<1>0. Kept = answered /\ Kept' = answered'
  <2>1. SessionsInv' => Kept' = answered'
    BY DEF SessionsInv, AnsweredSessionsStay, Kept
  <2> QED BY <2>1, AllAreKept
<1>1. ASSUME NEW c \in Caller, SessionBuilt(c) PROVE Sessions!SessionsNext /\ LostOnPurpose
  <2>1. \E told \in BOOLEAN : answered' = IF told THEN answered \cup {built'} ELSE answered
    BY <1>1 DEF SessionBuilt
  <2>2. built < MaxSessions /\ built' = built + 1
    BY <1>1 DEF SessionBuilt
  <2>3. \E told \in BOOLEAN : Sessions!Make(told)
    BY <1>0, <2>1, <2>2 DEF Sessions!Make
  <2> QED BY <1>0, <2>1, <2>3 DEF Sessions!SessionsNext, LostOnPurpose
<1>2. ASSUME NEW s \in Session, Dispose(s)
      PROVE  (Sessions!SessionsNext \/ UNCHANGED <<Kept, built>>) /\ LostOnPurpose
  <2>1. Kept' = Kept \ {s} /\ built' = built
    BY <1>0, <1>2 DEF Dispose
  <2>2. LostOnPurpose
    BY <1>2, <2>1 DEF LostOnPurpose
  <2>3. CASE s \in Kept
    <3>1. Sessions!Drop(s) /\ s \in Sessions!Session
      BY <2>1, <2>3 DEF Sessions!Drop, Sessions!Session, Session
    <3> QED BY <2>2, <3>1 DEF Sessions!SessionsNext
  <2> QED BY <2>1, <2>2, <2>3
<1>3. CASE Restart
  <2>1. Sessions!DropAll /\ LostOnPurpose
    BY <1>0, <1>3 DEF Restart, Sessions!DropAll, LostOnPurpose
  <2> QED BY <2>1 DEF Sessions!SessionsNext
<1>4. ASSUME NEW c \in Caller, NEW stage, Passes(c, stage) PROVE UNCHANGED <<answered, built>>
  BY <1>4 DEF Passes, Does, sessions
<1>5. ASSUME NEW c \in Caller,
             \/ UpdateDetail(c) \/ ReplayAccess(c) \/ LoadUpdate(c) \/ ResolveArtifacts(c)
             \/ SyncPackages(c) \/ LoadCompilation(c) \/ LoadSourceBundles(c)
      PROVE UNCHANGED <<answered, built>>
  BY <1>4, <1>5 DEF UpdateDetail, ReplayAccess, LoadUpdate, ResolveArtifacts, SyncPackages,
                    LoadCompilation, LoadSourceBundles
<1>6. ASSUME NEW c \in Caller,
             \/ Replay(c) \/ Simulate(c) \/ Resume(c) \/ MakeStore(c) \/ ClientOpens(c)
             \/ ClientFails(c) \/ ProbeFinds(c) \/ ProbeFails(c) \/ DarsRead(c)
             \/ BuildEnvironment(c) \/ StageFails(c)
      PROVE UNCHANGED <<answered, built>>
  BY <1>6 DEF Replay, Simulate, Resume, MakeStore, ClientOpens, ClientFails, ProbeFinds,
              ProbeFails, DarsRead, BuildEnvironment, Does, StageFails, sessions
<1>7. ASSUME SdkLoads \/ Archive \/ UNCHANGED vars PROVE UNCHANGED <<answered, built>>
  BY <1>7 DEF SdkLoads, Archive, vars, sessions
<1>8. ASSUME UNCHANGED <<answered, built>> PROVE UNCHANGED <<Kept, built>> /\ LostOnPurpose
  BY <1>0, <1>8 DEF LostOnPurpose
<1> QED BY <1>1, <1>2, <1>3, <1>5, <1>6, <1>7, <1>8 DEF Next

(* The debugger does with its sessions what DebuggerView relies on: what it    *)
(* finds of the sessions it told of, in the store it looks into, is lost by a *)
(* disposal or a restart only (ImplementsDebugSessions).                      *)
THEOREM SessionsAreImplemented == Spec => ImplementsDebugSessions
<1>1. Init => Sessions!SessionsInit
  BY DEF Init, Sessions!SessionsInit, Kept
<1>2. Spec => []SessionsInv
  BY InitSessions, NextSessions, PTL DEF Spec
<1>3. Spec => Sessions!SessionsInit /\ [][Sessions!SessionsNext]_(Sessions!sessionVars)
                                   /\ [][LostOnPurpose]_vars
  BY <1>1, <1>2, StepOfSessions, PTL DEF Spec
<1> QED BY <1>3 DEF ImplementsDebugSessions, Sessions!SessionsSpec, LostOnPurpose

-----------------------------------------------------------------------------
(* The ledger of the replayed update.                                      *)

\* No replay learns anything new of its contract.
NothingRead ==
  /\ archivedAt' = archivedAt
  /\ \A d \in Caller : calls'[d].kind = "replay" /\ calls'[d].history # "unread" =>
       calls[d].kind = "replay" /\ calls[d].history = calls'[d].history

LEMMA MomentKept == ASSUME ReplaySeesItsMoment, NothingRead PROVE ReplaySeesItsMoment'
  BY DEF ReplaySeesItsMoment, NothingRead

LEMMA NextMoment == Typed /\ ReplaySeesItsMoment /\ [Next]_vars => ReplaySeesItsMoment'
<1> SUFFICES ASSUME Typed, ReplaySeesItsMoment, [Next]_vars PROVE ReplaySeesItsMoment'
  OBVIOUS
<1>1. calls \in [Caller -> Call \cup {NoCall}] /\ archivedAt \in {Never, UpdateOffset, Later}
  BY DEF Typed, TypeOK
<1>2. \A c \in Caller : ~Idle(c) => calls[c] \in Call
  BY BusyIsCall DEF Typed
<1>3. \A c \in Caller : Idle(c) => calls[c] = NoCall
  BY IdleIsNoCall DEF Typed
<1>4. ASSUME NEW c \in Caller, NEW pc, Moves(c, pc), UNCHANGED world PROVE NothingRead
  BY <1>1, <1>4 DEF Moves, NothingRead, Call, NoCall, world
<1>5. ASSUME NEW c \in Caller, Ends(c), UNCHANGED world PROVE NothingRead
  BY <1>1, <1>5 DEF Ends, NothingRead, NoCall, world
<1>6. ASSUME NEW c \in Caller, NEW s, HasStore(c, s, AfterStore(c)), UNCHANGED world
      PROVE NothingRead
  BY <1>1, <1>6 DEF HasStore, NothingRead, Call, NoCall, world
<1>a. ASSUME NEW c \in Caller, Replay(c) PROVE NothingRead
  BY <1>1, <1>3, <1>a DEF Replay, NothingRead, Call, NoCall, world
<1>b. ASSUME NEW c \in Caller, Simulate(c) PROVE NothingRead
  BY <1>1, <1>b DEF Simulate, NothingRead, Call, NoCall, world
<1>c. ASSUME NEW c \in Caller, Resume(c) PROVE NothingRead
  BY <1>c, <1>4, <1>5, <1>6 DEF Resume
<1>d. ASSUME NEW c \in Caller, MakeStore(c) PROVE NothingRead
  BY <1>d, <1>6 DEF MakeStore
<1>e. ASSUME NEW c \in Caller, ClientOpens(c) \/ ProbeFinds(c) PROVE NothingRead
  BY <1>e, <1>4 DEF ClientOpens, ProbeFinds
<1>f. ASSUME NEW c \in Caller, ClientFails(c) \/ StageFails(c) \/ SessionBuilt(c)
      PROVE NothingRead
  BY <1>f, <1>5 DEF ClientFails, StageFails, SessionBuilt
<1>h. ASSUME NEW c \in Caller, ProbeFails(c) PROVE NothingRead
  BY <1>1, <1>h DEF ProbeFails, NothingRead, Call, NoCall, world
<1>i. ASSUME NEW c \in Caller, DarsRead(c) PROVE NothingRead
  <2>1. CASE readable
    BY <1>1, <1>i, <2>1 DEF DarsRead, NothingRead, Call, NoCall, world
  <2>2. CASE ~readable
    BY <1>i, <1>5, <2>2 DEF DarsRead
  <2> QED BY <2>1, <2>2
<1>j. ASSUME NEW c \in Caller, NEW stage, Passes(c, stage) PROVE NothingRead
  BY <1>1, <1>j DEF Passes, Does, NothingRead, Call, NoCall, world
<1>k. ASSUME NEW c \in Caller, BuildEnvironment(c) PROVE ReplaySeesItsMoment'
  <2>1. calls[c] \in Call /\ archivedAt' = archivedAt
    BY <1>2, <1>k DEF BuildEnvironment, Does, At, Idle, world
  <2>2. calls[c].kind = "replay" =>
          calls'[c].history = HistoryAt(UpdateOffset)
    BY <1>1, <1>k, <2>1 DEF BuildEnvironment, Call
  <2>3. calls'[c].kind = calls[c].kind
    BY <1>1, <1>k, <2>1 DEF BuildEnvironment, Call
  <2>4. \A d \in Caller \ {c} : calls'[d] = calls[d]
    BY <1>1, <1>k DEF BuildEnvironment
  <2>5. HistoryAt(UpdateOffset) = "archived" <=> archivedAt = UpdateOffset
    BY <1>1 DEF HistoryAt, UpdateOffset, Never, Later
  <2> QED BY <2>1, <2>2, <2>3, <2>4, <2>5 DEF ReplaySeesItsMoment
<1>n. CASE SdkLoads \/ UNCHANGED vars
  <2>1. calls' = calls /\ archivedAt' = archivedAt
    BY <1>n DEF SdkLoads, vars, stores, sessions, world
  <2>2. NothingRead
    BY <2>1 DEF NothingRead
  <2> QED BY <2>2, MomentKept
<1>o. ASSUME NEW s \in Session, Dispose(s) PROVE NothingRead
  BY <1>o DEF Dispose, NothingRead, world
<1>p. CASE Restart
  <2>1. (\A c \in Caller : calls'[c] = NoCall) /\ archivedAt' = archivedAt
    BY <1>p DEF Restart, world
  <2>2. NoCall.history = "unread"
    BY DEF NoCall
  <2>3. NothingRead
    BY <2>1, <2>2 DEF NothingRead
  <2> QED BY <2>3, MomentKept
<1>q. CASE Archive
  BY <1>q DEF Archive, ReplaySeesItsMoment, Never, UpdateOffset, Later
<1>s. ASSUME NEW c \in Caller,
             \/ UpdateDetail(c) \/ ReplayAccess(c) \/ LoadUpdate(c) \/ ResolveArtifacts(c)
             \/ SyncPackages(c) \/ LoadCompilation(c) \/ LoadSourceBundles(c)
      PROVE NothingRead
  BY <1>j, <1>s DEF UpdateDetail, ReplayAccess, LoadUpdate, ResolveArtifacts, SyncPackages,
                    LoadCompilation, LoadSourceBundles
<1> QED BY <1>a, <1>b, <1>c, <1>d, <1>e, <1>f, <1>h, <1>i, <1>k, <1>n, <1>o, <1>p, <1>q, <1>s,
           MomentKept DEF Next

(* A replay is told the state of its contract at the update, however many     *)
(* callers, nodes and restarts there are (ReplaySeesItsMoment).               *)
THEOREM ReplaysSeeTheirMoment == Spec => []ReplaySeesItsMoment
<1>1. Init => ReplaySeesItsMoment
  BY DEF Init, ReplaySeesItsMoment, NoCall
<1> QED BY <1>1, InitTyped, NextTyped, NextMoment, PTL DEF Spec
-----------------------------------------------------------------------------
(* The page. *)
USE DEF View!None

-----------------------------------------------------------------------------
(* Requests and answers *)

LEMMA FreeTyped == View!Free \in View!Request /\ ~View!Free.current /\ View!Free.phase = "free"
  BY DEF View!Free, View!Request

LEMMA CatalogTyped == View!Catalog \in View!Route /\ ~View!HasReplayContext(View!Catalog)
  BY DEF View!Catalog, View!Route, View!HasReplayContext

(* A session that is shown has a name, so it is not Nothing. *)
LEMMA ShownIsSomething ==
  \A x \in View!Shown : x # View!Nothing /\ x.id \in View!Session /\ x.step \in View!Step
  BY DEF View!Shown, View!Nothing, View!Session

LEMMA RoutesTyped == ASSUME MaxSessions \in Nat, View!TypeOK PROVE View!Routes \subseteq View!Route
<1>1. ASSUME NEW s \in 1..last
      PROVE  s \in View!Session /\ updateOf[s] \in Update \cup {View!NoUpdate}
  <2>1. s \in View!Session
    BY DEF View!TypeOK, View!BackendOK, View!Session
  <2> QED BY <2>1 DEF View!TypeOK, View!BackendOK
<1> QED BY <1>1, CatalogTyped DEF View!Routes, View!Route

LEMMA FirstRequestTyped ==
  ASSUME NEW r \in View!Route, NEW attempt \in {1, 2}, NEW current \in BOOLEAN
  PROVE  /\ View!FirstRequest(r, attempt, current) \in View!Request
         /\ View!FirstRequest(r, attempt, current).current = current
  BY DEF View!FirstRequest, View!Free, View!Request, View!Route

LEMMA SupersededTyped ==
  ASSUME View!TypeOK
  PROVE  View!Superseded \in [Loads -> View!Request] /\ \A l \in Loads : ~View!Superseded[l].current
<1>1. ASSUME NEW q \in View!Request
      PROVE  /\ [q EXCEPT !.current = FALSE, !.attempt = 1] \in View!Request
             /\ ~[q EXCEPT !.current = FALSE, !.attempt = 1].current
  BY DEF View!Request
<1>2. \A l \in Loads : loads[l] \in View!Request
  BY DEF View!TypeOK, View!RequestsOK
<1> QED BY <1>1, <1>2 DEF View!Superseded

(* Whatever comes of a request, the backend's part of it is typed. *)
LEMMA BackendKept == ASSUME View!BackendOK, UNCHANGED View!backend PROVE View!BackendOK'
  BY DEF View!BackendOK, View!backend, View!sessionVars

LEMMA CreatedTyped ==
  ASSUME MaxSessions \in Nat, View!TypeOK, NEW q \in View!Request, NEW x, View!Created(q, x)
  PROVE  View!BackendOK'
<1>1. /\ last \in 0..MaxSessions /\ last < MaxSessions /\ last' = last + 1
      /\ known' = known \cup {last'}
      /\ updateOf' = [updateOf EXCEPT ![last'] = q.of]
  BY DEF View!Created, View!Make, View!TypeOK, View!BackendOK
<1>2. last' \in 0..MaxSessions /\ last' \in View!Session
  BY <1>1 DEF View!Session
<1>3. q.of \in Update \cup {View!NoUpdate}
  BY DEF View!Request
<1> QED BY <1>1, <1>2, <1>3 DEF View!TypeOK, View!BackendOK

LEMMA AnswerTyped ==
  ASSUME MaxSessions \in Nat, View!TypeOK, NEW q \in View!Request, NEW x, View!Succeeds(q, x)
  PROVE  View!BackendOK'
  BY CreatedTyped, BackendKept DEF View!Succeeds, View!Told, View!TypeOK

LEMMA FailureTyped ==
  ASSUME MaxSessions \in Nat, View!TypeOK, NEW q \in View!Request, View!Fails(q)
  PROVE  View!BackendOK'
  BY CreatedTyped, BackendKept DEF View!Fails, View!TypeOK

(* One load changes: its slot stays typed, the others as they are. *)
LEMMA LoadChanges ==
  ASSUME View!TypeOK, NEW l \in Loads, NEW q \in View!Request, loads' = [loads EXCEPT ![l] = q]
  PROVE  /\ loads' \in [Loads -> View!Request]
         /\ loads'[l] = q
         /\ \A m \in Loads \ {l} : loads'[m] = loads[m]
  BY DEF View!TypeOK, View!RequestsOK

LEMMA ActChanges ==
  ASSUME View!TypeOK, NEW a \in Acts, NEW q \in View!Request, acts' = [acts EXCEPT ![a] = q]
  PROVE  acts' \in [Acts -> View!Request]
  BY DEF View!TypeOK, View!RequestsOK

(* A load for the address r: it is under way from then on, and the page is
   empty, or it was under way before. *)
LEMMA LoadBegins ==
  ASSUME View!TypeOK, View!ViewInv, NEW r \in View!Route, View!HasReplayContext(r),
         View!LoadSession(r)
  PROVE  /\ shown' \in View!Shown \cup {View!Nothing} /\ events' \in View!Session \cup {View!None}
         /\ error' \in BOOLEAN /\ pending' \in View!Route /\ loads' \in [Loads -> View!Request]
         /\ View!Loading'
         /\ (shown' = View!Nothing) \/ (shown' = shown /\ events' = events)
<1>1. CASE pending = r
  <2>1. UNCHANGED <<shown, events, error, pending, loads>>
    BY <1>1 DEF View!LoadSession
  <2>2. pending # View!Catalog
    BY <1>1, CatalogTyped
  <2>3. View!Loading'
    BY <2>1, <2>2 DEF View!ViewInv, View!PendingInv, View!Loading
  <2> QED BY <2>1, <2>3 DEF View!TypeOK, View!PageOK, View!RequestsOK
<1>2. CASE pending # r
  <2>1. /\ pending' = r /\ error' = FALSE /\ shown' = View!Nothing /\ events' = View!None
    BY <1>2 DEF View!LoadSession
  <2>2. PICK l \in Loads : loads' = [View!Superseded EXCEPT ![l] = View!FirstRequest(r, 1, TRUE)]
    BY <1>2 DEF View!LoadSession
  <2>3. loads' \in [Loads -> View!Request] /\ loads'[l] = View!FirstRequest(r, 1, TRUE)
    BY <2>2, SupersededTyped, FirstRequestTyped
  <2>4. View!Loading'
    BY <2>3, FirstRequestTyped DEF View!Loading
  <2> QED BY <2>1, <2>3, <2>4
<1> QED BY <1>1, <1>2

(* A session is shown: the address names it, and its events are asked for. *)
LEMMA Showing ==
  ASSUME View!TypeOK, NEW x \in View!Shown, View!Shows(x)
  PROVE  /\ route' \in View!Route /\ shown' \in View!Shown /\ shown' # View!Nothing
         /\ events' = View!None /\ eventLoad' \in View!Session
         /\ View!EventsInv' /\ View!ContextInv'
         /\ route'.session = shown'.id /\ route'.step = shown'.step
         /\ View!HasReplayContext(route)'
<1>1. x # View!Nothing /\ x.id \in View!Session /\ x.step \in View!Step
  BY ShownIsSomething
<1>2. /\ shown' = x /\ events' = View!None /\ eventLoad' = x.id
      /\ route' = [route EXCEPT !.session = x.id, !.step = x.step]
  BY DEF View!Shows, View!SyncEvents, View!SyncRoute
<1>3. route' \in View!Route /\ route'.session = x.id /\ route'.step = x.step
  BY <1>1, <1>2 DEF View!TypeOK, View!PageOK, View!Route
<1>4. x.id # 0
  BY <1>1 DEF View!Session
<1> QED BY <1>1, <1>2, <1>3, <1>4 DEF View!EventsInv, View!ContextInv, View!HasReplayContext

-----------------------------------------------------------------------------
(* The initial page is the catalogue. *)
LEMMA InitView ==
  ASSUME MaxSessions \in Nat, View!Init PROVE View!TypeOK /\ View!ViewInv
<1>0. View!BackendOK
  BY DEF View!Init, View!SessionsInit, View!BackendOK, View!NoUpdate
<1>1. View!PageOK /\ View!RequestsOK
  BY FreeTyped, CatalogTyped DEF View!Init, View!PageOK, View!RequestsOK
<1>2. View!ViewInv
  BY CatalogTyped
  DEF View!Init, View!ViewInv, View!EventsInv, View!PendingInv, View!ContextInv,
      View!SettledAddressIsShown
<1> QED BY <1>0, <1>1, <1>2 DEF View!TypeOK

(* What leaves the page alone, and goes on loading if it was loading. *)
LEMMA PageKept ==
  ASSUME View!PageOK, View!ViewInv, UNCHANGED View!page, View!Loading' = View!Loading
  PROVE  View!PageOK' /\ View!ViewInv'
  BY DEF View!PageOK, View!ViewInv, View!page, View!list, View!EventsInv, View!PendingInv,
         View!ContextInv, View!SettledAddressIsShown

LEMMA SameLoads == ASSUME UNCHANGED loads PROVE View!Loading' = View!Loading
  BY DEF View!Loading

LEMMA SameCurrent ==
  ASSUME View!TypeOK, NEW l \in Loads, NEW q \in View!Request, loads' = [loads EXCEPT ![l] = q],
         q.current = loads[l].current
  PROVE  View!Loading' = View!Loading
  BY LoadChanges DEF View!Loading

-----------------------------------------------------------------------------
(* Steps of the reader *)

LEMMA NavigateKeeps ==
  ASSUME MaxSessions \in Nat, View!TypeOK, View!ViewInv, NEW r \in View!Routes, View!Navigate(r)
  PROVE  View!TypeOK' /\ View!ViewInv'
<1>1. r \in View!Route /\ route' = r
  BY RoutesTyped DEF View!Navigate
<1>2. UNCHANGED <<View!backend, simulating, eventLoad, acts, acting>>
  BY DEF View!Navigate
<1>3. CASE View!HasReplayContext(r)
  <2>1. View!LoadSession(r)
    BY <1>3 DEF View!Navigate
  <2>2. /\ shown' \in View!Shown \cup {View!Nothing} /\ events' \in View!Session \cup {View!None}
        /\ error' \in BOOLEAN /\ pending' \in View!Route /\ loads' \in [Loads -> View!Request]
        /\ View!Loading'
        /\ (shown' = View!Nothing) \/ (shown' = shown /\ events' = events)
    BY <1>1, <1>3, <2>1, LoadBegins
  <2>3. View!TypeOK'
    BY <1>1, <1>2, <2>2, BackendKept DEF View!TypeOK, View!PageOK, View!RequestsOK
  <2>4. View!ViewInv'
    BY <1>1, <1>2, <1>3, <2>2
    DEF View!ViewInv, View!EventsInv, View!PendingInv, View!ContextInv, View!SettledAddressIsShown
  <2> QED BY <2>3, <2>4
<1>4. CASE ~View!HasReplayContext(r)
  <2>1. /\ \/ simulating /\ UNCHANGED <<shown, events>>
           \/ shown' = View!Nothing /\ events' = View!None
        /\ UNCHANGED <<error, pending, loads>>
    BY <1>4 DEF View!Navigate
  <2>2. View!TypeOK'
    BY <1>1, <1>2, <2>1, BackendKept DEF View!TypeOK, View!PageOK, View!RequestsOK
  <2>3. View!ViewInv'
    BY <1>1, <1>2, <1>4, <2>1
    DEF View!ViewInv, View!EventsInv, View!PendingInv, View!ContextInv,
        View!SettledAddressIsShown, View!Loading
  <2> QED BY <2>2, <2>3
<1> QED BY <1>3, <1>4

LEMMA RetryKeeps ==
  ASSUME View!TypeOK, View!ViewInv, View!Retry
  PROVE  View!TypeOK' /\ View!ViewInv'
<1>1. UNCHANGED <<View!backend, route, simulating, eventLoad, acts, acting>>
  BY DEF View!Retry
<1>2. CASE View!HasReplayContext(route)
  <2>1. View!LoadSession(route) /\ route \in View!Route
    BY <1>2 DEF View!Retry, View!TypeOK, View!PageOK
  <2>2. /\ shown' \in View!Shown \cup {View!Nothing} /\ events' \in View!Session \cup {View!None}
        /\ error' \in BOOLEAN /\ pending' \in View!Route /\ loads' \in [Loads -> View!Request]
        /\ View!Loading'
        /\ (shown' = View!Nothing) \/ (shown' = shown /\ events' = events)
    BY <1>2, <2>1, LoadBegins
  <2>3. View!TypeOK'
    BY <1>1, <2>2, BackendKept DEF View!TypeOK, View!PageOK, View!RequestsOK
  <2>4. View!ViewInv'
    BY <1>1, <1>2, <2>2
    DEF View!ViewInv, View!EventsInv, View!PendingInv, View!ContextInv,
        View!SettledAddressIsShown, View!HasReplayContext
  <2> QED BY <2>3, <2>4
<1>3. CASE ~View!HasReplayContext(route)
  <2>1. /\ loads' = View!Superseded /\ shown' = View!Nothing
        /\ UNCHANGED events /\ error' = FALSE
        /\ pending' = IF View!Loading THEN View!Catalog ELSE pending
    BY <1>3 DEF View!Retry
  <2>2. ~View!Loading' /\ loads' \in [Loads -> View!Request]
    BY <2>1, SupersededTyped DEF View!Loading
  <2>3. pending' = View!Catalog
    BY <2>1 DEF View!ViewInv, View!PendingInv
  <2>4. View!TypeOK'
    BY <1>1, <2>1, <2>2, <2>3, BackendKept, CatalogTyped DEF View!TypeOK, View!PageOK,
           View!RequestsOK
  <2>5. View!ViewInv'
    BY <1>1, <1>3, <2>1, <2>2, <2>3
    DEF View!ViewInv, View!EventsInv, View!PendingInv, View!ContextInv,
        View!SettledAddressIsShown, View!HasReplayContext
  <2> QED BY <2>4, <2>5
<1> QED BY <1>2, <1>3

LEMMA CatalogsKeep ==
  ASSUME View!TypeOK, View!ViewInv, View!StartNewSimulation \/ View!ReturnToSessions
  PROVE  View!TypeOK' /\ View!ViewInv'
<1>1. /\ UNCHANGED <<View!backend, route, shown, error, pending, View!list, loads, acts, acting>>
      /\ shown = View!Nothing /\ simulating' \in BOOLEAN
  BY DEF View!StartNewSimulation, View!ReturnToSessions, View!InCatalog
<1>2. View!TypeOK'
  BY <1>1, BackendKept DEF View!TypeOK, View!PageOK, View!RequestsOK, View!list
<1>3. View!ViewInv'
  BY <1>1, SameLoads
  DEF View!ViewInv, View!EventsInv, View!PendingInv, View!ContextInv,
      View!SettledAddressIsShown, View!HasReplayContext, View!list
<1> QED BY <1>2, <1>3

LEMMA AsksKeeps ==
  ASSUME View!TypeOK, View!ViewInv, NEW a \in Acts, NEW phase \in {"step", "jump", "fetch",
         "create"},
         NEW s \in View!Session \cup {View!None}, NEW p \in View!Step \cup {View!NoStep},
         View!Asks(a, phase, s, p), acting' \in BOOLEAN
  PROVE  View!TypeOK' /\ View!ViewInv'
<1> DEFINE q == [View!Free EXCEPT !.phase = phase, !.id = s, !.step = p]
<1>1. q \in View!Request
  BY DEF View!Free, View!Request
<1>2. acts' = [acts EXCEPT ![a] = q] /\ UNCHANGED <<View!backend, View!page, loads>>
  BY DEF View!Asks
<1> HIDE DEF q
<1>3. acts' \in [Acts -> View!Request]
  BY <1>1, <1>2, ActChanges
<1>4. View!PageOK' /\ View!ViewInv'
  BY <1>2, PageKept, SameLoads DEF View!TypeOK
<1> QED BY <1>2, <1>3, <1>4, BackendKept DEF View!TypeOK, View!RequestsOK

LEMMA UserKeeps ==
  ASSUME MaxSessions \in Nat, View!TypeOK, View!ViewInv, View!User
  PROVE  View!TypeOK' /\ View!ViewInv'
<1>0. shown # View!Nothing => shown.id \in View!Session
  BY ShownIsSomething DEF View!TypeOK, View!PageOK
<1>1. ASSUME NEW a \in Acts, View!RunAction(a) PROVE View!TypeOK' /\ View!ViewInv'
  BY <1>0, <1>1, AsksKeeps DEF View!RunAction
<1>2. ASSUME NEW a \in Acts, View!SelectEventStep(a) PROVE View!TypeOK' /\ View!ViewInv'
  BY <1>0, <1>2, AsksKeeps DEF View!SelectEventStep
<1>3. ASSUME NEW a \in Acts, View!RefreshSession(a) PROVE View!TypeOK' /\ View!ViewInv'
  BY <1>0, <1>3, AsksKeeps DEF View!RefreshSession, View!TypeOK, View!RequestsOK
<1>4. ASSUME NEW a \in Acts, View!CreateSimulation(a) PROVE View!TypeOK' /\ View!ViewInv'
  BY <1>4, AsksKeeps DEF View!CreateSimulation, View!TypeOK, View!RequestsOK
<1> QED BY <1>1, <1>2, <1>3, <1>4, NavigateKeeps, RetryKeeps, CatalogsKeep DEF View!User

-----------------------------------------------------------------------------
(* Answers to loads *)

LEMMA CreateInsteadKeeps ==
  ASSUME MaxSessions \in Nat, View!TypeOK, View!ViewInv, NEW l \in Loads, View!CreateInstead(l)
  PROVE  View!TypeOK' /\ View!ViewInv'
<1> DEFINE q == [loads[l] EXCEPT !.phase = "create", !.id = View!None, !.of = route.update]
<1>1. loads[l] \in View!Request /\ route.update \in Update \cup {View!NoUpdate}
  BY DEF View!TypeOK, View!PageOK, View!RequestsOK, View!Route
<1>2. q \in View!Request /\ q.current = loads[l].current
  BY <1>1 DEF View!Request
<1>3. loads' = [loads EXCEPT ![l] = q]
  BY DEF View!CreateInstead, View!TypeOK, View!RequestsOK
<1>4. View!BackendOK' /\ UNCHANGED <<View!page, acts, acting>>
  BY <1>1, FailureTyped DEF View!CreateInstead
<1> HIDE DEF q
<1>5. loads' \in [Loads -> View!Request] /\ View!Loading' = View!Loading
  BY <1>2, <1>3, LoadChanges, SameCurrent
<1> QED BY <1>4, <1>5, PageKept DEF View!TypeOK, View!RequestsOK

LEMMA JumpNextKeeps ==
  ASSUME MaxSessions \in Nat, View!TypeOK, View!ViewInv, NEW l \in Loads,
         NEW x \in View!Shown, View!JumpNext(l, x)
  PROVE  View!TypeOK' /\ View!ViewInv'
<1> DEFINE q == [loads[l] EXCEPT !.phase = "jump", !.id = x.id, !.of = View!NoUpdate,
                            !.step = route.step]
<1>1. /\ loads[l] \in View!Request /\ route.step \in View!Step \cup {View!NoStep}
      /\ x.id \in View!Session
  BY ShownIsSomething DEF View!TypeOK, View!PageOK, View!RequestsOK, View!Route
<1>2. q \in View!Request /\ q.current = loads[l].current
  BY <1>1 DEF View!Request
<1>3. loads' = [loads EXCEPT ![l] = q]
  BY DEF View!JumpNext, View!TypeOK, View!RequestsOK
<1>4. View!BackendOK' /\ UNCHANGED <<View!page, acts, acting>>
  BY <1>1, AnswerTyped DEF View!JumpNext
<1> HIDE DEF q
<1>5. loads' \in [Loads -> View!Request] /\ View!Loading' = View!Loading
  BY <1>2, <1>3, LoadChanges, SameCurrent
<1> QED BY <1>4, <1>5, PageKept DEF View!TypeOK, View!RequestsOK

LEMMA LoadAgainKeeps ==
  ASSUME MaxSessions \in Nat, View!TypeOK, View!ViewInv, NEW l \in Loads, View!LoadAgain(l)
  PROVE  View!TypeOK' /\ View!ViewInv'
<1>1. loads[l] \in View!Request /\ route \in View!Route
  BY DEF View!TypeOK, View!PageOK, View!RequestsOK
<1>2. /\ View!FirstRequest(route, 2, TRUE) \in View!Request
      /\ View!FirstRequest(route, 2, TRUE).current = loads[l].current
  BY <1>1, FirstRequestTyped DEF View!LoadAgain
<1>3. loads' = [loads EXCEPT ![l] = View!FirstRequest(route, 2, TRUE)]
  BY DEF View!LoadAgain
<1>4. View!BackendOK' /\ UNCHANGED <<View!page, acts, acting>>
  BY <1>1, FailureTyped DEF View!LoadAgain, View!LoaderFails
<1>5. loads' \in [Loads -> View!Request] /\ View!Loading' = View!Loading
  BY <1>2, <1>3, LoadChanges, SameCurrent
<1> QED BY <1>4, <1>5, PageKept DEF View!TypeOK, View!RequestsOK

LEMMA LoadDroppedKeeps ==
  ASSUME MaxSessions \in Nat, View!TypeOK, View!ViewInv, NEW l \in Loads, View!LoadDropped(l)
  PROVE  View!TypeOK' /\ View!ViewInv'
<1>1. loads[l] \in View!Request
  BY DEF View!TypeOK, View!RequestsOK
<1>2. View!BackendOK'
  BY <1>1, FailureTyped, AnswerTyped DEF View!LoadDropped, View!LoaderFails, View!LoaderSucceeds
<1>3. /\ loads' = [loads EXCEPT ![l] = View!Free] /\ UNCHANGED <<View!page, acts, acting>>
      /\ View!Free.current = loads[l].current
  BY <1>1, FreeTyped DEF View!LoadDropped, View!Request
<1>4. loads' \in [Loads -> View!Request] /\ View!Loading' = View!Loading
  BY <1>3, FreeTyped, LoadChanges, SameCurrent
<1> QED BY <1>2, <1>3, <1>4, PageKept DEF View!TypeOK, View!RequestsOK

LEMMA LoadFailsKeeps ==
  ASSUME MaxSessions \in Nat, View!TypeOK, View!ViewInv, NEW l \in Loads, View!LoadFails(l)
  PROVE  View!TypeOK' /\ View!ViewInv'
<1>1. View!BackendOK'
  BY FailureTyped DEF View!LoadFails, View!LoaderFails, View!TypeOK, View!RequestsOK
<1>2. loads' \in [Loads -> View!Request]
  BY FreeTyped, LoadChanges DEF View!LoadFails
<1>3. /\ error' = TRUE /\ shown' = View!Nothing /\ events' = View!None /\ pending' = View!Catalog
      /\ UNCHANGED <<route, simulating, eventLoad, acts, acting>>
  BY DEF View!LoadFails
<1>4. View!TypeOK'
  BY <1>1, <1>2, <1>3, CatalogTyped DEF View!TypeOK, View!PageOK, View!RequestsOK
<1>5. View!ViewInv'
  BY <1>3 DEF View!ViewInv, View!EventsInv, View!PendingInv, View!ContextInv,
         View!SettledAddressIsShown
<1> QED BY <1>4, <1>5

LEMMA LoadDoneKeeps ==
  ASSUME MaxSessions \in Nat, View!TypeOK, View!ViewInv, NEW l \in Loads,
         NEW x \in View!Shown, View!LoadDone(l, x)
  PROVE  View!TypeOK' /\ View!ViewInv'
<1>1. View!BackendOK'
  BY AnswerTyped DEF View!LoadDone, View!LoaderSucceeds, View!TypeOK, View!RequestsOK
<1>2. loads' \in [Loads -> View!Request]
  BY FreeTyped, LoadChanges DEF View!LoadDone
<1>3. pending' = View!Catalog /\ UNCHANGED <<error, simulating, acts, acting>>
  BY DEF View!LoadDone
<1>4. CASE View!HasReplayContext(route)
  <2>1. View!Shows(x)
    BY <1>4 DEF View!LoadDone
  <2>2. View!TypeOK'
    BY <1>1, <1>2, <1>3, <2>1, Showing, CatalogTyped DEF View!TypeOK, View!PageOK, View!RequestsOK
  <2>3. View!ViewInv'
    BY <1>3, <2>1, Showing DEF View!ViewInv, View!PendingInv, View!SettledAddressIsShown
  <2> QED BY <2>2, <2>3
<1>5. CASE ~View!HasReplayContext(route)
  <2>1. UNCHANGED <<shown, View!list, route>>
    BY <1>5 DEF View!LoadDone
  <2>2. shown = View!Nothing \/ simulating
    BY <1>5 DEF View!ViewInv, View!ContextInv
  <2>3. View!TypeOK'
    BY <1>1, <1>2, <1>3, <2>1, CatalogTyped DEF View!TypeOK, View!PageOK, View!RequestsOK, View!list
  <2>4. View!ViewInv'
    BY <1>3, <1>5, <2>1, <2>2
    DEF View!ViewInv, View!EventsInv, View!PendingInv, View!ContextInv,
        View!SettledAddressIsShown, View!HasReplayContext, View!list
  <2> QED BY <2>3, <2>4
<1> QED BY <1>4, <1>5

-----------------------------------------------------------------------------
(* Answers to actions and to loads of events *)

LEMMA EndsActTyped ==
  ASSUME View!TypeOK, NEW a \in Acts, View!EndsAct(a)
  PROVE  acts' \in [Acts -> View!Request] /\ acting' \in BOOLEAN
<1>1. acts' = [acts EXCEPT ![a] = View!Free] /\ acting' \in BOOLEAN
  BY DEF View!EndsAct
<1> QED BY <1>1, FreeTyped, ActChanges

LEMMA ActDoneKeeps ==
  ASSUME MaxSessions \in Nat, View!TypeOK, View!ViewInv, NEW a \in Acts, NEW x \in View!Shown,
         View!ActDone(a, x)
  PROVE  View!TypeOK' /\ View!ViewInv'
<1>1. View!BackendOK'
  BY AnswerTyped DEF View!ActDone, View!TypeOK, View!RequestsOK
<1>2. View!Shows(x) /\ UNCHANGED <<error, pending, loads>> /\ simulating' \in BOOLEAN
  BY DEF View!ActDone, View!TypeOK, View!PageOK
<1>3. acts' \in [Acts -> View!Request] /\ acting' \in BOOLEAN
  BY EndsActTyped DEF View!ActDone
<1>4. View!TypeOK'
  BY <1>1, <1>2, <1>3, Showing DEF View!TypeOK, View!PageOK, View!RequestsOK
<1>5. View!ViewInv'
  BY <1>2, Showing, SameLoads DEF View!ViewInv, View!PendingInv, View!SettledAddressIsShown
<1> QED BY <1>4, <1>5

LEMMA ActFailsKeeps ==
  ASSUME MaxSessions \in Nat, View!TypeOK, View!ViewInv, NEW a \in Acts, View!ActFails(a)
  PROVE  View!TypeOK' /\ View!ViewInv'
<1>1. View!BackendOK'
  BY FailureTyped DEF View!ActFails, View!TypeOK, View!RequestsOK
<1>2. acts' \in [Acts -> View!Request] /\ acting' \in BOOLEAN /\ UNCHANGED <<View!page, loads>>
  BY EndsActTyped DEF View!ActFails
<1> QED BY <1>1, <1>2, PageKept, SameLoads DEF View!TypeOK, View!RequestsOK

LEMMA EventsKeep ==
  ASSUME View!TypeOK, View!ViewInv, View!EventsArrive \/ View!EventsFail
  PROVE  View!TypeOK' /\ View!ViewInv'
<1>1. /\ UNCHANGED <<View!backend, route, shown, error, pending, simulating, acting, loads, acts>>
      /\ eventLoad' = View!None /\ events' \in {events, eventLoad}
  BY DEF View!EventsArrive, View!EventsFail
<1>2. View!TypeOK'
  BY <1>1, BackendKept DEF View!TypeOK, View!PageOK, View!RequestsOK
<1>3. View!ViewInv'
  BY <1>1, SameLoads
  DEF View!ViewInv, View!EventsInv, View!PendingInv, View!ContextInv, View!SettledAddressIsShown
<1> QED BY <1>2, <1>3

LEMMA RestartKeeps ==
  ASSUME View!TypeOK, View!ViewInv, View!Restart
  PROVE  View!TypeOK' /\ View!ViewInv'
<1>1. known' = {} /\ UNCHANGED <<last, updateOf, View!page, loads, acts, acting>>
  BY DEF View!Restart, View!DropAll
<1>2. View!BackendOK'
  BY <1>1 DEF View!TypeOK, View!BackendOK
<1> QED BY <1>1, <1>2, PageKept, SameLoads DEF View!TypeOK, View!RequestsOK

LEMMA ViewNextKeeps ==
  ASSUME MaxSessions \in Nat, View!TypeOK, View!ViewInv, [View!Next]_View!vars
  PROVE  View!TypeOK' /\ View!ViewInv'
<1>1. ASSUME NEW l \in Loads, View!HandleLoad(l) PROVE View!TypeOK' /\ View!ViewInv'
  BY <1>1, CreateInsteadKeeps, JumpNextKeeps, LoadAgainKeeps, LoadDroppedKeeps, LoadFailsKeeps,
     LoadDoneKeeps DEF View!HandleLoad
<1>2. ASSUME NEW a \in Acts, View!HandleAct(a) PROVE View!TypeOK' /\ View!ViewInv'
  BY <1>2, ActDoneKeeps, ActFailsKeeps DEF View!HandleAct
<1>3. CASE UNCHANGED View!vars
  BY <1>3, BackendKept, PageKept, SameLoads DEF View!vars, View!TypeOK, View!RequestsOK
<1> QED BY <1>1, <1>2, <1>3, UserKeeps, RestartKeeps, EventsKeep DEF View!Next

-----------------------------------------------------------------------------
(* Every variable of the page keeps its type, and ViewInv holds in every reachable state. *)
THEOREM ViewInvariant == View!Spec => [](View!TypeOK /\ View!ViewInv)
<1>1. View!Init => View!TypeOK /\ View!ViewInv
  BY InitView, BoundsAssumption
<1>2. View!TypeOK /\ View!ViewInv /\ [View!Next]_View!vars => View!TypeOK' /\ View!ViewInv'
  BY ViewNextKeeps, BoundsAssumption
<1> QED BY <1>1, <1>2, PTL DEF View!Spec

(* The events beside a session are its own, whichever answer comes last. *)
THEOREM EventsOfShown == View!Spec => []EventsAreOfShownSession
<1>1. View!TypeOK /\ View!ViewInv => EventsAreOfShownSession
  BY DEF View!ViewInv, View!EventsInv, EventsAreOfShownSession, View!EventsAreOfShownSession
<1> QED BY <1>1, ViewInvariant, PTL

(* A settled page opened on a replay stands at the address of what it shows and
   is not left empty; under the bare address it shows a session only where a new
   simulation was begun. *)
THEOREM SettledAddress == View!Spec => []SettledAddressIsShown
<1>1. View!TypeOK /\ View!ViewInv => SettledAddressIsShown
  BY DEF View!ViewInv, SettledAddressIsShown
<1> QED BY <1>1, ViewInvariant, PTL

-----------------------------------------------------------------------------
(* Each behaviour of service and page together is one of each of them, so what is
   proved of the two holds of MCSpec: all that is checked of it. *)
THEOREM DebuggerIsOfComponents ==
  MCSpec => /\ Spec /\ View!Spec /\ ImplementsDebugSessions
            /\ [](ReplaySeesItsMoment /\ EventsAreOfShownSession /\ SettledAddressIsShown)
<1>1. MCInit => Init /\ View!Init
  BY DEF MCInit
<1>2. [MCNext]_<<debugging, vars, viewVars>> => [Next]_vars /\ [View!Next]_(View!vars)
  <2> SUFFICES ASSUME [MCNext]_<<debugging, vars, viewVars>>
               PROVE  (Next \/ UNCHANGED vars) /\ (View!Next \/ UNCHANGED viewVars)
    BY DEF viewVars, View!vars, View!backend, View!sessionVars, View!page, View!list
  <2> QED BY DEF MCNext
<1>3. MCSpec => Spec /\ View!Spec
  BY <1>1, <1>2, PTL DEF MCSpec, Spec, View!Spec
<1> QED BY <1>3, SessionsAreImplemented, ReplaysSeeTheirMoment, EventsOfShown, SettledAddress, PTL
=============================================================================
