---------------------------- MODULE DebuggerView ----------------------------
(***************************************************************************)
(* The debugger page (frontend/src/views/DebuggerView.vue) with the sessions *)
(* of the backend it works on.  The page reloads its session whenever the   *)
(* route changes; that load is guarded by a generation (useSectionLoad).     *)
(* Steps, jumps, refreshes and simulations are awaited without a guard, and  *)
(* their answers are applied to whatever the page shows by then.            *)
(***************************************************************************)
EXTENDS DebugSessions, FiniteSets

CONSTANTS Update,    \* updates whose debugger is opened
          MaxStep,   \* bound: steps of a session
          Loads,     \* bound: session loads under way, superseded ones included
          Acts       \* bound: steps, jumps, refreshes and simulations under way

Step == 0..MaxStep
None == 0
NoUpdate == "none"   \* a simulated create

Shown == [id : Session, step : Step]
Nothing == [id |-> None, step |-> 0]
NoStep == MaxStep + 1
Route == [update : Update \cup {NoUpdate}, session : Session \cup {None},
          step : Step \cup {NoStep}]
Catalog == [update |-> NoUpdate, session |-> None, step |-> NoStep]

VARIABLES
  updateOf,  \* on the backend: the update a session replays
  route,     \* updateId, sessionId and stepId of the query
  shown,     \* session: the last answer about it
  events,    \* replayEvents: of which session
  eventLoad, \* the session whose events are being loaded
  error,     \* whether sessionError is set
  pending,   \* pendingLoadKey
  simulating, \* showNewSimulation
  loads,     \* loads of the session, by slot
  acts,      \* what the user asked of a session, by slot
  acting     \* actionLoading

backend == <<sessionVars, updateOf>>
list == <<events, eventLoad>>
page == <<route, shown, error, pending, simulating, list>>
vars == <<backend, page, loads, acts, acting>>

-----------------------------------------------------------------------------
\* current: its generation is the last; phase: the request under way, for session
\* id, update of and step.
Free == [phase |-> "free", current |-> FALSE, attempt |-> 1, id |-> None,
         of |-> NoUpdate, step |-> NoStep]

Init == /\ SessionsInit
        /\ updateOf = [s \in Session |-> NoUpdate]
        /\ route = Catalog
        /\ shown = Nothing
        /\ events = None
        /\ eventLoad = None
        /\ error = FALSE
        /\ pending = Catalog
        /\ simulating = FALSE
        /\ loads = [l \in Loads |-> Free]
        /\ acts = [a \in Acts |-> Free]
        /\ acting = FALSE

HasReplayContext(r) == r.update # NoUpdate \/ r.session # None
Loading == \E l \in Loads : loads[l].current
Superseded == [l \in Loads |-> [loads[l] EXCEPT !.current = FALSE, !.attempt = 1]]

\* The first request of fetchCurrentDebuggerSession.
FirstRequest(r, attempt, current) ==
  LET q == [Free EXCEPT !.attempt = attempt, !.current = current]
  IN IF r.session # None THEN [q EXCEPT !.phase = "fetch", !.id = r.session]
                         ELSE [q EXCEPT !.phase = "create", !.of = r.update]

\* loadDebuggerSession: not again for a route that is being loaded.
LoadSession(r) ==
  IF pending = r
  THEN UNCHANGED <<shown, events, error, pending, loads>>
  ELSE /\ pending' = r
       /\ error' = FALSE /\ shown' = Nothing /\ events' = None
       /\ \E l \in Loads : /\ loads[l].phase = "free"
                           /\ loads' = [Superseded EXCEPT ![l] = FirstRequest(r, 1, TRUE)]

\* Routes a link, the session list, the history or a bookmark lead to.
Routes == {Catalog} \cup
          [update : Update, session : {None}, step : {NoStep}] \cup
          UNION {[update : {updateOf[s]}, session : {s}, step : Step \cup {NoStep}] :
                 s \in 1..last}

\* The watch of routeReplayKey.  Outside of a replay the session is cleared, but not
\* where a new simulation was begun: then only the templates are loaded.
Navigate(r) ==
  /\ r # route
  /\ route' = r
  /\ CASE HasReplayContext(r) -> LoadSession(r)
       [] ~HasReplayContext(r) /\ simulating ->
            UNCHANGED <<shown, events, error, pending, loads>>
       [] OTHER -> shown' = Nothing /\ events' = None /\ UNCHANGED <<error, pending, loads>>
  /\ UNCHANGED <<backend, simulating, eventLoad, acts, acting>>

\* The button beside the error.  Outside of a replay nothing is loaded, and the
\* section's reset takes the message away with its own error.
Retry ==
  /\ error
  /\ IF HasReplayContext(route)
     THEN LoadSession(route)
     ELSE /\ loads' = Superseded
          /\ shown' = Nothing
          /\ error' = FALSE
          /\ pending' = IF Loading THEN Catalog ELSE pending
          /\ UNCHANGED events
  /\ UNCHANGED <<backend, route, simulating, eventLoad, acts, acting>>

\* startNewSimulation and returnToSessions: the buttons of the two catalogs.
InCatalog == shown = Nothing /\ ~HasReplayContext(route)

StartNewSimulation ==
  /\ InCatalog /\ ~simulating
  /\ simulating' = TRUE
  /\ UNCHANGED <<backend, route, shown, error, pending, list, loads, acts, acting>>

ReturnToSessions ==
  /\ InCatalog /\ simulating
  /\ simulating' = FALSE
  /\ UNCHANGED <<backend, route, shown, error, pending, list, loads, acts, acting>>

-----------------------------------------------------------------------------
\* The backend's part of a request.  Others step the session too, so that it may
\* stand anywhere.

\* The session is told, at some step; a jump ends where it was meant to.
Told(q, x) ==
  /\ q.phase \in {"fetch", "jump", "step"} /\ q.id \in known
  /\ x.id = q.id /\ (q.phase = "jump" => x.step = q.step)
  /\ UNCHANGED backend

Created(q, x) ==
  /\ q.phase = "create"
  /\ Make(TRUE)
  /\ updateOf' = [updateOf EXCEPT ![last'] = q.of]
  /\ x = [id |-> last', step |-> 0]

Succeeds(q, x) == Told(q, x) \/ Created(q, x)

\* Nothing came of it, or its answer is lost.
Fails(q) ==
  /\ q.phase # "free"
  /\ UNCHANGED backend \/ (\E x \in Shown : Created(q, x))

Restart == DropAll /\ known # {} /\ UNCHANGED <<updateOf, page, loads, acts, acting>>

-----------------------------------------------------------------------------
\* Mutant of SyncEvents: an older load of events may still answer.
SyncEventsOnce(s) ==
  /\ events' = None
  /\ eventLoad' = IF eventLoad # None THEN eventLoad ELSE s

\* syncEvents: reset and load.
SyncEvents(s) == events' = None /\ eventLoad' = s

\* Mutant of SyncRoute: the step is left out of the query.
SyncRouteWithoutStep(x) == route' = [route EXCEPT !.session = x.id]

\* buildDebuggerQuery and syncRouteToSession; its own change starts no load.
SyncRoute(x) == route' = [route EXCEPT !.session = x.id, !.step = x.step]

Shows(x) == shown' = x /\ SyncEvents(x.id) /\ SyncRoute(x)


\* The session of the route is gone: one is created from the update the route
\* names by now.
CreateInstead(l) ==
  /\ loads[l].phase = "fetch" /\ Fails(loads[l])
  /\ route.update # NoUpdate
  /\ loads' = [loads EXCEPT ![l].phase = "create", ![l].id = None, ![l].of = route.update]
  /\ UNCHANGED <<page, acts, acting>>

\* The answer is not at the step the route names by now.
MustJump(q, x) == q.phase # "jump" /\ route.step \notin {NoStep, x.step}

JumpNext(l, x) ==
  /\ Succeeds(loads[l], x) /\ MustJump(loads[l], x)
  /\ loads' = [loads EXCEPT ![l].phase = "jump", ![l].id = x.id, ![l].of = NoUpdate,
                            ![l].step = route.step]
  /\ UNCHANGED <<page, acts, acting>>

LoaderFails(l) == Fails(loads[l]) /\ ~(loads[l].phase = "fetch" /\ route.update # NoUpdate)
LoaderSucceeds(l, x) == Succeeds(loads[l], x) /\ ~MustJump(loads[l], x)

\* The one retry repeats the loader from its beginning, for the route of now.
LoadAgain(l) ==
  /\ loads[l].current /\ loads[l].attempt = 1
  /\ LoaderFails(l) /\ HasReplayContext(route)
  /\ loads' = [loads EXCEPT ![l] = FirstRequest(route, 2, TRUE)]
  /\ UNCHANGED <<page, acts, acting>>

LoadFails(l) ==
  /\ loads[l].current /\ (loads[l].attempt = 2 \/ ~HasReplayContext(route))
  /\ LoaderFails(l)
  /\ loads' = [loads EXCEPT ![l] = Free]
  /\ error' = TRUE /\ shown' = Nothing /\ events' = None /\ pending' = Catalog
  /\ UNCHANGED <<route, simulating, eventLoad, acts, acting>>

\* The watch of the section's data ignores an answer outside of a replay.
LoadDone(l, x) ==
  /\ loads[l].current /\ LoaderSucceeds(l, x)
  /\ loads' = [loads EXCEPT ![l] = Free]
  /\ pending' = Catalog
  /\ IF HasReplayContext(route) THEN Shows(x) ELSE UNCHANGED <<shown, list, route>>
  /\ UNCHANGED <<error, simulating, acts, acting>>

\* Another load began since: nothing of this one is shown.
LoadDropped(l) ==
  /\ loads[l].phase # "free" /\ ~loads[l].current
  /\ LoaderFails(l) \/ \E x \in Shown : LoaderSucceeds(l, x)
  /\ loads' = [loads EXCEPT ![l] = Free]
  /\ UNCHANGED <<page, acts, acting>>

-----------------------------------------------------------------------------
Asks(a, phase, s, p) ==
  /\ acts[a].phase = "free"
  /\ acts' = [acts EXCEPT ![a] = [Free EXCEPT !.phase = phase, !.id = s, !.step = p]]
  /\ UNCHANGED <<backend, page, loads>>

\* runAction; its buttons and Refresh wait for the action before.
RunAction(a) == /\ shown # Nothing /\ ~acting
                /\ Asks(a, "step", shown.id, NoStep) /\ acting' = TRUE

\* selectEventStep; the events of the session can be clicked at any time.
SelectEventStep(a) == /\ shown # Nothing /\ events # None
                      /\ \E p \in Step : Asks(a, "jump", shown.id, p)
                      /\ acting' = TRUE

RefreshSession(a) == /\ shown # Nothing /\ ~acting
                     /\ Asks(a, "fetch", shown.id, NoStep) /\ UNCHANGED acting

\* createSimulationSession, one at a time, from the catalog of templates.
CreateSimulation(a) ==
  /\ InCatalog /\ simulating
  /\ \A b \in Acts : acts[b].phase # "create"
  /\ Asks(a, "create", None, NoStep) /\ UNCHANGED acting

EndsAct(a) == /\ acts' = [acts EXCEPT ![a] = Free]
              /\ acting' = (acting /\ acts[a].phase \notin {"step", "jump"})

\* The answer is shown, whatever the page is about by now.
ActDone(a, x) ==
  /\ Succeeds(acts[a], x)
  /\ Shows(x)
  /\ simulating' = (simulating /\ acts[a].phase # "create")
  /\ EndsAct(a)
  /\ UNCHANGED <<error, pending, loads>>

ActFails(a) ==
  /\ Fails(acts[a])
  /\ EndsAct(a)
  /\ UNCHANGED <<page, loads>>

\* fetchEvents; its one retry asks the same again.
EventsArrive ==
  /\ eventLoad # None
  /\ events' = eventLoad /\ eventLoad' = None
  /\ UNCHANGED <<backend, route, shown, error, pending, simulating, acting, loads, acts>>

EventsFail ==
  /\ eventLoad # None
  /\ eventLoad' = None
  /\ UNCHANGED <<backend, route, shown, events, error, pending, simulating, acting, loads, acts>>

User == \/ \E r \in Routes : Navigate(r)
        \/ Retry \/ StartNewSimulation \/ ReturnToSessions
        \/ \E a \in Acts : \/ RunAction(a) \/ SelectEventStep(a)
                           \/ RefreshSession(a) \/ CreateSimulation(a)

HandleLoad(l) ==
  \/ CreateInstead(l) \/ LoadAgain(l) \/ LoadFails(l) \/ LoadDropped(l)
  \/ \E x \in Shown : JumpNext(l, x) \/ LoadDone(l, x)
HandleAct(a) == ActFails(a) \/ \E x \in Shown : ActDone(a, x)

Next == \/ User \/ Restart \/ EventsArrive \/ EventsFail
        \/ \E l \in Loads : HandleLoad(l)
        \/ \E a \in Acts : HandleAct(a)

Spec == Init /\ [][Next]_vars
-----------------------------------------------------------------------------
Request ==
  [phase : {"free", "fetch", "create", "jump", "step"}, current : BOOLEAN, attempt : {1, 2},
   id : Session \cup {None}, of : Update \cup {NoUpdate}, step : Step \cup {NoStep}]

BackendOK == /\ known \subseteq Session
             /\ last \in 0..MaxSessions
             /\ updateOf \in [Session -> Update \cup {NoUpdate}]

PageOK == /\ route \in Route
          /\ shown \in Shown \cup {Nothing}
          /\ events \in Session \cup {None}
          /\ eventLoad \in Session \cup {None}
          /\ error \in BOOLEAN
          /\ pending \in Route
          /\ simulating \in BOOLEAN

RequestsOK == /\ loads \in [Loads -> Request]
              /\ acts \in [Acts -> Request]
              /\ acting \in BOOLEAN

TypeOK == BackendOK /\ PageOK /\ RequestsOK

(* The events beside a session are that session's, however answers overtake *)
(* each other.                                                              *)
EventsAreOfShownSession ==
  (shown # Nothing /\ events # None) => events = shown.id

(* Once no load is under way, the address of a replay names the session and  *)
(* the step the page shows, so it can be bookmarked and reloaded, and the     *)
(* page shows a session or an error: skipping a load for the same address     *)
(* never leaves it empty.  The bare address shows the catalogs, and a session *)
(* only where a new simulation was begun before the session was opened.       *)
SettledAddressIsShown ==
  ~Loading =>
    IF HasReplayContext(route)
    THEN IF shown = Nothing THEN error
                            ELSE route.session = shown.id /\ route.step = shown.step
    ELSE shown = Nothing \/ simulating

(* What the page shows under an address that names an update is a session of *)
(* that update.                                                              *)
ShownSessionIsOfTheAddress ==
  (shown # Nothing /\ route.update # NoUpdate) => updateOf[shown.id] = route.update

-----------------------------------------------------------------------------
(* What the first two rest on, and hold together with them.                 *)

\* Events of another session are neither there nor under way.
EventsInv == shown # Nothing => {events, eventLoad} \subseteq {None, shown.id}

\* A load is skipped as a repetition only while that load is under way.
PendingInv == pending # Catalog => Loading

\* A session is shown only under an address that asks for one, or was left there.
ContextInv == shown # Nothing => HasReplayContext(route) \/ simulating

ViewInv == EventsInv /\ PendingInv /\ ContextInv /\ SettledAddressIsShown
=============================================================================
