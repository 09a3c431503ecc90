---- MODULE MCDebugger ----
(* The debugger's sessions, for two callers and two nodes, and its page, with two
   requests under way.  What the page needs of the sessions is DebugSessions, which
   the service implements: a behaviour is of one of the two. *)
EXTENDS Debugger, TLC

CONSTANTS c1, c2, Update, MaxStep, Loads, Acts
VARIABLES debugging, known, last, updateOf, route, shown, events, eventLoad, error,
          pending, simulating, loads, acts, acting

MCCaller == {c1, c2}
MCNodes == <<"n1", "n2">>
Slots == Permutations(Loads) \cup Permutations(MCCaller)

View == INSTANCE DebuggerView
viewVars == <<known, last, updateOf, route, shown, events, eventLoad, error, pending,
              simulating, loads, acts, acting>>

\* Bound: of the loads and the actions, not all are under way at once.
OneIsFree == \/ \E l \in Loads : loads[l].phase = "free"
             \/ \E a \in Acts : acts[a].phase = "free"

MCInit == /\ debugging \in {"service", "page"}
          /\ Init /\ View!Init
          /\ debugging = "page" => ~readable /\ archivedAt = Never

MCNext == /\ UNCHANGED debugging
          /\ \/ debugging = "service" /\ Next /\ UNCHANGED viewVars
             \/ debugging = "page" /\ View!Next /\ OneIsFree' /\ UNCHANGED vars

MCSpec == MCInit /\ [][MCNext]_<<debugging, vars, viewVars>>

(* DebuggerView, EventsAreOfShownSession. *)
EventsAreOfShownSession == View!EventsAreOfShownSession
(* DebuggerView, SettledAddressIsShown. *)
SettledAddressIsShown == View!SettledAddressIsShown
(* DebuggerView, ShownSessionIsOfTheAddress. *)
ShownSessionIsOfTheAddress == View!ShownSessionIsOfTheAddress
====
