---- MODULE MCPages ----
(* Two requests of a section under way.  App.vue mounts one page at a time, and the page of
   parties does not share its state with the others.  What an address says of the filters
   of a page is looked at apart from the requests it leads to. *)
EXTENDS Pages

CONSTANTS Node, GrpcNode, Key, Foreign
VARIABLES mounted, nodes, mode, queried, filter, parties, partyCursor, key, cursor,
          ns, nsError, nsAsk, nsLate,
          view, told, offered, refs

partyVars == <<nodes, mode, queried, filter, parties, partyCursor, key, cursor,
               ns, nsError, nsAsk, nsLate>>
addressVars == <<view, told, offered, refs>>

Parties == INSTANCE PartiesPage
Addresses == INSTANCE AddressQuery WITH Known <- Node, address <- told

MCInit == /\ Init /\ Parties!Init /\ Addresses!Init
          /\ mounted \in {"parties", "others", "address"}
          /\ mounted # "parties" => queried = {}
          /\ mounted # "others" => subject = CHOOSE s \in Subject : TRUE
          /\ mounted # "address" => view = "token" /\ told = <<>>

MCNext == /\ UNCHANGED mounted
          /\ \/ mounted = "others" /\ Next /\ UNCHANGED <<partyVars, addressVars>>
             \/ mounted = "parties" /\ Parties!Next /\ UNCHANGED <<vars, addressVars>>
             \/ mounted = "address" /\ Addresses!Next /\ UNCHANGED <<vars, partyVars>>

MCSpec == MCInit /\ [][MCNext]_<<vars, mounted, partyVars, addressVars>>

(* The page of parties agrees with the choice that was made on it: the nodes chosen are
   told, the namespaces answer the choice, and a page is of the list it is a page of. *)
PartiesPageAgrees == /\ Parties!SelectedNodesAreTold
                     /\ Parties!NamespacesAnswerTheChoice
                     /\ Parties!PagesAreOfTheList
(* AddressQuery, AddressTellsTheFilters. *)
AddressTellsTheFilters == mounted = "address" => Addresses!AddressTellsTheFilters
(* AddressQuery, EditsChangeOneFilter. *)
EditsChangeOneFilter == Addresses!EditsChangeOneFilter
====
