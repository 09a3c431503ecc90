---- MODULE MCReads ----
(* Lists a node keeps in memory, on one node with two callers; and requests put together
   from several nodes, all with gRPC or one without.  The two share no state here: what
   a request is answered from is the other's business.  A behaviour is of one of them. *)
EXTENDS NodeLoads

CONSTANTS n1, c1, c2,
          Peer, GrpcPeer,  \* the nodes requests are put to, and those of them with gRPC
          Configured       \* the lists of nodes the backend may be started with
VARIABLES reading, kind, asking, at, answers, reply

MCNode == {n1}
MCCaller == {c1, c2}

\* nodes: z.array(nodeSchema).min(1) (backend/src/config/node-config.schema.ts).
ASSUME PeersAssumption == Configured \subseteq SUBSET Peer /\ {} \notin Configured

queryVars == <<kind, asking, at, answers, reply>>

Queries == INSTANCE NodeQueries WITH Node <- Peer, GrpcNode <- GrpcPeer

MCInit == /\ reading \in {"loads", "queries"}
          /\ Init /\ Queries!Init
          /\ reading = "queries" => mix = {"tokens"} /\ connection[n1] = "none"

MCNext == /\ UNCHANGED reading
          /\ \/ reading = "loads" /\ Next /\ UNCHANGED queryVars
             \/ reading = "queries" /\ Queries!Next /\ UNCHANGED vars

MCSpec == MCInit /\ [][MCNext]_<<reading, vars, queryVars>>

(* A failure is not taken for an absence: NodeQueries, NotFoundIsTrue and
   EmptyIsNotAFailure. *)
FailureIsNotAbsence == Queries!NotFoundIsTrue /\ Queries!EmptyIsNotAFailure
(* NodeQueries, FingerprintsOfOneSource. *)
FingerprintsOfOneSource == Queries!FingerprintsOfOneSource
====
