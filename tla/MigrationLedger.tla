--------------------------- MODULE MigrationLedger ---------------------------
(***************************************************************************)
(* What the index installer promises to whoever reads its migration table   *)
(* or what it reports: one run at a time works; a ready index stays; a      *)
(* version is recorded once, and when all it calls for is ready; a run that *)
(* tells of success leaves nothing of what it surveyed unbuilt or           *)
(* unrecorded.  IndexInstaller implements this.                             *)
(***************************************************************************)
CONSTANTS
    Run,             \* invocations of the command
    Version,         \* the migrations
    Index,           \* the indexes there may be
    Partition,       \* the partitions there may be
    Initial,         \* partitions attached at the start
    Needs(_, _)      \* what a version calls for, given the partitions

VARIABLES
    attached,  \* the partitions there are
    ready,     \* the indexes that are there and valid
    recorded,  \* the versions in the migration table
    phase,     \* how far each run is
    plan,      \* the partitions it has surveyed
    told       \* how its last run ended

ledgerVars == <<attached, ready, recorded, phase, plan, told>>

Works(r) == phase[r] \in {"surveying", "working", "failing"}

LedgerInit ==
    /\ attached = Initial
    /\ ready = {}
    /\ recorded = {}
    /\ phase = [r \in Run |-> "idle"]
    /\ plan = [r \in Run |-> {}]
    /\ told = [r \in Run |-> "none"]

Attach(p) ==
    /\ attached' = attached \union {p}
    /\ UNCHANGED <<ready, recorded, phase, plan, told>>

Ask(r) ==
    /\ phase[r] = "idle"
    /\ phase' = [phase EXCEPT ![r] = "waiting"]
    /\ told' = [told EXCEPT ![r] = "none"]
    /\ UNCHANGED <<attached, ready, recorded, plan>>

Begin(r) ==
    /\ phase[r] = "waiting"
    /\ \A q \in Run : ~Works(q)
    /\ phase' = [phase EXCEPT ![r] = "surveying"]
    /\ UNCHANGED <<attached, ready, recorded, plan, told>>

Survey(r) ==
    /\ phase[r] = "surveying"
    /\ phase' = [phase EXCEPT ![r] = "working"]
    /\ plan' = [plan EXCEPT ![r] = attached]
    /\ UNCHANGED <<attached, ready, recorded, told>>

\* An index the survey calls for becomes ready.
MakeReady(r, i) ==
    /\ \E v \in Version : i \in Needs(v, plan[r])
    /\ ready' = ready \union {i}

Build(r, i) ==
    /\ phase[r] = "working"
    /\ MakeReady(r, i)
    /\ UNCHANGED <<attached, recorded, phase, plan, told>>

Record(r, v) ==
    /\ phase[r] = "working"
    /\ v \notin recorded
    /\ Needs(v, plan[r]) # {}
    /\ Needs(v, plan[r]) \subseteq ready
    /\ recorded' = recorded \union {v}
    /\ UNCHANGED <<attached, ready, phase, plan, told>>

GiveUp(r) ==
    /\ phase[r] \in {"surveying", "working"}
    /\ phase' = [phase EXCEPT ![r] = "failing"]
    /\ plan' = [plan EXCEPT ![r] = {}]
    /\ UNCHANGED <<attached, ready, recorded, told>>

\* The run is over, and the next may begin.
Leave(r, result) ==
    /\ phase' = [phase EXCEPT ![r] = "idle"]
    /\ plan' = [plan EXCEPT ![r] = {}]
    /\ told' = [told EXCEPT ![r] = result]
    /\ UNCHANGED <<attached, recorded>>

Succeed(r) ==
    /\ phase[r] = "working"
    /\ \A v \in Version :
          /\ Needs(v, plan[r]) \subseteq ready
          /\ Needs(v, plan[r]) # {} => v \in recorded
    /\ Leave(r, "ok")
    /\ UNCHANGED ready

Fail(r) ==
    /\ phase[r] # "idle"
    /\ Leave(r, "failed")
    /\ UNCHANGED ready

\* The process dies; a build it had asked for may be complete all the same.
Die(r) ==
    /\ phase[r] # "idle"
    /\ \/ UNCHANGED ready
       \/ phase[r] = "working" /\ \E i \in Index : MakeReady(r, i)
    /\ Leave(r, "crashed")

LedgerNext ==
    \/ \E p \in Partition : Attach(p)
    \/ \E r \in Run :
          \/ Ask(r) \/ Begin(r) \/ Survey(r)
          \/ \E i \in Index : Build(r, i)
          \/ \E v \in Version : Record(r, v)
          \/ GiveUp(r) \/ Succeed(r) \/ Fail(r) \/ Die(r)

LedgerSpec == LedgerInit /\ [][LedgerNext]_ledgerVars
=============================================================================
