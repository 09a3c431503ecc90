---------------------------- MODULE DebugSessions ----------------------------
(***************************************************************************)
(* What the debugger promises of its sessions: a session somebody was told  *)
(* of stays until it is disposed or the process restarts, and no name is    *)
(* given twice.  Debugger implements this; DebuggerView relies on it.       *)
(***************************************************************************)
EXTENDS Naturals

CONSTANT MaxSessions   \* bound: names given

Session == 1..MaxSessions

VARIABLES known,  \* sessions somebody was told of
          last    \* the last name given

sessionVars == <<known, last>>

SessionsInit == known = {} /\ last = 0

\* A session is made; the caller is told, or fails and is not.
Make(told) == /\ last < MaxSessions
              /\ last' = last + 1
              /\ known' = IF told THEN known \cup {last'} ELSE known

Drop(s) == s \in known /\ known' = known \ {s} /\ UNCHANGED last

DropAll == known' = {} /\ UNCHANGED last

SessionsNext == \/ \E told \in BOOLEAN : Make(told)
                \/ \E s \in Session : Drop(s)
                \/ DropAll

SessionsSpec == SessionsInit /\ [][SessionsNext]_sessionVars
=============================================================================
