---------------------------- MODULE MCNodePoller ----------------------------
(* Small instances of NodePoller for TLC. *)
EXTENDS NodePoller

CONSTANTS n1, n2, r1, r2

OneNode == {n1}
OneNodeOrder == <<n1>>
OnePass == {r1}
TwoPasses == {r1, r2}
NoNode == {}
=============================================================================
