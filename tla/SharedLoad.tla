----------------------------- MODULE SharedLoad -----------------------------
(***************************************************************************)
(* What a value that many requests share promises, whichever way it is     *)
(* kept: one load at a time, started only when there is no usable value; a *)
(* load that fails leaves the value alone; nothing but a load that ends    *)
(* replaces it.  NodeLoads implements it twice, for the tokens a node's    *)
(* gRPC services report and for a node's traffic purchase of a day.        *)
(***************************************************************************)
EXTENDS Naturals

CONSTANTS Value,    \* what a load may return
          NoValue   \* nothing held

VARIABLES held,     \* the value held, or NoValue
          usable,   \* whether a request may be answered from held
          loads     \* loads in progress

vars == <<held, usable, loads>>

Init == /\ held = NoValue
        /\ usable = FALSE
        /\ loads = 0

\* What makes a held value unusable, age or nothing at all, is not said here.
Begin == /\ ~usable
         /\ loads = 0
         /\ loads' = 1
         /\ held' = held

Succeed == /\ loads = 1
           /\ loads' = 0
           /\ held' \in Value

Fail == /\ loads = 1
        /\ loads' = 0
        /\ held' = held

\* The process restarts: loads die, and what was held in memory is gone.
Restart == /\ loads' = 0
           /\ held' \in {held, NoValue}

Age == UNCHANGED <<held, loads>>

Next == Begin \/ Succeed \/ Fail \/ Restart \/ Age

Spec == Init /\ [][Next]_vars
=============================================================================
