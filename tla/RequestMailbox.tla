--------------------------- MODULE RequestMailbox ---------------------------
(***************************************************************************)
(* What the coordinator promises to an entity that asks for a refresh      *)
(* (coordinator.py: request_full_refresh, request_host_policies_refresh,   *)
(* request_update_check), without ticks, tiers, tokens or readings.        *)
(*                                                                         *)
(* A request waits until a round takes it up.  A round takes up everything *)
(* that waits when it begins and nothing later; it answers all of it or,   *)
(* if it is given up, none.  So a request that is made while a round is    *)
(* under way is answered by a later one, also when the round under way     *)
(* answers an earlier request of the same kind.  Requests disappear        *)
(* unanswered only with the coordinator: a new one has nothing to show     *)
(* until a round of its own, which reads everything, has been answered.    *)
(***************************************************************************)
CONSTANT Kind   \* the kinds of request

VARIABLES
    open,       \* the coordinator has answered a round
    waiting,    \* the kinds with a request no round has taken up
    taken       \* the kinds the round under way will answer

vars == <<open, waiting, taken>>

Init == ~open /\ waiting = {} /\ taken = {}

Post(k) ==
    /\ open
    /\ waiting' = waiting \cup {k}
    /\ UNCHANGED <<open, taken>>

Begin ==
    /\ taken = {}
    /\ taken' = waiting
    /\ waiting' = {}
    /\ UNCHANGED open

Answer ==
    /\ open' = TRUE
    /\ taken' = {}
    /\ UNCHANGED waiting

GiveUp ==
    /\ waiting' = waiting \cup taken
    /\ taken' = {}
    /\ UNCHANGED open

Replace ==
    /\ open' = FALSE
    /\ waiting' = {}
    /\ taken' = {}

Next ==
    \/ \E k \in Kind : Post(k)
    \/ Begin
    \/ Answer
    \/ GiveUp
    \/ Replace

Spec == Init /\ [][Next]_vars
=============================================================================
