------------------------ MODULE MCRefreshCoordinator ------------------------
(***************************************************************************)
(* Small instances of RefreshCoordinator.  One fetch stands for each kind  *)
(* the code distinguishes; the tiers keep the code's 2 and 3 ticks, and 6  *)
(* stands for the longest one.                                             *)
(***************************************************************************)
EXTENDS RefreshCoordinator

CONSTANTS system, stats, mesh, policies, update

MCEvery == [s \in Source |-> CASE s = system   -> 1
                               [] s = stats    -> 2
                               [] s = mesh     -> 3
                               [] s = policies -> 3
                               [] s = update   -> 6]
=============================================================================
