--------------------------- MODULE MCEntityWrites ---------------------------
(* EntityWrites with one limit besides none. *)
EXTENDS EntityWrites

MCOptions == {"deny", "home"}
MCLimits  == {1}

=============================================================================
