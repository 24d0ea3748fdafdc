-------------------------- MODULE MCClientPresence --------------------------
(***************************************************************************)
(* Small instances of ClientPresence: one client, listed in the router's   *)
(* configuration.                                                          *)
(***************************************************************************)
EXTENDS ClientPresence

CONSTANT phone
=============================================================================
