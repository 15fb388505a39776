------------------------------ MODULE MCRaces ------------------------------
(* Small instances of the store with races. *)
EXTENDS StoreRaces, MCStore
=============================================================================
