------------------------------ MODULE MCBytes ------------------------------
(***************************************************************************)
(* Small instances of StoreBytes: user keys that are prefixes of one       *)
(* another and look like versions and tags.                                *)
(***************************************************************************)
EXTENDS StoreBytes, MCStore

PrefixKeys == {<<>>, <<0, 1>>}
=============================================================================
