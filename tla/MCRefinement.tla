---------------------------- MODULE MCRefinement ----------------------------
EXTENDS StoreRefinement, MCStore
=============================================================================
