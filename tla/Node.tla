-------------------------------- MODULE Node --------------------------------
(***************************************************************************)
(* The whole data node: module Startup from the command line to the first  *)
(* client, and, when that is a client of the RESP port, module Session.    *)
(***************************************************************************)
EXTENDS Session, Startup

allVars == <<vars, nodeVars>>

NodeInit == script = <<>> /\ Fresh /\ StartupInit

\* A client of the RESP port, with what it will ask for.
Accept ==
    /\ ConnectResp
    /\ script' \in Scripts
    /\ UNCHANGED <<cur, res, version, closed, sent, out, client, key, now>>

OutOfSession == (Start \/ Scrape) /\ UNCHANGED vars
InSession == stage = "session" /\ Next /\ UNCHANGED nodeVars

NodeNext == OutOfSession \/ Accept \/ InSession

NodeSpec == NodeInit /\ [][NodeNext]_allVars
=============================================================================
