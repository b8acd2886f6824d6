------------------------------ MODULE MCClients ------------------------------
(* Clients for TLC, on the instance of MCHousekeeping and on its own.          *)
EXTENDS Clients
==============================================================================
