----------------------------- MODULE MCServers -----------------------------
(***************************************************************************)
(* ModelExchange for TLC: both servers, on the requests of MCCosimServer.  *)
(***************************************************************************)
EXTENDS MCCosimServer, ModelExchange
=============================================================================
