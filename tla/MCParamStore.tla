---------------------------- MODULE MCParamStore ----------------------------
(* A small instance of ParamStore for TLC: a backend that derives the rate  *)
(* at the end of a round, and one that derives it at the start and depends  *)
(* on a service.                                                           *)
EXTENDS ParamStore

MCBackend == {"simqn", "composite"}
MCRateFirst == {"composite"}
=============================================================================
