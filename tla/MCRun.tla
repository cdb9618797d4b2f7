--------------------------------- MODULE MCRun ---------------------------------
(***************************************************************************)
(* Run with the two built-in pairs of endpoints and one change of an       *)
(* endpoint by another process.                                            *)
(***************************************************************************)
EXTENDS Run

===============================================================================
