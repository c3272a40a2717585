---------------------------- MODULE MCGrepJoin ----------------------------
(***************************************************************************)
(* Files for GrepJoin: files without the string, and with it once and      *)
(* twice.                                                                  *)
(***************************************************************************)
EXTENDS GrepJoin

MCHits == [f \in Files |-> f % 3]
=============================================================================
