---------------------------- MODULE MCPipeDevice ----------------------------
(***************************************************************************)
(* Model values for PipeDevice: two names that fit and a long one that is  *)
(* cut to the first.  No formula distinguishes two pool blocks or two file *)
(* objects, so these sets may be permuted; the names may not.              *)
(***************************************************************************)
EXTENDS PipeDevice, TLC

CONSTANTS short, other, long

MCNames == {short, other, long}
MCCut == [n \in MCNames |-> IF n = long THEN short ELSE n]

\* The list is explored to the end, also when it has been damaged; what is written only while
\* it is right, with two pool blocks and two file objects.
WrittenFocus ==
  writes > 0 =>
    /\ ~tailFreed
    /\ Cardinality({b \in Blocks : node[b].name # Null}) <= 2
    /\ Cardinality({h \in Handles : file[h].open}) <= 2

Symmetry == Permutations(Blocks) \cup Permutations(Handles)
=============================================================================
