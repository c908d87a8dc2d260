------------------------- MODULE MCGraphRefinement -------------------------
(***************************************************************************)
(* The instances of MCGraphReducer, for the specification with history.    *)
(***************************************************************************)
EXTENDS MCGraphReducer, GraphRefinement

=============================================================================
