------------------------------- MODULE MCArena -------------------------------
(***************************************************************************)
(* Arena for TLC: blocks that a page has room for and blocks it has not,   *)
(* none of them a multiple of the unit, until the third doubling of the    *)
(* page overflows.                                                         *)
(***************************************************************************)
EXTENDS Arena

NodeRequests == {5, 11}

=============================================================================
