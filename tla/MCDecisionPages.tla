--------------------------- MODULE MCDecisionPages ---------------------------
(***************************************************************************)
(* Small instances of DecisionPages.                                       *)
(***************************************************************************)
EXTENDS DecisionPages

CONSTANTS r1, r2

=============================================================================
