--------------------------- MODULE MCClientSession ---------------------------
(***************************************************************************)
(* Small instances of ClientSession: tabs are interchangeable.             *)
(***************************************************************************)
EXTENDS ClientSession, TLC

CONSTANTS b1, b2, ann, bob

MCRoles == [u \in {ann, bob} |-> IF u = ann THEN {"admin"} ELSE {"manager"}]

MCSymmetry == Permutations({b1, b2})

=============================================================================
