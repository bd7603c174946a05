--------------------------- MODULE MCHandleManager ---------------------------
(***************************************************************************)
(* Model of HandleManager with more contexts than there are numbers, so    *)
(* that the table runs full, numbers are recycled in every order and       *)
(* NewHandle fails.                                                        *)
(***************************************************************************)
EXTENDS HandleManager, TLC

CONSTANTS c1, c2, c3, c4, c5

MCContexts == {c1, c2, c3, c4, c5}
MCSymmetry == Permutations(MCContexts)
=============================================================================
