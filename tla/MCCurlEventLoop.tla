--------------------------- MODULE MCCurlEventLoop ---------------------------
(***************************************************************************)
(* Small instances of CurlEventLoop for TLC.                               *)
(***************************************************************************)
EXTENDS CurlEventLoop

CONSTANTS t1, t2, s1, s2, a1, a2

OneTransfer == {t1}
TwoTransfers == {t1, t2}
OneSocket == {s1}
TwoSockets == {s1, s2}
TwoAddresses == {a1, a2}
OneDirection == {"IN", "OUT"}
AllDirections == {"IN", "OUT", "INOUT"}
=============================================================================
