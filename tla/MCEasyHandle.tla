---------------------------- MODULE MCEasyHandle ----------------------------
(***************************************************************************)
(* Small instances of EasyHandle for TLC.                                  *)
(***************************************************************************)
EXTENDS EasyHandle, TLC

CONSTANTS b1, b2, b3, l1

ThreeBlocks == {b1, b2, b3}
OneLine == {l1}
SomeSettings == {<<"TIMEOUT_MS", 60000>>, <<"POST", 0>>, <<"POST", 1>>,
                 <<"POSTFIELDSIZE", -1>>, <<"POSTFIELDSIZE", 0>>, <<"POSTFIELDSIZE", 2>>}
NoSettings == {}
NoLines == {}
BlockSymmetry == Permutations(Blocks)
=============================================================================
