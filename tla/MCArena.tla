------------------------------ MODULE MCArena -------------------------------
(***************************************************************************)
(* A small arena for TLC: room for at most three strings, among whose      *)
(* texts are prefixes of one another, texts of equal length and texts that *)
(* are equal up to a NUL, and structs of zero, odd and aligned sizes.      *)
(***************************************************************************)
EXTENDS Arena

MCCap    == 58
MCSizes  == {0, 12}
MCHdrLen == 6
MCTexts  == {<<>>, <<1>>, <<1, 2>>, <<1, 0>>, <<1, 0, 2>>, <<1, 0, 3>>}
=============================================================================
