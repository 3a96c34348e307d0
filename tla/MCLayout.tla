------------------------------ MODULE MCLayout ------------------------------
(***************************************************************************)
(* Two tags whose bodies nest, and a frame with members before and after   *)
(* the register save area.  The array lengths include 0, which             *)
(* p_const_expr may return but no object can have.                         *)
(***************************************************************************)
EXTENDS Layout

CONSTANTS A, B, f

MCTags    == {A, B}
MCWidths  == {1, 8}
MCLens    == {0, 3}
MCMembers == [o \in Owners |-> IF o = Func THEN 3 ELSE IF o = A THEN 2 ELSE 1]

\* Bound: both structs without a frame, or a frame beside one small struct.
StructsOrFrame == phase = "none" \/ (B \notin declared /\ Len(members[A]) <= 1)
=============================================================================
