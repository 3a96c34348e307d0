----------------------------- MODULE MCLinkage ------------------------------
(***************************************************************************)
(* Two names, so that one can be an object while the other is the function *)
(* that uses it, and either can shadow the other.  MCLinkage explores the  *)
(* storage classes at file scope, MCScopes the nesting of scopes.          *)
(***************************************************************************)
EXTENDS Linkage, TLC

CONSTANTS x, f

MCNames    == {x, f}
MCTys      == {IntTy}
MCStorages == Storages
MCNone     == {"none"}

Renaming == Permutations(MCNames)
=============================================================================
