------------------------------ MODULE MCStdio -------------------------------
(***************************************************************************)
(* Streams of two-byte buffers: a table with one place beside the standard *)
(* streams, objects of one and two bytes, and a call for no bytes at all.  *)
(***************************************************************************)
EXTENDS Stdio

MCObjects == {<<1, 1>>, <<1, 3>>, <<2, 2>>, <<0, 3>>}
=============================================================================
