------------------------------ MODULE MCXList -------------------------------
(* Instances of XList for TLC.                                             *)
EXTENDS XListMore, TLC

Same == Permutations(Node) \cup Permutations(Handle) \cup Permutations(Str)
=============================================================================
