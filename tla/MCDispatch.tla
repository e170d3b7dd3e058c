----------------------------- MODULE MCDispatch -----------------------------
(* Instances of Dispatch for TLC.                                          *)
EXTENDS DispatchProperties

MCFd == 1..3
=============================================================================
