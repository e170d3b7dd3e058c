---------------------------- MODULE MCEventLoop -----------------------------
(* Instances of EventLoop for TLC.                                         *)
EXTENDS EventLoopProperties, TLC

\* Nothing tells one connection, one user or one descriptor from another.
Same == Permutations(Client) \cup Permutations(User) \cup Permutations(Fd)
=============================================================================
