------------------------------ MODULE MCMatch ------------------------------
(* Instances of Match for TLC.                                             *)
EXTENDS MatchProperties, TLC

CONSTANTS w1, w2, u1, u2, u3, a, b, c

MCNameOf      == u1 :> a @@ u2 :> b @@ u3 :> c          \* one object each
MCNameOfTwins == u1 :> a @@ u2 :> a @@ u3 :> b          \* fewer objects, too

\* Nothing in Match tells one worker, or one of the names with one object
\* each, from another.
Threads == Permutations({w1, w2})
=============================================================================
