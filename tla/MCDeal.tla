------------------------------- MODULE MCDeal -------------------------------
(* Instances of Deal for TLC.                                              *)
EXTENDS DealProperties, TLC

\* Every order of a small deck.
MCAllOrders == Permutations(Position)

\* Three orders of the real one: as made, reversed, and with a stride that
\* visits every position.
MCSomeOrders ==
    {[p \in Position |-> p], [p \in Position |-> CARDCOUNT + 1 - p],
     [p \in Position |-> ((25 * p) % CARDCOUNT) + 1]}

MCGarbage == {-1, 7}

\* Nothing tells one user from another.
Users == Permutations(User)
=============================================================================
