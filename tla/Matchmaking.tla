---------------------------- MODULE Matchmaking ----------------------------
(***************************************************************************)
(* What the matchmaking of the game server promises, without threads,      *)
(* locks or list nodes: users that declare themselves ready wait in one    *)
(* queue, and the three that have waited longest leave it together and     *)
(* become the seats of one new game, in the order in which they came.      *)
(* Module Match, which follows the code, implements this specification.    *)
(***************************************************************************)
EXTENDS Naturals, Sequences

CONSTANT User

Seats == 3          \* GAME_USER_COUNT, YGame.h:16

VARIABLES
    queue,          \* the users that wait, the longest-waiting first
    tables          \* the games made so far, each the sequence of its seats

vars == <<queue, tables>>

Init ==
    /\ queue = << >>
    /\ tables = << >>

\* A user joins at the back; one that waits already may join once more.
Join(u) ==
    /\ queue' = Append(queue, u)
    /\ UNCHANGED tables

\* The first three leave together for one table.
Seat ==
    /\ Len(queue) >= Seats
    /\ tables' = Append(tables, SubSeq(queue, 1, Seats))
    /\ queue' = SubSeq(queue, Seats + 1, Len(queue))

Next == Seat \/ \E u \in User : Join(u)

Spec == Init /\ [][Next]_vars

\* Whenever three wait, a table is made sooner or later.
Fairness == WF_vars(Seat)
FairSpec == Spec /\ Fairness
=============================================================================
