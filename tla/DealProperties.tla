--------------------------- MODULE DealProperties ---------------------------
(* What dealing is meant to guarantee.                                     *)
EXTENDS Deal, FiniteSets

\* The three seats have three different users.
Distinct == \A j, k \in Seat : seat[j] = seat[k] => j = k

\* The positions of the cards a user has been given.
Given(u) == {p \in Position : owner[cards[p]] = u}

\* The deck of a game stays the deck that was made: no card is in it twice
\* (create_card, random_shuffle).
OneDeck == \A p, q \in Position : cards[p] = cards[q] => p = q

\* Every seat gets as many cards as the arrays of data2user and of User hold,
\* and the last three stay with nobody (deal, YGame.cpp:202-229).
FairDeal ==
    Distinct /\ pc \in {"data2user", "done"} =>
        /\ \A k \in Seat : Cardinality(Given(seat[k])) = UDATA
        /\ Given(Nobody) = NumDealt+1..CARDCOUNT

\* data2user reads no _user that was never set (Card's constructor leaves it
\* out, so that the assertion at YGame.cpp:258 may not notice), and, if the
\* users are three, never writes behind an array, although it compares the
\* second user twice.
NoHalt == /\ pc # "unset"
          /\ Distinct => pc # "overflow"

\* The k-th card of a seat, counted from 1, is dealt in turn k - 1.
CardOf(k, n) == cards[CHARACTERCOUNT * (n - 1) + k + 1]

\* The bytes that wait for the clients of the first two seats are those of the
\* cards they were dealt, in the order in which they were (data2user).
HandSent(k) ==
    Distinct /\ pc = "done" =>
        card_data[seat[k]] = [n \in 1..UDATA |-> to_data(CardOf(k, n))]
HandsSent == HandSent(0) /\ HandSent(1)

\* Nor do two of these bytes ever name the same card (Card::to_data).
NoByteTwice ==
    Distinct /\ pc = "done" =>
        \A j, k \in {0, 1} : \A m, n \in 1..UDATA :
            card_data[seat[j]][m] = card_data[seat[k]][n] => j = k /\ m = n

-----------------------------------------------------------------------------
(* The inductive invariant behind these.                                   *)

\* The first n cards have gone round the table, the others to nobody.
TurnsTo(n) ==
    \A p \in Position :
        owner[cards[p]] = IF p <= n THEN seat[(p - 1) % CHARACTERCOUNT] ELSE Nobody
DealtInv ==
    /\ pc = "display" => TurnsTo(0) /\ i = 0
    /\ pc = "deal" => TurnsTo(i)
    /\ pc \in {"data2user", "done"} => TurnsTo(NumDealt)
    /\ pc \in {"display", "deal"} => buf = [k \in Seat |-> << >>]
    /\ pc = "done" => i = NumDealt

\* How many of the first n cards go to seat k.
Share(k, n) == (n + 2 - k) \div CHARACTERCOUNT

\* Each array has the bytes of the cards that its seat has in common with the
\* first n.
WrittenTo(n) ==
    \A k \in Seat :
        /\ Len(buf[k]) = Share(Compared[k], n)
        /\ \A m \in 1..Len(buf[k]) : buf[k][m] = to_data(CardOf(Compared[k], m))
BufInv == Distinct /\ pc \in {"data2user", "done"} => WrittenTo(i)

\* What the users keep.
DataInv ==
    Distinct /\ pc = "done" =>
        \A k \in Seat : card_data[seat[k]] =
                            [n \in 1..UDATA |-> to_data(CardOf(Compared[k], n))]

\* Inductive: the cards go round the table, and so do their bytes.
IInv == TypeOK /\ OneDeck /\ DealtInv /\ BufInv /\ DataInv /\ NoHalt

-----------------------------------------------------------------------------
\* YGame.h:36, "send the data of the cards to the client": also to the third.
ThirdHandSent == HandSent(2)
=============================================================================
