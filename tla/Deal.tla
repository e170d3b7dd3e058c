-------------------------------- MODULE Deal --------------------------------
(***************************************************************************)
(* A game's cards: the deck is made, shuffled and dealt to the three       *)
(* seats, and each seat's user gets the bytes of its cards to send to its  *)
(* client.  All of it runs in the game thread, one card after the other.   *)
(*                                                                         *)
(* Seats are 0, 1, 2 (U1, U2, U3).  A User object may have several, since  *)
(* it may have asked for a match several times.                            *)
(***************************************************************************)
EXTENDS Integers, Sequences

CONSTANTS
    User,           \* User objects
    Nobody,         \* the _user of a card nobody has been given: never initialised
    NumSuits,       \* suits without None: 4
    NumRanks,       \* weights without the jokers: 13
    Orders,         \* the orders std::random_shuffle may leave
    Garbage,        \* what an int that is never initialised may hold
    MaxGames        \* bound: games in all

Seat           == 0..2
CHARACTERCOUNT == 3
LAST_CARD      == 3
CARDCOUNT      == NumSuits * NumRanks + 2
NumDealt       == CARDCOUNT - LAST_CARD
UDATA          == NumDealt \div CHARACTERCOUNT      \* UCARD_DATA_SIZE, too

Position == 1..CARDCOUNT

ASSUME UserAssumption == Nobody \notin User
ASSUME DeckAssumption ==
    /\ NumSuits \in 1..15 /\ NumRanks \in 1..14
    /\ NumDealt = CHARACTERCOUNT * UDATA
ASSUME OrderAssumption ==
    \A o \in Orders : /\ o \in [Position -> Position]
                      /\ \A p, q \in Position : o[p] = o[q] => p = q
                      /\ \A q \in Position : \E p \in Position : o[p] = q
ASSUME NumberAssumption == Garbage \subseteq Int /\ MaxGames \in Nat

VARIABLES
    seat,           \* _user_1, _user_2, _user_3
    cards,          \* the deque of cards
    owner,          \* _user of each card
    card_count,     \* _chad_count of each user, never initialised
    buf,            \* dd1, dd2, dd3 of data2user, as far as they are written
    card_data,      \* _card_data and _wait_senddata of each user
    status,         \* _user_status of each user
    i,              \* the index of deal's and data2user's loops
    pc,             \* where the game thread is
    games           \* games made so far

userVars == <<card_count, card_data, status>>
vars == <<seat, cards, owner, buf, userVars, i, pc, games>>

\* Suits and Weight are enumerations that start from 0; None follows the suits
\* and the jokers follow the ranks.
Card == [suit : 0..NumSuits, weight : 0..NumRanks + 1]

Byte == 0..255

TypeOK ==
    /\ seat \in [Seat -> User]
    /\ cards \in [Position -> Card]
    /\ owner \in [Card -> User \cup {Nobody}]
    /\ card_count \in [User -> Int]
    /\ buf \in [Seat -> Seq(Byte)]
    /\ card_data \in [User -> Seq(Byte)]
    /\ status \in [User -> {"ON_LINE", "READY", "IN_GAME"}]
    /\ i \in 0..NumDealt
    /\ pc \in {"display", "deal", "data2user", "done", "overflow", "unset"}
    /\ games \in Nat

-----------------------------------------------------------------------------
\* create_card: suit by suit, then the two jokers.
create_card ==
    [p \in Position |->
        IF p <= NumSuits * NumRanks
        THEN [suit |-> (p - 1) \div NumRanks, weight |-> (p - 1) % NumRanks]
        ELSE [suit |-> NumSuits,
              weight |-> NumRanks + (p - (NumSuits * NumRanks + 1))]]

\* Card::to_data: a byte, the suit in its upper half.
to_data(c) == ((c.suit % 16) * 16) + (c.weight % 16)

\* The bytes of an array of UDATA that was zero when it was filled.
Zeroed(s) == [k \in 1..UDATA |-> IF k <= Len(s) THEN s[k] ELSE 0]

\* new Game: the constructor, for three users out of readys.
Construct ==
    /\ \E s \in [Seat -> User] :
          /\ seat' = s
          /\ status' = [u \in User |-> IF \E k \in Seat : s[k] = u THEN "READY"
                                       ELSE status[u]]
    /\ cards' = create_card
    /\ owner' = [c \in Card |-> Nobody]
    /\ buf' = [k \in Seat |-> << >>]
    /\ i' = 0 /\ pc' = "display"
    /\ games' = games + 1
    /\ UNCHANGED <<card_count, card_data>>

Init ==
    /\ seat \in [Seat -> User]
    /\ cards = create_card
    /\ owner = [c \in Card |-> Nobody]
    /\ card_count \in [User -> Garbage]
    /\ buf = [k \in Seat |-> << >>]
    /\ card_data = [u \in User |-> << >>]
    /\ status = [u \in User |-> IF \E k \in Seat : seat[k] = u THEN "READY"
                                ELSE "ON_LINE"]
    /\ i = 0 /\ pc = "display" /\ games = 1

\* display up to deal: random_shuffle.
Shuffle ==
    /\ pc = "display" /\ pc' = "deal"
    /\ \E o \in Orders : cards' = [p \in Position |-> cards[o[p]]]
    /\ UNCHANGED <<seat, owner, buf, userVars, i, games>>

\* Faults: the first case falls through into the second, or the loop goes on
\* for one card too many.
FaultDealFallsThrough ==
    LET u == seat[IF i % CHARACTERCOUNT = 2 THEN 2 ELSE 1] IN
    /\ pc = "deal" /\ i < NumDealt
    /\ owner' = [owner EXCEPT ![cards[i + 1]] = u]
    /\ card_count' = [card_count EXCEPT ![u] = @ + 1]
    /\ i' = i + 1
    /\ UNCHANGED <<seat, cards, buf, card_data, status, pc, games>>
FaultDealOneMore ==
    LET u == seat[i % CHARACTERCOUNT] IN
    /\ pc = "deal" /\ i <= NumDealt
    /\ owner' = [owner EXCEPT ![cards[i + 1]] = u]
    /\ card_count' = [card_count EXCEPT ![u] = @ + 1]
    /\ i' = i + 1
    /\ UNCHANGED <<seat, cards, buf, card_data, status, pc, games>>

\* deal: one card to the seat whose turn it is, Card::set_user.
DealCard ==
    LET u == seat[i % CHARACTERCOUNT] IN
    /\ pc = "deal" /\ i < NumDealt
    /\ owner' = [owner EXCEPT ![cards[i + 1]] = u]
    /\ card_count' = [card_count EXCEPT ![u] = @ + 1]
    /\ i' = i + 1
    /\ UNCHANGED <<seat, cards, buf, card_data, status, pc, games>>

\* The rest of display up to data2user's loop.
Dealt ==
    /\ pc = "deal" /\ i = NumDealt
    /\ pc' = "data2user" /\ i' = 0
    /\ status' = [u \in User |-> IF \E k \in Seat : seat[k] = u THEN "IN_GAME"
                                 ELSE status[u]]
    /\ UNCHANGED <<seat, cards, owner, buf, card_count, card_data, games>>

\* data2user compares a card's user with the first seat's for dd1, with the
\* second's for dd2, and with the second's again for dd3 (YGame.cpp:268).
Compared == [k \in Seat |-> IF k = 0 THEN 0 ELSE 1]

\* A fault: the bytes of the second and of the third seat change places.
FaultDataSwaps ==
    LET c  == cards[i + 1]
        to == {k \in Seat : owner[c] = seat[2 - Compared[k]]}
    IN
    /\ pc = "data2user" /\ i < NumDealt
    /\ buf' = [k \in Seat |-> IF k \in to THEN Append(buf[k], to_data(c)) ELSE buf[k]]
    /\ i' = i + 1
    /\ UNCHANGED <<seat, cards, owner, userVars, pc, games>>

\* data2user: one card.  What it does with a _user that was never set is
\* unknown, and so is what a byte does that is written behind its array on the
\* stack: the model ends there.
DataCard ==
    LET c  == cards[i + 1]
        to == {k \in Seat : owner[c] = seat[Compared[k]]}
    IN
    /\ pc = "data2user" /\ i < NumDealt
    /\ IF owner[c] = Nobody
       THEN pc' = "unset" /\ UNCHANGED <<buf, i>>
       ELSE IF \E k \in to : Len(buf[k]) = UDATA
       THEN pc' = "overflow" /\ UNCHANGED <<buf, i>>
       ELSE /\ buf' = [k \in Seat |-> IF k \in to THEN Append(buf[k], to_data(c))
                                      ELSE buf[k]]
            /\ i' = i + 1
            /\ UNCHANGED pc
    /\ UNCHANGED <<seat, cards, owner, userVars, games>>

\* The end of data2user: set_carddata for one seat after the other, so that a
\* user with several seats keeps the bytes of the last.
set_carddata ==
    /\ pc = "data2user" /\ i = NumDealt
    /\ pc' = "done"
    /\ card_data' =
          [u \in User |->
              IF seat[2] = u THEN Zeroed(buf[2])
              ELSE IF seat[1] = u THEN Zeroed(buf[1])
              ELSE IF seat[0] = u THEN Zeroed(buf[0])
              ELSE card_data[u]]
    /\ UNCHANGED <<seat, cards, owner, card_count, status, buf, i, games>>

\* parse_readys makes the next game, of any users.
NextGame == pc = "done" /\ games < MaxGames /\ Construct

Next == Shuffle \/ DealCard \/ Dealt \/ DataCard \/ set_carddata \/ NextGame

Spec == Init /\ [][Next]_vars
=============================================================================
