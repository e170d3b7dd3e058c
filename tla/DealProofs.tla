----------------------------- MODULE DealProofs -----------------------------
(* Proofs about dealing, for every size of the deck and every order.       *)
EXTENDS DealProperties, FiniteSetTheorems, SequenceTheorems, TLAPS

-----------------------------------------------------------------------------
(* Arithmetic of the deck and of the turns.                                *)

\* The dealt cards are three times what a seat gets, and three are left.
LEMMA Sizes ==
    /\ CARDCOUNT \in Nat /\ NumDealt \in Nat /\ UDATA \in Nat
    /\ NumDealt = 3 * UDATA /\ CARDCOUNT = NumDealt + 3
    /\ NumSuits * NumRanks \in Nat /\ NumSuits * NumRanks >= 1
  <1>1. NumSuits \in Nat /\ NumRanks \in Nat /\ NumSuits >= 1 /\ NumRanks >= 1
    BY DeckAssumption
  <1>2. NumSuits * NumRanks \in Nat /\ NumSuits * NumRanks >= 1
    BY <1>1
  <1>3. CARDCOUNT = NumDealt + 3 /\ CARDCOUNT \in Nat /\ NumDealt \in Nat
    BY <1>2 DEF CARDCOUNT, NumDealt, LAST_CARD
  <1>4. UDATA \in Nat
    BY <1>3 DEF UDATA, CHARACTERCOUNT
  <1>5. NumDealt = 3 * UDATA
    BY DeckAssumption DEF CHARACTERCOUNT
  <1> QED
    BY <1>2, <1>3, <1>4, <1>5

\* Division with remainder, and that it does not exceed the quotient's bound.
LEMMA Division ==
    ASSUME NEW n \in Nat, NEW r \in Nat \ {0}
    PROVE  /\ n \div r \in Nat /\ n % r \in 0..r-1
           /\ n = (r * (n \div r)) + (n % r)
  OBVIOUS

\* The cards with a suit come from different pairs of quotient and remainder.
LEMMA PlaceFacts ==
    ASSUME NEW p \in 1..NumSuits * NumRanks
    PROVE  /\ (p - 1) \div NumRanks \in 0..NumSuits-1
           /\ (p - 1) % NumRanks \in 0..NumRanks-1
           /\ p - 1 = (NumRanks * ((p - 1) \div NumRanks)) + ((p - 1) % NumRanks)
  <1> DEFINE N == NumSuits * NumRanks
             d == (p - 1) \div NumRanks
             m == (p - 1) % NumRanks
  <1>1. NumRanks \in Nat \ {0} /\ NumSuits \in Nat /\ N \in Nat
    BY DeckAssumption, Sizes
  <1>2. p - 1 \in Nat /\ p - 1 < N
    BY <1>1
  <1>3. d \in Nat /\ m \in 0..NumRanks-1 /\ p - 1 = (NumRanks * d) + m
    BY <1>1, <1>2, Division
  <1> HIDE DEF d, m
  <1>4. d < NumSuits
    <2> SUFFICES ASSUME d >= NumSuits PROVE FALSE
      BY <1>1, <1>3
    <2>1. NumRanks * d >= NumRanks * NumSuits
      BY <1>1, <1>3
    <2>2. NumRanks * d \in Nat /\ NumRanks * NumSuits = N
      BY <1>1, <1>3
    <2> HIDE DEF N
    <2> QED
      BY <1>1, <1>2, <1>3, <2>1, <2>2
  <1>5. d \in 0..NumSuits-1
    BY <1>1, <1>3, <1>4
  <1> QED
    BY <1>3, <1>5 DEF d, m

\* create_card makes every card once.
LEMMA DeckFacts ==
    /\ create_card \in [Position -> Card]
    /\ \A p, q \in Position : create_card[p] = create_card[q] => p = q
  <1> DEFINE N == NumSuits * NumRanks
             D(p) == (p - 1) \div NumRanks
             M(p) == (p - 1) % NumRanks
             J(p) == NumRanks + (p - (N + 1))
  <1>1. /\ NumRanks \in Nat \ {0} /\ NumSuits \in Nat /\ N \in Nat
        /\ Position = 1..N+2
    BY DeckAssumption, Sizes DEF CARDCOUNT, Position
  <1>2. \A p \in 1..N : /\ D(p) \in 0..NumSuits-1 /\ M(p) \in 0..NumRanks-1
                        /\ p - 1 = (NumRanks * D(p)) + M(p)
    BY PlaceFacts
  <1>3. \A p \in Position :
            /\ p <= N => create_card[p] = [suit |-> D(p), weight |-> M(p)]
            /\ ~(p <= N) => create_card[p] = [suit |-> NumSuits, weight |-> J(p)]
    BY DEF create_card
  <1>4. create_card = [p \in Position |-> create_card[p]]
    BY DEF create_card
  <1>5. \A p \in Position : ~(p <= N) => J(p) \in {NumRanks, NumRanks + 1} /\ p = J(p) - NumRanks + N + 1
    <2> HIDE DEF N
    <2> QED
      BY <1>1
  <1>6. \A p \in Position : p <= N => p \in 1..N
    <2> HIDE DEF N
    <2> QED
      BY <1>1
  <1> HIDE DEF N, D, M, J
  <1>7. \A p \in Position :
            /\ p <= N => create_card[p].suit = D(p) /\ create_card[p].weight = M(p)
            /\ ~(p <= N) => /\ create_card[p].suit = NumSuits
                            /\ create_card[p].weight = J(p)
    <2> TAKE p \in Position
    <2>1. p <= N => create_card[p].suit = D(p) /\ create_card[p].weight = M(p)
      <3> SUFFICES ASSUME p <= N
                   PROVE  create_card[p].suit = D(p) /\ create_card[p].weight = M(p)
        OBVIOUS
      <3>1. create_card[p] = [suit |-> D(p), weight |-> M(p)]
        BY <1>3
      <3> QED
        BY <3>1
    <2>2. ~(p <= N) => create_card[p].suit = NumSuits /\ create_card[p].weight = J(p)
      <3> SUFFICES ASSUME ~(p <= N)
                   PROVE  create_card[p].suit = NumSuits /\ create_card[p].weight = J(p)
        OBVIOUS
      <3>1. create_card[p] = [suit |-> NumSuits, weight |-> J(p)]
        BY <1>3
      <3> QED
        BY <3>1
    <2> QED
      BY <2>1, <2>2
  <1>8. ASSUME NEW p \in Position PROVE create_card[p] \in Card
    <2>1. CASE p <= N
      <3>1. D(p) \in 0..NumSuits /\ M(p) \in 0..NumRanks+1
        BY <1>1, <1>2, <1>6, <2>1
      <3>2. create_card[p] = [suit |-> D(p), weight |-> M(p)]
        BY <1>3, <2>1
      <3> QED
        BY <3>1, <3>2 DEF Card
    <2>2. CASE ~(p <= N)
      <3>1. NumSuits \in 0..NumSuits /\ J(p) \in 0..NumRanks+1
        BY <1>1, <1>5, <2>2
      <3>2. create_card[p] = [suit |-> NumSuits, weight |-> J(p)]
        BY <1>3, <2>2
      <3> QED
        BY <3>1, <3>2 DEF Card
    <2> QED
      BY <2>1, <2>2
  <1>9. ASSUME NEW p \in Position, NEW q \in Position, create_card[p] = create_card[q]
        PROVE  p = q
    <2>1. CASE p <= N /\ q <= N
      <3>1. D(p) = D(q) /\ M(p) = M(q)
        BY <1>9, <1>7, <2>1
      <3>2. p - 1 = q - 1
        BY <1>2, <1>6, <2>1, <3>1
      <3> QED
        BY <1>1, <3>2
    <2>2. CASE p <= N /\ ~(q <= N)
      <3>1. D(p) = NumSuits
        BY <1>9, <1>7, <2>2
      <3> QED
        BY <1>1, <1>2, <1>6, <2>2, <3>1
    <2>3. CASE ~(p <= N) /\ q <= N
      <3>1. D(q) = NumSuits
        BY <1>9, <1>7, <2>3
      <3> QED
        BY <1>1, <1>2, <1>6, <2>3, <3>1
    <2>4. CASE ~(p <= N) /\ ~(q <= N)
      <3>1. J(p) = J(q)
        BY <1>9, <1>7, <2>4
      <3> QED
        BY <1>5, <2>4, <3>1
    <2> QED
      BY <2>1, <2>2, <2>3, <2>4
  <1> QED
    BY <1>4, <1>8, <1>9

\* Different cards have different bytes.
LEMMA ByteFacts ==
    /\ \A c \in Card : to_data(c) \in Byte
    /\ \A c, d \in Card : to_data(c) = to_data(d) => c = d
  <1>1. ASSUME NEW c \in Card
        PROVE  /\ c.suit \in 0..15 /\ c.weight \in 0..15
               /\ to_data(c) = (c.suit * 16) + c.weight
               /\ c = [suit |-> c.suit, weight |-> c.weight]
    <2>1. c.suit \in 0..15 /\ c.weight \in 0..15
      BY DeckAssumption DEF Card
    <2>2. c.suit % 16 = c.suit /\ c.weight % 16 = c.weight
      BY <2>1
    <2>3. c = [suit |-> c.suit, weight |-> c.weight]
      BY DEF Card
    <2> QED
      BY <2>1, <2>2, <2>3 DEF to_data
  <1>2. ASSUME NEW c \in Card PROVE to_data(c) \in Byte
    BY <1>1 DEF Byte
  <1>3. ASSUME NEW c \in Card, NEW d \in Card, to_data(c) = to_data(d) PROVE c = d
    <2>1. (c.suit * 16) + c.weight = (d.suit * 16) + d.weight
      BY <1>1, <1>3
    <2>2. c.suit = d.suit /\ c.weight = d.weight
      BY <1>1, <2>1, SMTT(60)
    <2> QED
      BY <1>1, <2>2
  <1> QED
    BY <1>2, <1>3

\* Of one card more, the seat whose turn it is gets the share.
LEMMA ShareFacts ==
    ASSUME NEW k \in Seat, NEW n \in Nat
    PROVE  /\ Share(k, n) \in Nat
           /\ Share(k, 0) = 0
           /\ n % 3 = k => Share(k, n + 1) = Share(k, n) + 1 /\ n = 3 * Share(k, n) + k
           /\ n % 3 # k => Share(k, n + 1) = Share(k, n)
           /\ Share(k, 3 * n) = n
           /\ \A m \in Nat : m <= n => Share(k, m) <= Share(k, n)
  BY DEF Share, Seat, CHARACTERCOUNT

-----------------------------------------------------------------------------
(* Steps.                                                                  *)

\* The state of a game that was just made.
Made ==
    /\ seat \in [Seat -> User] /\ cards = create_card
    /\ owner = [c \in Card |-> Nobody] /\ buf = [k \in Seat |-> << >>]
    /\ i = 0 /\ pc = "display" /\ games \in Nat
    /\ card_count \in [User -> Int] /\ card_data \in [User -> Seq(Byte)]
    /\ status \in [User -> {"ON_LINE", "READY", "IN_GAME"}]

\* It has the invariant.
LEMMA MadeInv == ASSUME Made PROVE IInv
  <1>1. TypeOK
    <2>1. buf \in [Seat -> Seq(Byte)]
      <3>1. << >> \in Seq(Byte)
        OBVIOUS
      <3> QED
        BY <3>1 DEF Made
    <2>2. owner \in [Card -> User \cup {Nobody}]
      BY DEF Made
    <2>3. i \in 0..NumDealt
      BY Sizes DEF Made
    <2>4. cards \in [Position -> Card]
      BY DeckFacts DEF Made
    <2> QED
      BY <2>1, <2>2, <2>3, <2>4 DEF TypeOK, Made
  <1>2. OneDeck
    BY DeckFacts DEF OneDeck, Made
  <1>3. DealtInv
    <2>1. TurnsTo(0)
      <3> SUFFICES ASSUME NEW p \in Position PROVE owner[cards[p]] = Nobody /\ ~(p <= 0)
        BY DEF TurnsTo
      <3>1. cards[p] \in Card
        BY <1>1 DEF TypeOK
      <3>2. owner[cards[p]] = Nobody
        BY <3>1 DEF Made
      <3> QED
        BY <3>2, Sizes DEF Position
    <2> QED
      BY <2>1 DEF DealtInv, Made
  <1>4. BufInv /\ DataInv /\ NoHalt
    BY DEF BufInv, DataInv, NoHalt, Made
  <1> QED
    BY <1>1, <1>2, <1>3, <1>4 DEF IInv

\* Initially.
LEMMA InitIInv == ASSUME Init PROVE IInv
  <1>1. card_count \in [User -> Int]
    BY NumberAssumption DEF Init
  <1>2. card_data \in [User -> Seq(Byte)]
    <2>1. << >> \in Seq(Byte)
      OBVIOUS
    <2> QED
      BY <2>1 DEF Init
  <1>3. status \in [User -> {"ON_LINE", "READY", "IN_GAME"}]
    BY DEF Init
  <1>4. Made
    BY <1>1, <1>2, <1>3 DEF Init, Made
  <1> QED
    BY <1>4, MadeInv

\* The next game is made.
LEMMA NextGameInv == ASSUME IInv, NextGame PROVE IInv'
  <1>1. TypeOK /\ Construct
    BY DEF IInv, NextGame
  <1>2. status' \in [User -> {"ON_LINE", "READY", "IN_GAME"}]
    BY <1>1 DEF Construct, TypeOK
  <1>3. Made'
    BY <1>1, <1>2 DEF Construct, TypeOK, Made
  <1>4. Made' => IInv'
    BY MadeInv, PTL
  <1> QED
    BY <1>3, <1>4

\* The shuffle.
LEMMA ShuffleInv == ASSUME IInv, Shuffle PROVE IInv'
  <1>1. TypeOK /\ OneDeck /\ DealtInv
    BY DEF IInv
  <1>2. PICK o \in Orders : cards' = [p \in Position |-> cards[o[p]]]
    BY DEF Shuffle
  <1>3. o \in [Position -> Position] /\ \A p, q \in Position : o[p] = o[q] => p = q
    BY OrderAssumption
  <1>4. TypeOK'
    <2>1. cards' \in [Position -> Card]
      BY <1>1, <1>2, <1>3 DEF TypeOK
    <2> QED
      BY <1>1, <2>1 DEF TypeOK, Shuffle, userVars
  <1>5. OneDeck'
    BY <1>1, <1>2, <1>3 DEF OneDeck
  <1>6. DealtInv'
    <2>1. TurnsTo(0) /\ i = 0 /\ buf = [k \in Seat |-> << >>]
      BY <1>1 DEF DealtInv, Shuffle
    <2>2. TurnsTo(0)'
      <3>1. ASSUME NEW p \in Position
            PROVE  owner'[cards'[p]] = Nobody /\ ~(p <= 0)
        <4>1. cards'[p] = cards[o[p]] /\ o[p] \in Position
          BY <1>2, <1>3
        <4>2. \A q \in Position : ~(q <= 0)
          BY Sizes DEF Position
        <4>3. owner[cards[o[p]]] = Nobody
          BY <2>1, <4>1, <4>2 DEF TurnsTo
        <4> QED
          BY <4>1, <4>2, <4>3 DEF Shuffle
      <3> QED
        BY <3>1 DEF TurnsTo
    <2> QED
      BY <2>1, <2>2 DEF DealtInv, Shuffle
  <1>7. BufInv' /\ DataInv' /\ NoHalt'
    BY DEF BufInv, DataInv, NoHalt, Shuffle
  <1> QED
    BY <1>4, <1>5, <1>6, <1>7 DEF IInv

\* A card is dealt.
LEMMA DealCardInv == ASSUME IInv, DealCard PROVE IInv'
  <1> DEFINE u == seat[i % CHARACTERCOUNT]
             c == cards[i + 1]
  <1>1. TypeOK /\ OneDeck /\ DealtInv
    BY DEF IInv
  <1>2. /\ i \in Nat /\ i < NumDealt /\ i + 1 \in Position /\ i % CHARACTERCOUNT \in Seat
        /\ i + 1 \in 0..NumDealt
    BY <1>1, Sizes DEF TypeOK, DealCard, Position, Seat, CHARACTERCOUNT
  <1>3. u \in User /\ c \in Card
    BY <1>1, <1>2 DEF TypeOK
  <1>4. /\ owner' = [owner EXCEPT ![c] = u]
        /\ card_count' = [card_count EXCEPT ![u] = @ + 1]
        /\ i' = i + 1 /\ pc = "deal"
        /\ UNCHANGED <<seat, cards, buf, card_data, status, pc, games>>
    BY DEF DealCard
  <1>5. TypeOK'
    <2>1. owner' \in [Card -> User \cup {Nobody}]
      BY <1>1, <1>3, <1>4 DEF TypeOK
    <2>2. card_count' \in [User -> Int]
      BY <1>1, <1>3, <1>4 DEF TypeOK
    <2> QED
      BY <1>1, <1>2, <1>4, <2>1, <2>2 DEF TypeOK
  <1>6. OneDeck'
    BY <1>1, <1>4 DEF OneDeck
  <1>7. DealtInv'
    <2>1. TurnsTo(i) /\ buf = [k \in Seat |-> << >>]
      BY <1>1, <1>4 DEF DealtInv
    <2>2. ASSUME NEW p \in Position
          PROVE  owner'[cards[p]] = IF p <= i + 1 THEN seat[(p - 1) % CHARACTERCOUNT]
                                    ELSE Nobody
      <3>1. cards[p] \in Card
        BY <1>1 DEF TypeOK
      <3>2. CASE p = i + 1
        <4>1. owner'[cards[p]] = u
          BY <1>1, <1>4, <3>1, <3>2 DEF TypeOK
        <4>2. p <= i + 1 /\ p - 1 = i
          BY <1>2, <3>2
        <4> QED
          BY <4>1, <4>2
      <3>3. CASE p # i + 1
        <4>1. cards[p] # c
          BY <1>1, <1>2, <3>3 DEF OneDeck
        <4>2. owner'[cards[p]] = owner[cards[p]]
          BY <1>1, <1>4, <3>1, <4>1 DEF TypeOK
        <4>3. p <= i + 1 <=> p <= i
          BY <1>2, <3>3, Sizes DEF Position
        <4> QED
          BY <2>1, <4>2, <4>3 DEF TurnsTo
      <3> QED
        BY <3>2, <3>3
    <2>3. TurnsTo(i)'
      BY <1>4, <2>2 DEF TurnsTo
    <2> QED
      BY <1>4, <2>1, <2>3 DEF DealtInv
  <1>8. BufInv' /\ DataInv' /\ NoHalt'
    BY <1>4 DEF BufInv, DataInv, NoHalt
  <1> QED
    BY <1>5, <1>6, <1>7, <1>8 DEF IInv

\* The cards are dealt.
LEMMA DealtStepInv == ASSUME IInv, Dealt PROVE IInv'
  <1>1. TypeOK /\ OneDeck /\ DealtInv
    BY DEF IInv
  <1>2. /\ pc = "deal" /\ i = NumDealt /\ pc' = "data2user" /\ i' = 0
        /\ UNCHANGED <<seat, cards, owner, buf, card_count, card_data, games>>
    BY DEF Dealt
  <1>3. TypeOK'
    <2>1. status' \in [User -> {"ON_LINE", "READY", "IN_GAME"}]
      BY <1>1 DEF Dealt, TypeOK
    <2> QED
      BY <1>1, <1>2, <2>1, Sizes DEF TypeOK
  <1>4. OneDeck'
    BY <1>1, <1>2 DEF OneDeck
  <1>5. TurnsTo(NumDealt) /\ buf = [k \in Seat |-> << >>]
    BY <1>1, <1>2 DEF DealtInv
  <1>6. DealtInv'
    <2>1. TurnsTo(NumDealt)'
      BY <1>2, <1>5 DEF TurnsTo
    <2> QED
      BY <1>2, <2>1 DEF DealtInv
  <1>7. BufInv'
    <2>1. \A k \in Seat : /\ buf'[k] = << >> /\ Compared[k] \in Seat
                          /\ Share(Compared[k], 0) = 0
      <3> TAKE k \in Seat
      <3>1. Compared[k] \in Seat
        BY DEF Compared, Seat
      <3>2. Share(Compared[k], 0) = 0
        BY <3>1, ShareFacts, 0 \in Nat
      <3> QED
        BY <1>2, <1>5, <3>1, <3>2
    <2>2. WrittenTo(0)'
      BY <1>2, <2>1 DEF WrittenTo, Share, Compared
    <2> QED
      BY <1>2, <2>2 DEF BufInv
  <1>8. DataInv' /\ NoHalt'
    BY <1>2 DEF DataInv, NoHalt
  <1> QED
    BY <1>3, <1>4, <1>6, <1>7, <1>8 DEF IInv

\* Whose turn a card was: with three users, the seats an array is for.
LEMMA TurnFacts ==
    ASSUME IInv, DataCard, Distinct, pc = "data2user",
           NEW k \in Seat
    PROVE  /\ Compared[k] \in Seat
           /\ Len(buf[k]) = Share(Compared[k], i)
           /\ owner[cards[i + 1]] = seat[Compared[k]] <=> i % 3 = Compared[k]
           /\ i % 3 = Compared[k] => /\ Share(Compared[k], i) < UDATA
                                     /\ i = (3 * Share(Compared[k], i)) + Compared[k]
                                     /\ Share(Compared[k], i + 1) = Share(Compared[k], i) + 1
           /\ i % 3 # Compared[k] => Share(Compared[k], i + 1) = Share(Compared[k], i)
  <1>1. TypeOK /\ DealtInv /\ BufInv
    BY DEF IInv
  <1>2. /\ i \in Nat /\ i < NumDealt /\ i + 1 \in Position /\ i % 3 \in Seat
        /\ i + 1 <= NumDealt
    BY <1>1, Sizes DEF TypeOK, DataCard, Position, Seat
  <1>3. Compared[k] \in Seat
    BY DEF Compared, Seat
  <1>4. Len(buf[k]) = Share(Compared[k], i)
    BY <1>1 DEF BufInv, WrittenTo
  <1>5. owner[cards[i + 1]] = seat[i % 3]
    <2>1. TurnsTo(NumDealt)
      BY <1>1 DEF DealtInv
    <2> QED
      BY <1>2, <2>1 DEF TurnsTo, CHARACTERCOUNT
  <1>6. owner[cards[i + 1]] = seat[Compared[k]] <=> i % 3 = Compared[k]
    BY <1>2, <1>3, <1>5 DEF Distinct
  <1>7. /\ Share(Compared[k], i) \in Nat
        /\ i % 3 = Compared[k] => /\ Share(Compared[k], i + 1) = Share(Compared[k], i) + 1
                                  /\ i = (3 * Share(Compared[k], i)) + Compared[k]
        /\ i % 3 # Compared[k] => Share(Compared[k], i + 1) = Share(Compared[k], i)
    BY <1>2, <1>3, ShareFacts
  <1>8. i % 3 = Compared[k] => Share(Compared[k], i) < UDATA
    BY <1>2, <1>3, <1>7, Sizes DEF Seat
  <1> QED
    BY <1>3, <1>4, <1>6, <1>7, <1>8

\* A card's byte is written.
LEMMA DataCardInv == ASSUME IInv, DataCard PROVE IInv'
  <1> DEFINE c  == cards[i + 1]
             to == {k \in Seat : owner[c] = seat[Compared[k]]}
             Halts == pc' \in {"unset", "overflow"} /\ UNCHANGED <<buf, i>>
             Writes == /\ buf' = [k \in Seat |-> IF k \in to THEN Append(buf[k], to_data(c))
                                                 ELSE buf[k]]
                       /\ i' = i + 1 /\ UNCHANGED pc
  <1>1. TypeOK /\ OneDeck /\ DealtInv /\ BufInv /\ NoHalt
    BY DEF IInv
  <1>2. /\ pc = "data2user" /\ i \in Nat /\ i < NumDealt /\ i + 1 \in Position
        /\ i + 1 \in 0..NumDealt
        /\ UNCHANGED <<seat, cards, owner, card_count, card_data, status, games>>
    BY <1>1, Sizes DEF TypeOK, DataCard, Position, userVars
  <1>3. c \in Card /\ to_data(c) \in Byte
    BY <1>1, <1>2, ByteFacts DEF TypeOK
  <1>4. owner[c] # Nobody
    <2>1. TurnsTo(NumDealt)
      BY <1>1, <1>2 DEF DealtInv
    <2>2. owner[c] = seat[i % CHARACTERCOUNT] /\ i % CHARACTERCOUNT \in Seat
      BY <1>2, <2>1, Sizes DEF TurnsTo, CHARACTERCOUNT, Seat
    <2> QED
      BY <1>1, <2>2, UserAssumption DEF TypeOK
  <1>5. Halts \/ Writes
    BY DEF DataCard
  <1>6. pc' # "unset" /\ (Distinct => pc' # "overflow")
    <2>1. pc' # "unset"
      BY <1>2, <1>4 DEF DataCard
    <2>2. ASSUME Distinct PROVE pc' # "overflow"
      <3>1. \A k \in to : Len(buf[k]) # UDATA
        <4> TAKE k \in to
        <4>1. k \in Seat /\ owner[c] = seat[Compared[k]]
          OBVIOUS
        <4>2. Len(buf[k]) = Share(Compared[k], i) /\ Share(Compared[k], i) < UDATA
          BY <1>2, <2>2, <4>1, TurnFacts
        <4>3. Share(Compared[k], i) \in Int /\ UDATA \in Int
          <5>1. Compared[k] \in Seat
            BY <4>1 DEF Compared, Seat
          <5> QED
            BY <1>2, <5>1, ShareFacts, Sizes
        <4> QED
          BY <4>2, <4>3
      <3> QED
        BY <1>2, <3>1 DEF DataCard
    <2> QED
      BY <2>1, <2>2
  <1>7. TypeOK'
    <2>1. buf' \in [Seat -> Seq(Byte)]
      <3>1. CASE Halts
        BY <1>1, <3>1 DEF TypeOK
      <3>2. CASE Writes
        <4>1. \A k \in Seat : Append(buf[k], to_data(c)) \in Seq(Byte) /\ buf[k] \in Seq(Byte)
          BY <1>1, <1>3 DEF TypeOK
        <4> QED
          BY <3>2, <4>1
      <3> QED
        BY <1>5, <3>1, <3>2
    <2>2. i' \in 0..NumDealt
      BY <1>1, <1>2, <1>5 DEF TypeOK
    <2>3. pc' \in {"display", "deal", "data2user", "done", "overflow", "unset"}
      BY <1>2, <1>5
    <2> QED
      BY <1>1, <1>2, <2>1, <2>2, <2>3 DEF TypeOK
  <1>8. OneDeck'
    BY <1>1, <1>2 DEF OneDeck
  <1>9. DealtInv'
    <2>1. TurnsTo(NumDealt)'
      BY <1>1, <1>2 DEF DealtInv, TurnsTo
    <2> QED
      BY <1>2, <1>5, <2>1 DEF DealtInv
  <1>10. BufInv'
    <2> SUFFICES ASSUME Distinct, Writes PROVE WrittenTo(i)'
      BY <1>2, <1>5, <1>6 DEF BufInv, Distinct
    <2> SUFFICES ASSUME NEW k \in Seat
                 PROVE  /\ Len(buf'[k]) = Share(Compared[k], i + 1)
                        /\ \A m \in 1..Len(buf'[k]) :
                              buf'[k][m] = to_data(CardOf(Compared[k], m))
      BY <1>2 DEF WrittenTo, CardOf, Share, Compared
    <2>1. /\ Compared[k] \in Seat
          /\ Len(buf[k]) = Share(Compared[k], i)
          /\ owner[c] = seat[Compared[k]] <=> i % 3 = Compared[k]
          /\ i % 3 = Compared[k] =>
                /\ i = (3 * Share(Compared[k], i)) + Compared[k]
                /\ Share(Compared[k], i + 1) = Share(Compared[k], i) + 1
          /\ i % 3 # Compared[k] => Share(Compared[k], i + 1) = Share(Compared[k], i)
      BY <1>2, TurnFacts
    <2>2. \A m \in 1..Len(buf[k]) : buf[k][m] = to_data(CardOf(Compared[k], m))
      BY <1>1, <1>2 DEF BufInv, WrittenTo
    <2>3. buf[k] \in Seq(Byte) /\ Len(buf[k]) \in Nat
      BY <1>1 DEF TypeOK
    <2>4. CASE i % 3 = Compared[k]
      <3>1. buf'[k] = Append(buf[k], to_data(c))
        BY <2>1, <2>4
      <3>2. Len(buf'[k]) = Len(buf[k]) + 1
        BY <1>3, <2>3, <3>1
      <3>3. CardOf(Compared[k], Len(buf[k]) + 1) = c
        <4>1. i + 1 = (3 * ((Len(buf[k]) + 1) - 1)) + Compared[k] + 1
          BY <1>2, <2>1, <2>3, <2>4 DEF Seat
        <4> QED
          BY <4>1 DEF CardOf, CHARACTERCOUNT
      <3>4. ASSUME NEW m \in 1..Len(buf'[k])
            PROVE  buf'[k][m] = to_data(CardOf(Compared[k], m))
        <4>1. CASE m = Len(buf[k]) + 1
          <5>1. buf'[k][m] = to_data(c)
            BY <1>3, <2>3, <3>1, <4>1
          <5> QED
            BY <3>3, <4>1, <5>1
        <4>2. CASE m # Len(buf[k]) + 1
          <5>1. m \in 1..Len(buf[k])
            BY <2>3, <3>2, <4>2
          <5>2. buf'[k][m] = buf[k][m]
            BY <1>3, <2>3, <3>1, <5>1
          <5> QED
            BY <2>2, <5>1, <5>2
        <4> QED
          BY <4>1, <4>2
      <3> QED
        BY <2>1, <2>4, <3>2, <3>4
    <2>5. CASE i % 3 # Compared[k]
      <3>1. buf'[k] = buf[k]
        BY <2>1, <2>5
      <3> QED
        BY <2>1, <2>2, <2>5, <3>1
    <2> QED
      BY <2>4, <2>5
  <1>11. DataInv' /\ NoHalt'
    BY <1>2, <1>5, <1>6 DEF DataInv, NoHalt, Distinct
  <1> QED
    BY <1>7, <1>8, <1>9, <1>10, <1>11 DEF IInv

\* The bytes are handed over.
LEMMA SetCarddataInv == ASSUME IInv, set_carddata PROVE IInv'
  <1>1. TypeOK /\ OneDeck /\ DealtInv /\ BufInv
    BY DEF IInv
  <1>2. /\ pc = "data2user" /\ i = NumDealt /\ pc' = "done"
        /\ UNCHANGED <<seat, cards, owner, card_count, status, buf, i, games>>
    BY DEF set_carddata
  <1>3. \A k \in Seat : Zeroed(buf[k]) \in Seq(Byte)
    <2> TAKE k \in Seat
    <2>1. buf[k] \in Seq(Byte) /\ UDATA \in Nat
      BY <1>1, Sizes DEF TypeOK
    <2>2. \A n \in 1..UDATA : (IF n <= Len(buf[k]) THEN buf[k][n] ELSE 0) \in Byte
      <3> TAKE n \in 1..UDATA
      <3>1. n <= Len(buf[k]) => buf[k][n] \in Byte
        BY <2>1
      <3>2. 0 \in Byte
        BY DEF Byte
      <3> QED
        BY <3>1, <3>2
    <2>3. Zeroed(buf[k]) \in [1..UDATA -> Byte]
      BY <2>2 DEF Zeroed
    <2> QED
      BY <2>1, <2>3, SeqDef
  <1> HIDE DEF Zeroed
  <1>4. TypeOK'
    <2>1. 0 \in Seat /\ 1 \in Seat /\ 2 \in Seat
      BY DEF Seat
    <2>2. card_data' \in [User -> Seq(Byte)]
      BY <1>1, <1>3, <2>1 DEF set_carddata, TypeOK
    <2> QED
      BY <1>1, <1>2, <2>2 DEF TypeOK
  <1>5. OneDeck'
    BY <1>1, <1>2 DEF OneDeck
  <1>6. DealtInv'
    <2>1. TurnsTo(NumDealt)'
      BY <1>1, <1>2 DEF DealtInv, TurnsTo
    <2> QED
      BY <1>2, <2>1 DEF DealtInv
  <1>7. WrittenTo(i)' <=> WrittenTo(i)
    BY <1>2 DEF WrittenTo, CardOf, Share, Compared
  <1>8. BufInv'
    BY <1>1, <1>2, <1>7 DEF BufInv, Distinct
  <1>9. DataInv'
    <2> SUFFICES ASSUME Distinct, NEW k \in Seat
                 PROVE  card_data'[seat[k]] =
                            [n \in 1..UDATA |-> to_data(CardOf(Compared[k], n))]
      BY <1>2 DEF DataInv, Distinct, CardOf, Compared
    <2>1. card_data'[seat[k]] = Zeroed(buf[k])
      <3>1. seat[k] \in User /\ k \in {0, 1, 2} /\ 0 \in Seat /\ 1 \in Seat /\ 2 \in Seat
        BY <1>1 DEF TypeOK, Seat
      <3> QED
        BY <3>1 DEF set_carddata, Distinct
    <2>2. Len(buf[k]) = UDATA
      <3>1. Len(buf[k]) = Share(Compared[k], 3 * UDATA) /\ Compared[k] \in Seat
        BY <1>1, <1>2, Sizes DEF BufInv, WrittenTo, Compared, Seat
      <3>2. UDATA \in Nat
        BY Sizes
      <3> QED
        BY <3>1, <3>2, ShareFacts
    <2>3. \A n \in 1..UDATA : buf[k][n] = to_data(CardOf(Compared[k], n))
      BY <1>1, <1>2, <2>2 DEF BufInv, WrittenTo
    <2>4. Zeroed(buf[k]) = [n \in 1..UDATA |-> buf[k][n]]
      BY <2>2, Sizes DEF Zeroed
    <2> QED
      BY <2>1, <2>3, <2>4
  <1>10. NoHalt'
    BY <1>2 DEF NoHalt
  <1> QED
    BY <1>4, <1>5, <1>6, <1>8, <1>9, <1>10 DEF IInv

\* Nothing happens.
LEMMA StutterInv == ASSUME IInv, UNCHANGED vars PROVE IInv'
  <1>1. /\ UNCHANGED <<seat, cards, owner, card_count, card_data, status>>
        /\ UNCHANGED <<buf, i, pc, games>>
    BY DEF vars, userVars
  <1>2. TypeOK' /\ OneDeck' /\ NoHalt'
    BY <1>1 DEF IInv, TypeOK, OneDeck, NoHalt, Distinct
  <1>3. DealtInv'
    BY <1>1 DEF IInv, DealtInv, TurnsTo
  <1>4. BufInv'
    BY <1>1 DEF IInv, BufInv, WrittenTo, CardOf, Distinct
  <1>5. DataInv'
    BY <1>1 DEF IInv, DataInv, CardOf, Distinct
  <1> QED
    BY <1>2, <1>3, <1>4, <1>5 DEF IInv

-----------------------------------------------------------------------------
\* Whatever the deck, its order and the users, the cards go round the table,
\* and the bytes in each array are those of the cards of the seat it is
\* compared with (create_card, display, deal, data2user).
THEOREM Invariant == Spec => []IInv
  <1>1. Init => IInv
    BY InitIInv
  <1>2. IInv /\ [Next]_vars => IInv'
    <2> SUFFICES ASSUME IInv, [Next]_vars PROVE IInv'
      OBVIOUS
    <2>1. CASE Shuffle
      BY <2>1, ShuffleInv
    <2>2. CASE DealCard
      BY <2>2, DealCardInv
    <2>3. CASE Dealt
      BY <2>3, DealtStepInv
    <2>4. CASE DataCard
      BY <2>4, DataCardInv
    <2>5. CASE set_carddata
      BY <2>5, SetCarddataInv
    <2>6. CASE NextGame
      BY <2>6, NextGameInv
    <2>7. CASE UNCHANGED vars
      BY <2>7, StutterInv
    <2> QED
      BY <2>1, <2>2, <2>3, <2>4, <2>5, <2>6, <2>7 DEF Next
  <1> QED
    BY <1>1, <1>2, PTL DEF Spec

\* The deck of a game stays the deck that was made (create_card,
\* random_shuffle).
THEOREM OneDeckKept == Spec => []OneDeck
  <1>1. IInv => OneDeck
    BY DEF IInv
  <1> QED
    BY <1>1, Invariant, PTL

\* data2user reads no _user that was never set, and with three users its bytes
\* fit.
THEOREM NeverHalts == Spec => []NoHalt
  <1>1. IInv => NoHalt
    BY DEF IInv
  <1> QED
    BY <1>1, Invariant, PTL

\* The bytes for the first two seats' clients are those of their cards, in the
\* order in which these were dealt.
THEOREM HandsRight == Spec => []HandsSent
  <1>1. IInv => HandsSent
    <2>1. 0 \in Seat /\ 1 \in Seat /\ Compared[0] = 0 /\ Compared[1] = 1
      BY DEF Seat, Compared
    <2> QED
      BY <2>1 DEF IInv, DataInv, HandsSent, HandSent
  <1> QED
    BY <1>1, Invariant, PTL

\* Two of these bytes never name the same card.
THEOREM BytesDiffer == Spec => []NoByteTwice
  <1>1. IInv => NoByteTwice
    <2> SUFFICES ASSUME IInv, Distinct, pc = "done",
                        NEW j \in {0, 1}, NEW k \in {0, 1},
                        NEW m \in 1..UDATA, NEW n \in 1..UDATA,
                        card_data[seat[j]][m] = card_data[seat[k]][n]
                 PROVE  j = k /\ m = n
      BY DEF NoByteTwice
    <2>1. TypeOK /\ OneDeck /\ DataInv
      BY DEF IInv
    <2>2. /\ j \in Seat /\ k \in Seat /\ Compared[j] = j /\ Compared[k] = k
      BY DEF Seat, Compared
    <2>3. /\ card_data[seat[j]][m] = to_data(CardOf(j, m))
          /\ card_data[seat[k]][n] = to_data(CardOf(k, n))
      <3>1. /\ card_data[seat[j]] = [x \in 1..UDATA |-> to_data(CardOf(j, x))]
            /\ card_data[seat[k]] = [x \in 1..UDATA |-> to_data(CardOf(k, x))]
        BY <2>1, <2>2 DEF DataInv
      <3> QED
        BY <3>1
    <2>4. /\ (3 * (m - 1)) + j + 1 \in Position
          /\ (3 * (n - 1)) + k + 1 \in Position
      BY <2>2, Sizes DEF Position, Seat
    <2>5. /\ CardOf(j, m) = cards[(3 * (m - 1)) + j + 1] /\ CardOf(j, m) \in Card
          /\ CardOf(k, n) = cards[(3 * (n - 1)) + k + 1] /\ CardOf(k, n) \in Card
      BY <2>1, <2>4 DEF CardOf, CHARACTERCOUNT, TypeOK
    <2>6. CardOf(j, m) = CardOf(k, n)
      BY <2>3, <2>5, ByteFacts
    <2>7. (3 * (m - 1)) + j + 1 = (3 * (n - 1)) + k + 1
      BY <2>1, <2>4, <2>5, <2>6 DEF OneDeck
    <2> QED
      BY <2>2, <2>7, Sizes DEF Seat
  <1> QED
    BY <1>1, Invariant, PTL

\* Every seat gets as many cards as the arrays of data2user and of User hold,
\* and the last three stay with nobody (deal).
THEOREM FairDealt == Spec => []FairDeal
  <1>1. IInv => FairDeal
    <2> SUFFICES ASSUME IInv, Distinct, pc \in {"data2user", "done"}
                 PROVE  /\ \A k \in Seat : Cardinality(Given(seat[k])) = UDATA
                        /\ Given(Nobody) = NumDealt+1..CARDCOUNT
      BY DEF FairDeal
    <2>1. TypeOK /\ TurnsTo(NumDealt)
      BY DEF IInv, DealtInv
    <2>2. ASSUME NEW p \in Position, p <= NumDealt
          PROVE  /\ (p - 1) % 3 \in Seat
                 /\ owner[cards[p]] = seat[(p - 1) % 3] /\ owner[cards[p]] # Nobody
      <3>1. (p - 1) % 3 \in Seat
        BY Sizes DEF Position, Seat
      <3>2. owner[cards[p]] = seat[(p - 1) % 3]
        BY <2>1, <2>2 DEF TurnsTo, CHARACTERCOUNT
      <3> QED
        BY <2>1, <3>1, <3>2, UserAssumption DEF TypeOK
    <2>3. ASSUME NEW p \in Position, ~(p <= NumDealt) PROVE owner[cards[p]] = Nobody
      BY <2>1, <2>3 DEF TurnsTo
    <2>4. Given(Nobody) = NumDealt+1..CARDCOUNT
      <3>1. ASSUME NEW p \in Position
            PROVE  owner[cards[p]] = Nobody <=> p \in NumDealt+1..CARDCOUNT
        BY <2>2, <2>3, Sizes DEF Position
      <3>2. NumDealt+1..CARDCOUNT \subseteq Position
        BY Sizes DEF Position
      <3> QED
        BY <3>1, <3>2 DEF Given
    <2>5. ASSUME NEW k \in Seat PROVE Cardinality(Given(seat[k])) = UDATA
      <3> DEFINE f == [n \in 1..UDATA |-> (3 * (n - 1)) + k + 1]
      <3>1. ASSUME NEW n \in 1..UDATA PROVE f[n] \in Given(seat[k])
        <4>1. f[n] = (3 * (n - 1)) + k + 1
          OBVIOUS
        <4>2. f[n] \in Position /\ f[n] <= NumDealt /\ (f[n] - 1) % 3 = k
          BY <4>1, Sizes DEF Position, Seat
        <4> QED
          BY <2>2, <4>2 DEF Given
      <3>2. ASSUME NEW p \in Given(seat[k])
            PROVE  \E n \in 1..UDATA : f[n] = p
        <4>1. p \in Position /\ owner[cards[p]] = seat[k]
          BY DEF Given
        <4>2. p <= NumDealt
          <5>1. seat[k] # Nobody
            BY <2>1, UserAssumption DEF TypeOK
          <5> QED
            BY <2>3, <4>1, <5>1
        <4>3. (p - 1) % 3 = k
          BY <2>2, <4>1, <4>2 DEF Distinct
        <4>4. PICK q \in Nat : p - 1 = (3 * q) + k
          <5>1. p - 1 \in Nat /\ (p - 1) \div 3 \in Nat
            BY <4>1, Sizes DEF Position
          <5>2. p - 1 = (3 * ((p - 1) \div 3)) + ((p - 1) % 3)
            BY <5>1
          <5> QED
            BY <4>3, <5>1, <5>2
        <4>5. q + 1 \in 1..UDATA
          BY <4>1, <4>2, <4>4, Sizes DEF Seat, Position
        <4>6. f[q + 1] = (3 * ((q + 1) - 1)) + k + 1
          BY <4>5
        <4>7. f[q + 1] = p
          <5> HIDE DEF f
          <5> QED
            BY <4>1, <4>4, <4>6, Sizes DEF Seat, Position
        <4> QED
          BY <4>5, <4>7
      <3>3. ASSUME NEW m \in 1..UDATA, NEW n \in 1..UDATA, f[m] = f[n] PROVE m = n
        <4>1. (3 * (m - 1)) + k + 1 = (3 * (n - 1)) + k + 1
          BY <3>3
        <4> QED
          BY <4>1, Sizes DEF Seat
      <3>4. f \in Bijection(1..UDATA, Given(seat[k]))
        <4>1. f \in [1..UDATA -> Given(seat[k])]
          BY <3>1
        <4> HIDE DEF f
        <4>2. f \in Injection(1..UDATA, Given(seat[k]))
          BY <3>3, <4>1 DEF Injection, IsInjective
        <4>3. f \in Surjection(1..UDATA, Given(seat[k]))
          BY <3>2, <4>1 DEF Surjection
        <4> QED
          BY <4>2, <4>3 DEF Bijection
      <3>5. IsFiniteSet(1..UDATA) /\ Cardinality(1..UDATA) = UDATA
        <4>1. UDATA \in Nat
          BY Sizes
        <4> QED
          BY <4>1, FS_Interval
      <3>6. ExistsBijection(1..UDATA, Given(seat[k]))
        BY <3>4 DEF ExistsBijection
      <3> QED
        BY <3>5, <3>6, FS_Bijection
    <2> QED
      BY <2>4, <2>5
  <1> QED
    BY <1>1, Invariant, PTL
=============================================================================
