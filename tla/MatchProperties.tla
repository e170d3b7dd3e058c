-------------------------- MODULE MatchProperties --------------------------
(* What Match is meant to guarantee, and what the code says of itself.     *)
EXTENDS Match, FiniteSets

-----------------------------------------------------------------------------
\* The thread that has linked a node and not counted it yet holds the mutex.
Uncounted == \E w \in Worker : pc[w] \in {"init", "count"}

\* ready_num trails the length of readys by the one node a worker is adding
\* (ready_start, Yprocess.cpp:132-135; parse_readys, YGame_Server.cpp:324-330).
\* It never counts a node that is not in the list, whatever xlist_kill_remove
\* finds, so the unlocked test `ready_num >= GAME_USER_COUNT' is safe.
CountMatchesList == Len(readys) = ready_num + (IF Uncounted THEN 1 ELSE 0)

\* While parse_readys reads the first three nodes without the mutex
\* (YGame_Server.cpp:315-322), a worker may be appending: all three are there
\* and have their value, so users[i] is never read through a null node.
ReadsAreFilled ==
    gpc = "read" =>
        /\ Len(readys) >= TableSize
        /\ \A k \in 1..TableSize : readys[k] # NULL

\* Between the unlocked reads and the locked removals (YGame_Server.cpp:
\* 321-328) the users read keep the front of the list, in that order.
PickedStayFirst ==
    gpc \in {"lock", "kill"} =>
        \A k \in killed+1..TableSize : readys[k - killed] = picked[k]

\* Removal by name takes out the very node that was read, not another of the
\* same name: a node leaves readys only from its front, and it is the one whose
\* user takes the next seat (YGame_Server.cpp:327, xlist_kill_remove).
LeavesFromFront ==
    [][Len(readys') < Len(readys) =>
          /\ readys' = Tail(readys)
          /\ Head(readys) = picked[killed']]_vars

-----------------------------------------------------------------------------
(* The inductive invariant behind these four.                              *)

\* The thread inside the critical section is the one that holds mutex_ready.
MutexInv ==
    /\ \A w \in Worker :
          pc[w] \in {"link", "init", "count", "unlock"} <=> mutex_ready = w
    /\ gpc = "kill" <=> mutex_ready = GameThread

\* A busy worker has a user; a node without value is the last, and some worker
\* is about to fill it.
NodeInv ==
    /\ \A w \in Worker : pc[w] # "idle" => req[w] \in User
    /\ \A w \in Worker :
          pc[w] = "init" => Len(readys) > 0 /\ readys[Len(readys)] = NULL
    /\ \A k \in 1..Len(readys) :
          readys[k] = NULL => k = Len(readys) /\ \E w \in Worker : pc[w] = "init"

\* How far parse_readys has come, and how many nodes it can count on.
PickInv ==
    /\ gpc = "read" => Len(picked) < TableSize
    /\ gpc \in {"lock", "kill", "make"} => Len(picked) = TableSize
    /\ gpc \in {"read", "lock"} => killed = 0 /\ ready_num >= TableSize
    /\ gpc = "kill" => ready_num >= TableSize - killed

\* What it has read and not yet removed is the front of the list.
FrontInv ==
    gpc \in {"read", "lock", "kill"} =>
        \A k \in killed+1..Len(picked) :
            k - killed <= Len(readys) /\ readys[k - killed] = picked[k]

\* What get_user's walk has passed: filled nodes of other names.
WalkInv ==
    gpc = "walk" =>
        /\ look.pos \in 1..Len(readys)+1
        /\ \A k \in 1..look.pos-1 :
              readys[k] # NULL /\ NameOf[readys[k]] # look.name
        /\ GamesWith(look.name) = {}

\* Inductive: the unlocked reads of parse_readys are safe because ready_num
\* promises nodes that are filled, and only this thread takes nodes out.
IInv ==
    /\ TypeOK /\ MutexInv /\ CountMatchesList
    /\ NodeInv /\ PickInv /\ FrontInv /\ WalkInv

-----------------------------------------------------------------------------
\* The users on their way from the list to a game.
Hand == IF gpc = "kill" THEN SubSeq(picked, 1, killed)
        ELSE IF gpc = "make" THEN picked ELSE << >>

\* Those in the list; only the last node may have no value yet.
Filled == IF readys # << >> /\ Last(readys) = NULL THEN Front(readys) ELSE readys

Waiting == Hand \o Filled

\* The threads, the lock and the removal by key amount to one FIFO queue from
\* which tables of three are taken: no MATCH request is lost, served twice or
\* overtaken (ready_start with parse_readys).
Abstract == INSTANCE Matchmaking WITH queue <- Waiting, tables <- games
Implements == Abstract!Spec

\* With every thread that can run running, and the process alive, three that
\* wait get their table: the unlocked test of ready_num never misses them for
\* good, and the game thread gets mutex_ready (parse_readys).
TablesFill == [](halt = "no") => Abstract!Fairness

-----------------------------------------------------------------------------
\* The cards of a seat of a game are with its user: sent, or loaded and the user
\* still on the waiting list (set_carddata, send_waitdata), unless the user was
\* seated again and the later game's cards have taken their place (YUser.cpp:238).
SeatedAgain(u, k) == \E j \in 1..Len(games) : j > k /\ u \in ToSet(games[j])

HandsKept ==
    \A k \in 1..Len(games) : \A u \in ToSet(games[k]) :
        \/ k \in delivered[u]
        \/ wait_senddata[u] = k /\ u \in ToSet(waiting)
        \/ SeatedAgain(u, k)

\* A seated user that has reached the game server gets the cards of its game,
\* although a round of the loop serves one user only (send_waitdata).
CardsArrive ==
    \A u \in User :
        (u \in attached /\ \E k \in 1..Len(games) : u \in ToSet(games[k]))
            ~> (delivered[u] # {} \/ halt # "no")

\* get_user's unlocked walk of readys (YGame_Server.cpp:381-389) tells a client
\* that it is unknown only if nobody of its name waits or sits in a game then,
\* although workers keep appending behind the walk.
NotFoundIsAbsent ==
    [][gpc = "walk" /\ gpc' = "serve" /\ look.pos > Len(readys) =>
          Hits(readys, look.name) = {} /\ GamesWith(look.name) = {}]_vars

-----------------------------------------------------------------------------
(* What an assertion says.                                                 *)

\* YGame_Server.cpp:384, xassert(user): a node get_user looks at has a value.
AssertedValue == halt # "assert"
=============================================================================
