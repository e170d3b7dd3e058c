------------------------------- MODULE Match -------------------------------
(***************************************************************************)
(* Matchmaking: the worker threads log users in and put those that ask for *)
(* a match at the back of the list `readys'; the one game thread takes     *)
(* them out three at a time, makes a game of them and hands them their     *)
(* cards when they reach it over a second connection.                      *)
(*                                                                         *)
(* The workers append under mutex_ready.  The game thread reads ready_num  *)
(* and the list without it, and locks only to remove: the steps between    *)
(* two such accesses are separate actions here.  A node of `readys' is its *)
(* value, the User object; xlist_cat links a node before init_element      *)
(* fills it, and until then the value is NULL.                             *)
(***************************************************************************)
EXTENDS Integers, Sequences, SequencesExt

CONSTANTS
    Worker,         \* the libevent worker threads (WORK_THREAD of them)
    Stray,          \* indices a packet may carry that are no worker's
    GameThread,     \* the thread that runs game_work
    User,           \* User objects the process may allocate
    Name,           \* user names
    NameOf,         \* the name each User object is made with
    NULL,           \* a null pointer
    Wild,           \* what get_user_by_name returns without a return
    MaxMatch,       \* bound: MATCH requests accepted per User object
    MaxFirst        \* bound: FIRST messages handled in all

ASSUME ThreadAssumption == GameThread \notin Worker /\ NULL \notin Worker
                           /\ NULL # GameThread /\ Stray \cap Worker = {}
ASSUME UserAssumption == NULL \notin User /\ Wild \notin User /\ NULL # Wild
ASSUME NameAssumption == NameOf \in [User -> Name]
ASSUME BoundAssumption == MaxMatch \in Nat /\ MaxFirst \in Nat

VARIABLES
    users,          \* arr_users: per worker, the User objects logged in there
    pc,             \* where each worker is in ready_start
    req,            \* the User object a worker is making ready
    asked,          \* MATCH requests accepted so far, per User object
    readys,         \* master->readys
    ready_num,      \* master->ready_num
    mutex_ready,    \* the thread that holds it, or NULL
    gpc,            \* where the game thread is in its loop
    picked,         \* users[] of parse_readys
    killed,         \* how many of them it has removed
    games,          \* master->games, each game the sequence of its users
    waiting,        \* wait_senddata_user
    wait_senddata,  \* per User, the game whose cards it is to send; 0: none
    attached,       \* users whose _ev is set
    delivered,      \* per user, the games whose cards were queued to it
    look,           \* get_user's walk of readys: the name and the node
    firsts,         \* FIRST messages handled so far
    halt            \* "no", or how the process died

listVars   == <<readys, ready_num, mutex_ready>>
workerVars == <<users, pc, req, asked>>
pickVars   == <<picked, killed>>
waitVars   == <<waiting, wait_senddata, delivered>>
firstVars  == <<attached, look, firsts>>
vars == <<listVars, workerVars, gpc, pickVars, games, waitVars, firstVars, halt>>

TableSize == 3      \* GAME_USER_COUNT

WorkerPC == {"idle", "lock", "link", "init", "count", "unlock"}
GamePC   == {"check", "read", "lock", "kill", "make", "serve", "walk"}

TypeOK ==
    /\ users \in [Worker -> Seq(User)]
    /\ pc \in [Worker -> WorkerPC]
    /\ req \in [Worker -> User \cup {NULL}]
    /\ asked \in [User -> Nat]
    /\ readys \in Seq(User \cup {NULL})
    /\ ready_num \in Nat
    /\ mutex_ready \in Worker \cup {GameThread, NULL}
    /\ gpc \in GamePC
    /\ picked \in Seq(User)
    /\ killed \in 0..TableSize
    /\ games \in Seq(Seq(User))
    /\ waiting \in Seq(User)
    /\ wait_senddata \in [User -> Nat]
    /\ attached \subseteq User
    /\ delivered \in [User -> SUBSET Nat]
    /\ look \in [name : Name \cup {NULL}, pos : Nat]
    /\ firsts \in Nat
    /\ halt \in {"no", "segv", "assert"}

NoLook == [name |-> NULL, pos |-> 0]

\* YS_init, and the lists game_work makes before its loop.
Init ==
    /\ users = [w \in Worker |-> << >>]
    /\ pc = [w \in Worker |-> "idle"]
    /\ req = [w \in Worker |-> NULL]
    /\ asked = [u \in User |-> 0]
    /\ readys = << >>
    /\ ready_num = 0
    /\ mutex_ready = NULL
    /\ gpc = "check"
    /\ picked = << >>
    /\ killed = 0
    /\ games = << >>
    /\ waiting = << >>
    /\ wait_senddata = [u \in User |-> 0]
    /\ attached = {}
    /\ delivered = [u \in User |-> {}]
    /\ look = NoLook
    /\ firsts = 0
    /\ halt = "no"

-----------------------------------------------------------------------------
(* The lists, as xlist keeps them.                                         *)

\* The nodes whose key is n; a node that is not filled yet has none.
Hits(s, n) == {k \in 1..Len(s) : s[k] # NULL /\ NameOf[s[k]] = n}

\* The least element of a non-empty set of positions.
First(S) == CHOOSE k \in S : \A j \in S : k <= j

\* xlist_getv: the value of the first node with key n, or NULL.
xlist_getv(s, n) == IF Hits(s, n) = {} THEN NULL ELSE s[First(Hits(s, n))]

\* A fault: the removal finds the last node with the key instead of the first.
FaultRemoveLast(s, n) ==
    IF Hits(s, n) = {} THEN s
    ELSE RemoveAt(s, CHOOSE k \in Hits(s, n) : \A j \in Hits(s, n) : j <= k)

\* xlist_kill_remove: take out the first node with key n, if there is one.
xlist_kill_remove(s, n) ==
    IF Hits(s, n) = {} THEN s ELSE RemoveAt(s, First(Hits(s, n)))

-----------------------------------------------------------------------------
(* Faults: what a slip in the code would make of actions that follow.  No   *)
(* specification uses them; each shows that some property is not idle.      *)

\* The worker goes on without waiting for mutex_ready.
FaultNoLock(w) ==
    /\ pc[w] = "lock"
    /\ pc' = [pc EXCEPT ![w] = "link"]
    /\ mutex_ready' = w
    /\ UNCHANGED <<users, req, asked, readys, ready_num, gpc, pickVars, games,
                   waitVars, firstVars, halt>>

\* The new node, value and all, goes to the front (xlist_push for xlist_cat).
FaultPushFront(w) ==
    /\ pc[w] = "link"
    /\ pc' = [pc EXCEPT ![w] = "init"]
    /\ readys' = <<req[w]>> \o readys
    /\ UNCHANGED <<users, req, asked, ready_num, mutex_ready, gpc, pickVars,
                   games, waitVars, firstVars, halt>>

\* The loop's condition is off by one, downwards and upwards.
FaultCheckWith(least) ==
    /\ gpc = "check"
    /\ gpc' = IF ready_num >= least THEN "read" ELSE "serve"
    /\ picked' = << >> /\ killed' = 0
    /\ UNCHANGED <<listVars, workerVars, games, waitVars, firstVars, halt>>
FaultCheckTwo  == FaultCheckWith(TableSize - 1)
FaultCheckFour == FaultCheckWith(TableSize + 1)

\* The walk of get_user advances past a node it has not looked at.
FaultWalkSkips ==
    LET p == look.pos IN
    /\ gpc = "walk"
    /\ IF p <= Len(readys)
       THEN look' = [look EXCEPT !.pos = p + 2] /\ UNCHANGED gpc
       ELSE look' = NoLook /\ gpc' = "serve"
    /\ UNCHANGED <<listVars, workerVars, pickVars, games, waitVars, attached,
                   firsts, halt>>

\* The round of send_waitdata looks at the head of the list only, or takes
\* the data of a user before it asks whether that user is attached.
FaultHeadOnly ==
    /\ gpc = "serve" /\ gpc' = "check"
    /\ IF waiting # << >> /\ Head(waiting) \in attached
       THEN LET u == Head(waiting) IN
            /\ waiting' = Tail(waiting)
            /\ wait_senddata' = [wait_senddata EXCEPT ![u] = 0]
            /\ delivered' = [delivered EXCEPT ![u] = @ \cup {wait_senddata[u]}]
       ELSE UNCHANGED waitVars
    /\ UNCHANGED <<listVars, workerVars, pickVars, games, firstVars, halt>>
FaultTakesEarly ==
    /\ gpc = "serve" /\ gpc' = "check"
    /\ wait_senddata' =
          [u \in User |-> IF u \in ToSet(waiting) THEN 0 ELSE wait_senddata[u]]
    /\ UNCHANGED <<listVars, workerVars, pickVars, games, waiting, delivered,
                   firstVars, halt>>

-----------------------------------------------------------------------------
(* The worker threads.                                                     *)

LoggedIn(u) == \E w \in Worker : \E k \in 1..Len(users[w]) : users[w][k] = u

\* login: the database has accepted name and password; a new User object goes
\* to the back of this worker's list.  A reader compares the hash, written
\* last, before anything else, so it never sees the node half filled.
login(w, n) ==
    /\ pc[w] = "idle"
    /\ \E u \in User :
          /\ NameOf[u] = n /\ ~LoggedIn(u)
          /\ users' = [users EXCEPT ![w] = Append(@, u)]
    /\ UNCHANGED <<pc, req, asked, listVars, gpc, pickVars, games, waitVars,
                   firstVars, halt>>

\* What the search of users[inx] finds.  The packet's byte inx is not compared with
\* num_threads; what the memory past arr_users holds may lead to a list all the same.
Found(inx, n) ==
    IF inx \in Worker THEN {xlist_getv(users[inx], n)} \ {NULL}
    ELSE {u \in User : LoggedIn(u) /\ NameOf[u] = n}

\* ready_start up to the lock: the packet names the list to search and the
\* user.  A search that finds nobody answers 0 and leaves all as it was.
ready_start(w, inx, n) ==
    /\ pc[w] = "idle"
    /\ \E u \in Found(inx, n) :
          /\ asked[u] < MaxMatch
          /\ asked' = [asked EXCEPT ![u] = @ + 1]
          /\ req' = [req EXCEPT ![w] = u]
    /\ pc' = [pc EXCEPT ![w] = "lock"]
    /\ UNCHANGED <<users, listVars, gpc, pickVars, games, waitVars, firstVars,
                   halt>>

\* What is there is no list, and the search of it ends the process.
SearchNoList(w) ==
    /\ pc[w] = "idle" /\ Stray # {}
    /\ halt' = "segv"
    /\ UNCHANGED <<listVars, workerVars, gpc, pickVars, games, waitVars, firstVars>>

\* One step of ready_start; it leaves the game thread's state alone.
Step(w, from, to) ==
    /\ pc[w] = from
    /\ pc' = [pc EXCEPT ![w] = to]
    /\ UNCHANGED <<users, asked, gpc, pickVars, games, waitVars, firstVars, halt>>

LockReady(w) ==
    /\ Step(w, "lock", "link")
    /\ mutex_ready = NULL
    /\ mutex_ready' = w
    /\ UNCHANGED <<req, readys, ready_num>>

\* xlist_cat: the list has one more node from here on, ...
LinkNode(w) ==
    /\ Step(w, "link", "init")
    /\ readys' = Append(readys, NULL)
    /\ UNCHANGED <<req, ready_num, mutex_ready>>

\* ... and init_element gives that node its key and its value.
InitNode(w) ==
    /\ Step(w, "init", "count")
    /\ readys' = [readys EXCEPT ![Len(readys)] = req[w]]
    /\ UNCHANGED <<req, ready_num, mutex_ready>>

CountReady(w) ==
    /\ Step(w, "count", "unlock")
    /\ ready_num' = ready_num + 1
    /\ UNCHANGED <<req, readys, mutex_ready>>

UnlockReady(w) ==
    /\ Step(w, "unlock", "idle")
    /\ mutex_ready' = NULL
    /\ req' = [req EXCEPT ![w] = NULL]
    /\ UNCHANGED <<readys, ready_num>>

ReadyStep(w) ==
    \/ LockReady(w) \/ LinkNode(w) \/ InitNode(w) \/ CountReady(w)
    \/ UnlockReady(w)

-----------------------------------------------------------------------------
(* The game thread: parse_readys.                                          *)

\* The loop's condition, read without the mutex.
ParseCheck ==
    /\ gpc = "check"
    /\ gpc' = IF ready_num >= TableSize THEN "read" ELSE "serve"
    /\ picked' = << >>
    /\ killed' = 0
    /\ UNCHANGED <<listVars, workerVars, games, waitVars, firstVars, halt>>

\* xlist_index of the next node, also without it.  No such node, or a node
\* without a value, is reported and then used all the same.
ParseRead ==
    LET k == Len(picked) + 1 IN
    /\ gpc = "read"
    /\ IF k <= Len(readys) /\ readys[k] # NULL
       THEN /\ picked' = Append(picked, readys[k])
            /\ gpc' = IF k = TableSize THEN "lock" ELSE "read"
            /\ UNCHANGED halt
       ELSE /\ halt' = "segv"
            /\ UNCHANGED <<picked, gpc>>
    /\ UNCHANGED <<listVars, workerVars, killed, games, waitVars, firstVars>>

ParseLock ==
    /\ gpc = "lock"
    /\ mutex_ready = NULL
    /\ mutex_ready' = GameThread
    /\ gpc' = "kill"
    /\ UNCHANGED <<readys, ready_num, workerVars, pickVars, games, waitVars,
                   firstVars, halt>>

\* One round of the removing loop; the count drops whatever was found.
ParseKill ==
    /\ gpc = "kill" /\ killed < TableSize
    /\ readys' = xlist_kill_remove(readys, NameOf[picked[killed + 1]])
    /\ ready_num' = ready_num - 1
    /\ killed' = killed + 1
    /\ UNCHANGED <<mutex_ready, workerVars, gpc, picked, games, waitVars,
                   firstVars, halt>>

ParseUnlock ==
    /\ gpc = "kill" /\ killed = TableSize
    /\ mutex_ready' = NULL
    /\ gpc' = "make"
    /\ UNCHANGED <<readys, ready_num, workerVars, pickVars, games, waitVars,
                   firstVars, halt>>

\* new Game and display, which gives the User of every seat its cards to send
\* in place of any it has not sent yet; then the three join the waiting list
\* and the game the list of games.
MakeGame ==
    /\ gpc = "make"
    /\ games' = Append(games, picked)
    /\ waiting' = waiting \o picked
    /\ wait_senddata' = [u \in User |-> IF u \in ToSet(picked)
                                       THEN Len(games) + 1
                                       ELSE wait_senddata[u]]
    /\ gpc' = "check"
    /\ UNCHANGED <<listVars, workerVars, pickVars, delivered, firstVars, halt>>

\* A user that has two of the seats is dealt more cards than the 17 bytes that
\* data2user keeps for it on the stack; that may end the process instead.
DealTwice ==
    /\ gpc = "make"
    /\ \E i, j \in 1..TableSize : i # j /\ picked[i] = picked[j]
    /\ halt' = "segv"
    /\ UNCHANGED <<listVars, workerVars, gpc, pickVars, games, waitVars, firstVars>>

-----------------------------------------------------------------------------
(* The game thread: the FIRST message and the cards.                       *)

\* The first seat of a game whose user has the name.
SeatsOf(g, n) == {s \in 1..Len(g) : NameOf[g[s]] = n}

GamesWith(n) == {k \in 1..Len(games) : SeatsOf(games[k], n) # {}}

\* What the walk of get_user over the games may find.  At a game without the
\* name get_user_by_name ends without a return: its caller sees NULL and goes
\* on, or another value and takes it for a User.
GamesLookup(n) ==
    (IF GamesWith(n) = {}
     THEN {NULL}
     ELSE LET g == games[First(GamesWith(n))] IN {g[First(SeatsOf(g, n))]})
    \cup (IF games # << >> /\ 1 \notin GamesWith(n) THEN {Wild} ELSE {})

\* work, FIRST, on a connection that has sent none before (a second one only
\* answers).  set_ev through a pointer that is no User ends the process.
FirstGames(n) ==
    /\ gpc = "serve"
    /\ firsts < MaxFirst
    /\ firsts' = firsts + 1
    /\ \E r \in GamesLookup(n) :
          \/ /\ r \in User
             /\ attached' = attached \cup {r}
             /\ UNCHANGED <<gpc, look, halt>>
          \/ /\ r = Wild
             /\ halt' = "segv"
             /\ UNCHANGED <<gpc, look, attached>>
          \/ /\ r = NULL
             /\ gpc' = "walk"
             /\ look' = [name |-> n, pos |-> 1]
             /\ UNCHANGED <<attached, halt>>
    /\ UNCHANGED <<listVars, workerVars, pickVars, games, waitVars>>

\* get_user's walk of readys, without the mutex: one node per step.
WalkReadys ==
    LET p == look.pos IN
    /\ gpc = "walk"
    /\ \/ /\ p > Len(readys)                            \* not found
          /\ gpc' = "serve" /\ look' = NoLook
          /\ UNCHANGED <<attached, halt>>
       \/ /\ p <= Len(readys) /\ readys[p] = NULL       \* xassert(user)
          /\ halt' = "assert"
          /\ UNCHANGED <<gpc, look, attached>>
       \/ /\ p <= Len(readys) /\ readys[p] # NULL
          /\ NameOf[readys[p]] = look.name
          /\ attached' = attached \cup {readys[p]}
          /\ gpc' = "serve" /\ look' = NoLook
          /\ UNCHANGED halt
       \/ /\ p <= Len(readys) /\ readys[p] # NULL
          /\ NameOf[readys[p]] # look.name
          /\ look' = [look EXCEPT !.pos = p + 1]
          /\ UNCHANGED <<gpc, attached, halt>>
    /\ UNCHANGED <<listVars, workerVars, pickVars, games, waitVars, firsts>>

\* send_waitdata, the end of a round of the loop.  Users that are not attached
\* or have nothing loaded stay.  The first other one is served and its node
\* freed; the walk goes on from that freed node, whose next is NULL, and ends.
send_waitdata ==
    LET ready == {k \in 1..Len(waiting) :
                    waiting[k] \in attached /\ wait_senddata[waiting[k]] # 0}
        k == First(ready)
        u == waiting[k]
    IN
    /\ gpc = "serve"
    /\ gpc' = "check"
    /\ IF ready = {} THEN UNCHANGED waitVars
       ELSE /\ waiting' = RemoveAt(waiting, k)
            /\ wait_senddata' = [wait_senddata EXCEPT ![u] = 0]
            /\ delivered' = [delivered EXCEPT ![u] = @ \cup {wait_senddata[u]}]
    /\ UNCHANGED <<listVars, workerVars, pickVars, games, firstVars, halt>>

-----------------------------------------------------------------------------

ParseReadys ==
    \/ ParseCheck \/ ParseRead \/ ParseLock \/ ParseKill \/ ParseUnlock
    \/ MakeGame \/ DealTwice

WorkerNext ==
    \E w \in Worker :
        \/ \E n \in Name : login(w, n)
        \/ \E inx \in Worker \cup Stray, n \in Name : ready_start(w, inx, n)
        \/ SearchNoList(w)
        \/ ReadyStep(w)

GameNext ==
    ParseReadys \/ (\E n \in Name : FirstGames(n)) \/ WalkReadys \/ send_waitdata

\* A process that has died stays dead.
Dead == halt # "no" /\ UNCHANGED vars

Next == (halt = "no" /\ (WorkerNext \/ GameNext)) \/ Dead

Spec == Init /\ [][Next]_vars

\* The scheduler runs every thread that can run; requests come or do not come.
Fairness ==
    /\ \A w \in Worker : WF_vars(halt = "no" /\ ReadyStep(w))
    /\ WF_vars(halt = "no" /\ (ParseReadys \/ WalkReadys \/ send_waitdata))

FairSpec == Spec /\ Fairness
=============================================================================
