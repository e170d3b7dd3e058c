----------------------------- MODULE EventLoop ------------------------------
(***************************************************************************)
(* The game thread's loop over epoll: the slots of g_events, what epoll    *)
(* watches for each, the descriptors, and the sweep that closes clients    *)
(* that have been silent.  Clients and time run beside it.                 *)
(*                                                                         *)
(* The loop's data is its own thread's, so that one action is one call of  *)
(* a handler; what clients do comes between any two of them.  Matchmaking  *)
(* is in Match: here a user is found or not, and tables are made or not.   *)
(***************************************************************************)
EXTENDS Integers, Sequences, FiniteSets, SequencesExt, Functions

CONSTANTS
    Client,         \* connections that clients make to the game server
    Fd,             \* descriptors that accept may return
    User,           \* User objects
    NULL,           \* a null pointer, no descriptor
    MAX_EVENTS,     \* slots for clients: 1024
    SweepLen,       \* slots swept in a round: 100
    Timeout,        \* seconds of silence: 60
    TableSize,      \* users of a table: 3
    MaxTime,        \* bound: seconds in all
    MaxSend,        \* bound: chunks a client sends
    MaxTables       \* bound: tables made

Slot   == 0..MAX_EVENTS-1
Listen == MAX_EVENTS            \* the slot of the listening socket

\* recvdata is the call_back of a slot with EPOLLIN, senddata of one with
\* EPOLLOUT: eventset and eventadd are only called together.
Event == {"IN", "OUT"}
Watch == [slot : Slot, events : Event]

ASSUME SizeAssumption ==
    /\ MAX_EVENTS \in Nat \ {0} /\ SweepLen \in Nat \ {0} /\ Timeout \in Nat \ {0}
    /\ TableSize \in Nat
ASSUME FiniteAssumption == IsFiniteSet(Client) /\ IsFiniteSet(Fd)
ASSUME NullAssumption ==
    /\ NULL \notin Fd /\ NULL \notin User /\ NULL \notin Client
    /\ NULL \notin 0..MAX_EVENTS /\ NULL \notin Event /\ NULL \notin Watch
ASSUME BoundAssumption == MaxTime \in Nat /\ MaxSend \in Nat /\ MaxTables \in Nat

VARIABLES
    g_events,       \* the slots
    user_ev,        \* _ev of each user
    waiting,        \* wait_senddata_user
    loaded,         \* the users whose _wait_senddata has cards to send
    ev,             \* the slot of the last event; NULL, before the first
    checkpos,       \* where the sweep goes on
    i,              \* how far this round's sweep is
    now,            \* the time the sweep goes by
    events,         \* what epoll_wait has returned and is not handled yet
    pc,             \* where the loop is
    file,           \* kernel: the connection behind each descriptor
    epoll,          \* kernel: what each descriptor is watched for, and its slot
    conn,           \* what has become of each client's connection
    input,          \* what each client has sent and nobody has read
    sends,          \* chunks each client has sent so far
    clock,          \* the time
    tables,         \* tables made so far
    calm            \* history: no descriptor has been closed yet

slotVars   == <<g_events, user_ev, waiting, loaded>>
sweepVars  == <<checkpos, i, now>>
kernelVars == <<file, epoll>>
clientVars == <<conn, input, sends>>
vars == <<slotVars, ev, sweepVars, events, pc, kernelVars, clientVars, clock,
          tables, calm>>

\* What a chunk's first frame asks for.  DEAL gets no answer, and "broken" is one
\* that pkt_parse_data refuses.
Request == {"FIRST", "DISCARD", "DEAL", "broken"}

\* outbufs counts the replies; bufs is empty whenever work returns.
SlotState ==
    [fd : Fd \cup {NULL}, events : Event \cup {NULL},
     status : {"NONE", "INIT", "ADD", "DEL", "OFF"}, last_active : Nat,
     user : User \cup {NULL}, outbufs : Nat]

TypeOK ==
    /\ g_events \in [Slot -> SlotState]
    /\ user_ev \in [User -> Slot \cup {NULL}]
    /\ waiting \in Seq(User) /\ loaded \subseteq User
    /\ ev \in Slot \cup {Listen, NULL}
    /\ checkpos \in 0..MAX_EVENTS /\ i \in 0..SweepLen /\ now \in Nat
    /\ events \in Seq([slot : Slot \cup {Listen}, events : Event])
    /\ pc \in {"parse", "sweep", "handle", "send_waitdata", "crash", "halt"}
    /\ file \in [Fd -> Client \cup {NULL}]
    /\ epoll \in [Fd -> Watch \cup {NULL}]
    /\ conn \in [Client -> {"none", "backlog", "open", "left", "closed"}]
    /\ input \in [Client -> Seq(Request)]
    /\ sends \in [Client -> Nat]
    /\ clock \in Nat /\ tables \in Nat /\ calm \in BOOLEAN

Init ==
    /\ g_events = [s \in Slot |->
                      [fd |-> NULL, events |-> NULL, status |-> "NONE",
                       last_active |-> 0, user |-> NULL, outbufs |-> 0]]
    /\ user_ev = [u \in User |-> NULL]
    /\ waiting = << >> /\ loaded = {}
    /\ ev = NULL /\ checkpos = 0 /\ i = 0 /\ now = 0
    /\ events = << >> /\ pc = "parse"
    /\ file = [f \in Fd |-> NULL] /\ epoll = [f \in Fd |-> NULL]
    /\ conn = [c \in Client |-> "none"]
    /\ input = [c \in Client |-> << >>]
    /\ sends = [c \in Client |-> 0]
    /\ clock = 0 /\ tables = 0 /\ calm = TRUE

-----------------------------------------------------------------------------
(* Calls that several handlers make.                                       *)

\* close: the connection ends with what it has not read, and epoll watches it no
\* more.  A number that is not open is an error that nobody looks at.
close(f) ==
    /\ file' = [file EXCEPT ![f] = NULL]
    /\ epoll' = [epoll EXCEPT ![f] = NULL]
    /\ conn' = [c \in Client |-> IF c = file[f] THEN "closed" ELSE conn[c]]
    /\ input' = [c \in Client |-> IF c = file[f] THEN << >> ELSE input[c]]
    /\ calm' = FALSE

\* EVMOD: eventdel, eventset, eventadd.  The last adds, it never modifies, and
\* fails if the number is not open or is watched already.
Rewatched(s, e) ==
    LET f == g_events[s].fd
        deleted == IF g_events[s].status = "ADD" THEN [epoll EXCEPT ![f] = NULL]
                   ELSE epoll
    IN
    IF file[f] # NULL /\ deleted[f] = NULL
    THEN [deleted EXCEPT ![f] = [slot |-> s, events |-> e]]
    ELSE deleted

\* The slot after it.
Moved(s, e) ==
    [g_events[s] EXCEPT !.status = "ADD", !.events = e, !.last_active = clock]

\* A reply is put into the slot's outbufs and the slot made to wait for room.
Replied(s) == [Moved(s, "OUT") EXCEPT !.outbufs = @ + 1]

-----------------------------------------------------------------------------
(* Clients, and time.                                                      *)

Connect(c) ==
    /\ conn[c] = "none"
    /\ conn' = [conn EXCEPT ![c] = "backlog"]
    /\ UNCHANGED <<slotVars, ev, sweepVars, events, pc, kernelVars, input, sends,
                   clock, tables, calm>>

Send(c, m) ==
    /\ conn[c] = "open" /\ sends[c] < MaxSend
    /\ input' = [input EXCEPT ![c] = Append(@, m)]
    /\ sends' = [sends EXCEPT ![c] = @ + 1]
    /\ UNCHANGED <<slotVars, ev, sweepVars, events, pc, kernelVars, conn, clock,
                   tables, calm>>

Leave(c) ==
    /\ conn[c] = "open"
    /\ conn' = [conn EXCEPT ![c] = "left"]
    /\ UNCHANGED <<slotVars, ev, sweepVars, events, pc, kernelVars, input, sends,
                   clock, tables, calm>>

Tick ==
    /\ clock < MaxTime
    /\ clock' = clock + 1
    /\ UNCHANGED <<slotVars, ev, sweepVars, events, pc, kernelVars, clientVars,
                   tables, calm>>

-----------------------------------------------------------------------------
(* A round of the loop in game_work.                                       *)

\* parse_readys makes tables of users that wait, as long as there are enough.  (A
\* user twice at one table ends the process in Match.)
parse_readys ==
    /\ pc = "parse"
    /\ \/ /\ pc' = "sweep" /\ i' = 0 /\ now' = clock
          /\ UNCHANGED <<waiting, loaded, tables>>
       \/ /\ tables < MaxTables
          /\ UNCHANGED <<pc, i, now>>
          /\ \E t \in [1..TableSize -> User] :
                /\ IsInjective(t)
                /\ waiting' = waiting \o t
                /\ loaded' = loaded \cup Range(t)
          /\ tables' = tables + 1
    /\ UNCHANGED <<g_events, user_ev, ev, checkpos, events, kernelVars, clientVars,
                   clock, calm>>

\* The slot the sweep looks at, and where it goes on.
FaultFromZero == IF i = 0 \/ checkpos = MAX_EVENTS THEN 0 ELSE checkpos
SweptSlot     == IF checkpos = MAX_EVENTS THEN 0 ELSE checkpos

\* It closes what has been silent, and marks the slot of the last event.
FaultAnyStatus(s) == now - g_events[s].last_active >= Timeout
Silent(s) == g_events[s].status = "ADD" /\ now - g_events[s].last_active >= Timeout
Sweep ==
    LET s == SweptSlot IN
    /\ pc = "sweep" /\ i < SweepLen
    /\ i' = i + 1 /\ checkpos' = s + 1
    /\ \/ /\ ~Silent(s)
          /\ UNCHANGED <<g_events, pc, kernelVars, conn, input, calm>>
       \/ /\ Silent(s) /\ ev # NULL
          /\ close(g_events[s].fd)
          /\ g_events' = [t \in Slot |->
                             IF t = ev THEN [g_events[t] EXCEPT !.status = "OFF"]
                             ELSE IF t = s THEN [g_events[t] EXCEPT !.status = "DEL"]
                             ELSE g_events[t]]
          /\ UNCHANGED pc
       \/ /\ Silent(s) /\ ev = NULL
          /\ pc' = "crash"
          /\ UNCHANGED <<g_events, kernelVars, conn, input, calm>>
    /\ UNCHANGED <<user_ev, waiting, loaded, ev, now, events, sends, clock, tables>>

\* epoll_wait: what is ready, in any order; nothing after a second.  Whether there
\* is room for a reply is up to the client: one that does not read gives none.
Readable(c) == c # NULL /\ (conn[c] = "left" \/ input[c] # << >>)
Ready ==
    {[slot |-> epoll[f].slot, events |-> epoll[f].events] :
        f \in {g \in Fd : epoll[g] # NULL
                          /\ (epoll[g].events = "IN" => Readable(file[g]))}}
    \cup {[slot |-> Listen, events |-> "IN"] : c \in {d \in Client : conn[d] = "backlog"}}
epoll_wait ==
    /\ pc = "sweep" /\ i = SweepLen
    /\ \E R \in SUBSET Ready :
          (\A r \in Ready \ R : r.events = "OUT") /\ events' \in SetToSeqs(R)
    /\ pc' = IF events' = << >> THEN "send_waitdata" ELSE "handle"
    /\ UNCHANGED <<slotVars, ev, sweepVars, kernelVars, clientVars, clock, tables,
                   calm>>

\* The next event, for slot s; after the last, send_waitdata.
Taking(s) ==
    /\ pc = "handle"
    /\ s = Head(events).slot /\ ev' = s
    /\ events' = Tail(events)
    /\ pc' = IF events' = << >> THEN "send_waitdata" ELSE pc

\* The handler is called only if the slot still waits for what has happened.
Due(s) == Head(events).events = g_events[s].events

Ignored(s) ==
    /\ s \in Slot /\ Taking(s) /\ ~Due(s)
    /\ UNCHANGED <<slotVars, sweepVars, kernelVars, clientVars, clock, tables, calm>>

\* acceptconn: a free number, and the first slot that was never used.  Without
\* a slot, or if fcntl fails, the connection stays open and is not watched.
FaultAnySlot == Slot
Unused       == {s \in Slot : g_events[s].status = "NONE"}
acceptconn ==
    /\ Taking(Listen)
    /\ \/ \E c \in Client, f \in Fd :
             /\ conn[c] = "backlog" /\ file[f] = NULL
             /\ conn' = [conn EXCEPT ![c] = "open"]
             /\ file' = [file EXCEPT ![f] = c]
             /\ \/ UNCHANGED <<g_events, epoll>>
                \/ \E s \in Unused :
                      /\ \A t \in Unused : s <= t
                      /\ g_events' = [g_events EXCEPT
                                         ![s] = [@ EXCEPT !.fd = f, !.events = "IN",
                                                          !.status = "ADD",
                                                          !.last_active = clock]]
                      /\ epoll' = [epoll EXCEPT ![f] = [slot |-> s, events |-> "IN"]]
       \/ /\ \A c \in Client, f \in Fd : conn[c] # "backlog" \/ file[f] # NULL
          /\ UNCHANGED <<g_events, kernelVars, conn>>
    /\ UNCHANGED <<user_ev, waiting, loaded, sweepVars, input, sends, clock, tables,
                   calm>>

\* work, the answer to a chunk: FIRST names a user, whom get_user finds or not;
\* only the first one found is tied to the slot.  A chunk that is broken leaves no
\* buffer, and is skipped.
FaultRebinds(s, u) ==
    /\ user_ev' = [user_ev EXCEPT ![u] = s]
    /\ g_events' = [g_events EXCEPT ![s] = Replied(s)]
Bind(s, u) ==
    IF g_events[s].user = NULL
    THEN /\ user_ev' = [user_ev EXCEPT ![u] = s]
         /\ g_events' = [g_events EXCEPT ![s] = [Replied(s) EXCEPT !.user = u]]
    ELSE /\ UNCHANGED user_ev
         /\ g_events' = [g_events EXCEPT ![s] = Replied(s)]
FaultNoRoomAsked(s, m) ==
    /\ g_events' = [g_events EXCEPT ![s].outbufs = @ + 1]
    /\ UNCHANGED <<user_ev, epoll>>
work(s, m) ==
    \/ /\ m = "FIRST" /\ epoll' = Rewatched(s, "OUT")
       /\ \E u \in User : Bind(s, u)
    \/ /\ m \in {"FIRST", "DISCARD"} /\ epoll' = Rewatched(s, "OUT")
       /\ g_events' = [g_events EXCEPT ![s] = Replied(s)]
       /\ UNCHANGED user_ev
    \/ /\ m \in {"DEAL", "broken"}
       /\ UNCHANGED <<g_events, user_ev, epoll>>

\* recvdata: a chunk is read and worked on; the end of the input, or an error,
\* closes the descriptor and leaves the slot as it is.
recvdata(s) ==
    LET f == g_events[s].fd
        c == file[f]
    IN
    /\ s \in Slot /\ Taking(s) /\ Due(s) /\ g_events[s].events = "IN"
    /\ IF c # NULL /\ input[c] # << >>
       THEN /\ input' = [input EXCEPT ![c] = Tail(@)]
            /\ work(s, Head(input[c]))
            /\ UNCHANGED <<file, conn, calm>>
       ELSE /\ close(f)
            /\ UNCHANGED <<g_events, user_ev>>
    /\ UNCHANGED <<waiting, loaded, sweepVars, sends, clock, tables>>

\* Or it ends the process: pkt_parse_data asserts the frame's type (Ypkt.cpp:136),
\* and memory for a frame of a negative length.
recvbroken(s) ==
    LET c == file[g_events[s].fd] IN
    /\ s \in Slot /\ pc = "handle" /\ s = Head(events).slot /\ Due(s)
    /\ g_events[s].events = "IN"
    /\ c # NULL /\ input[c] # << >> /\ Head(input[c]) = "broken"
    /\ pc' = "halt"
    /\ UNCHANGED <<slotVars, ev, sweepVars, events, kernelVars, clientVars, clock,
                   tables, calm>>

\* senddata: all replies are sent.  What it does then depends on a sum whose
\* first summand was never set (YGame_Server.cpp:221), so that it may close a
\* connection that is well.
FaultStaysOut(s) == [g_events[s] EXCEPT !.outbufs = 0]
Sent(s) == [Moved(s, "IN") EXCEPT !.outbufs = 0]
Dropped(s) ==
    [g_events[s] EXCEPT !.outbufs = 0, !.status = IF @ = "ADD" THEN "DEL" ELSE @]
senddata(s) ==
    LET f == g_events[s].fd IN
    /\ s \in Slot /\ Taking(s) /\ Due(s) /\ g_events[s].events = "OUT"
    /\ \/ /\ g_events' = [g_events EXCEPT ![s] = Sent(s)]
          /\ epoll' = Rewatched(s, Sent(s).events)
          /\ UNCHANGED <<file, conn, input, calm>>
       \/ /\ close(f)
          /\ g_events' = [g_events EXCEPT ![s] = Dropped(s)]
    /\ UNCHANGED <<user_ev, waiting, loaded, sweepVars, sends, clock, tables>>

\* send_waitdata: the first user on the list that is tied to a slot, and has
\* cards to be sent, gets them as a reply there; the walk ends with it.
send_waitdata ==
    LET here == {k \in 1..Len(waiting) :
                    user_ev[waiting[k]] # NULL /\ waiting[k] \in loaded}
        k == CHOOSE k \in here : \A l \in here : k <= l
        s == user_ev[waiting[k]]
    IN
    /\ pc = "send_waitdata" /\ pc' = "parse"
    /\ IF here = {} THEN UNCHANGED <<slotVars, epoll>>
       ELSE /\ waiting' = RemoveAt(waiting, k)
            /\ loaded' = loaded \ {waiting[k]}
            /\ g_events' = [g_events EXCEPT ![s] = Replied(s)]
            /\ epoll' = Rewatched(s, "OUT")
            /\ UNCHANGED user_ev
    /\ UNCHANGED <<ev, sweepVars, events, file, clientVars, clock, tables, calm>>

Handle(s) == Ignored(s) \/ recvdata(s) \/ recvbroken(s) \/ senddata(s)

Loop ==
    \/ parse_readys \/ Sweep \/ epoll_wait \/ acceptconn \/ send_waitdata
    \/ \E s \in Slot : Handle(s)

World ==
    \/ \E c \in Client : Connect(c) \/ Leave(c) \/ \E m \in Request : Send(c, m)
    \/ Tick

\* A process that has ended.
Ended == pc = "halt" /\ UNCHANGED vars

Next == (pc # "halt" /\ (Loop \/ World)) \/ Ended

Spec == Init /\ [][Next]_vars

\* The thread runs, and clients read what they are sent: a slot that waits for room
\* again and again finds some.  Nobody makes clients send, and time is bounded.
RoomFor(s) == \E k \in DOMAIN events' : events'[k] = [slot |-> s, events |-> "OUT"]
FairSpec ==
    Spec /\ WF_vars(Loop) /\ \A s \in Slot : SF_vars(epoll_wait /\ RoomFor(s))
=============================================================================
