-------------------------- MODULE EventLoopProofs ---------------------------
(***************************************************************************)
(* Proofs about the event loop, for every number of clients, descriptors,  *)
(* users and slots: slots, registrations and descriptors agree.            *)
(***************************************************************************)
EXTENDS EventLoopProperties, SequenceTheorems, FiniteSetTheorems,
        WellFoundedInduction, TLAPS

-----------------------------------------------------------------------------
(* The values that stand for nothing are apart from the others.            *)

LEMMA Basics ==
    /\ NULL \notin Fd /\ NULL \notin User /\ NULL \notin Client
    /\ NULL \notin Slot /\ NULL # Listen /\ Listen \notin Slot
    /\ NULL \notin Watch /\ NULL \notin Event
  BY NullAssumption, SizeAssumption DEF Slot, Listen

\* A non-empty set of positions has a least one.
LEMMA LeastOfNaturals ==
    ASSUME NEW S \in SUBSET Nat, S # {}
    PROVE  LET k == CHOOSE k \in S : \A l \in S : k <= l
           IN  k \in S /\ \A l \in S : k <= l
  <1> DEFINE lt == {ss \in Nat \X Nat : ss[1] < ss[2]}
  <1>1. \A x, y \in Nat : <<x, y>> \in lt <=> x < y
    OBVIOUS
  <1>2. IsWellFoundedOn(lt, Nat)
    BY NatLessThanWellFounded DEF OpToRel
  <1> HIDE DEF lt
  <1>3. PICK k \in S : \A j \in S : ~(<<j, k>> \in lt)
    BY <1>2, WFMin
  <1>4. \A j \in S : k <= j
    <2> TAKE j \in S
    <2>1. j \in Nat /\ k \in Nat /\ ~(j < k)
      BY <1>1, <1>3
    <2> QED
      BY <2>1
  <1> QED
    BY <1>4

\* The invariant holds initially.
LEMMA InitIInv ==
    ASSUME Init
    PROVE  IInv
  <1> USE DEF Init
  <1>1. TypeOK
    <2>1. /\ g_events \in [Slot -> SlotState]
      BY SizeAssumption DEF SlotState
    <2>2. 0 \in 0..MAX_EVENTS /\ 0 \in 0..SweepLen
      BY SizeAssumption
    <2> QED
      BY <2>1, <2>2 DEF TypeOK
  <1>2. SlotInv
    BY DEF SlotInv, Used
  <1>3. EventInv
    BY Basics DEF EventInv, Used
  <1>4. SweepHasEvent /\ RepliesWait /\ CardsToNamedSlot /\ WatchedSlots /\ AllWatched
    BY DEF SweepHasEvent, RepliesWait, CardsToNamedSlot, WatchedSlots, AllWatched
  <1> QED
    BY <1>1, <1>2, <1>3, <1>4 DEF IInv

-----------------------------------------------------------------------------
(* EVMOD and close.                                                        *)

\* EVMOD on a slot in use leaves slots and registrations in agreement, and one
\* that works leaves the slot watched.
LEMMA RewatchFacts ==
    ASSUME TypeOK, SlotInv, WatchedSlots, AllWatched,
           NEW s \in Slot, Used(s), NEW e \in Event, NEW r \in SlotState,
           r.fd = g_events[s].fd, r.status = "ADD", r.events = e,
           g_events' = [g_events EXCEPT ![s] = r],
           epoll' = Rewatched(s, e), file' = file, calm' = calm
    PROVE  /\ epoll' \in [Fd -> Watch \cup {NULL}]
           /\ WatchedSlots'
           /\ AllWatched'
  <1> DEFINE f == g_events[s].fd
             deleted == IF g_events[s].status = "ADD" THEN [epoll EXCEPT ![f] = NULL]
                        ELSE epoll
             w == [slot |-> s, events |-> e]
  <1>1. f \in Fd
    BY DEF SlotInv
  <1>2. w \in Watch /\ w.slot = s
    BY DEF Watch
  <1>3. epoll \in [Fd -> Watch \cup {NULL}]
    BY DEF TypeOK
  <1>4. /\ deleted \in [Fd -> Watch \cup {NULL}]
        /\ \A g \in Fd : g # f => deleted[g] = epoll[g]
        /\ deleted[f] = IF g_events[s].status = "ADD" THEN NULL ELSE epoll[f]
    BY <1>1, <1>3
  <1>5. epoll' = IF file[f] # NULL /\ deleted[f] = NULL
                 THEN [deleted EXCEPT ![f] = w] ELSE deleted
    BY DEF Rewatched
  <1> HIDE DEF deleted, w
  <1>6. /\ epoll' \in [Fd -> Watch \cup {NULL}]
        /\ \A g \in Fd : g # f => epoll'[g] = epoll[g]
        /\ epoll'[f] = IF file[f] # NULL /\ deleted[f] = NULL THEN w ELSE deleted[f]
    BY <1>1, <1>2, <1>4, <1>5
  <1>7. /\ \A t \in Slot : g_events'[t] = IF t = s THEN r ELSE g_events[t]
        /\ \A t \in Slot : g_events'[t].fd = g_events[t].fd
    <2>1. g_events \in [Slot -> SlotState]
      BY DEF TypeOK
    <2> QED
      BY <2>1
  <1>8. WatchedSlots'
    <2>1. ASSUME NEW g \in Fd, epoll'[g] # NULL
          PROVE  /\ file[g] # NULL
                 /\ g_events'[epoll'[g].slot].fd = g
                 /\ g_events'[epoll'[g].slot].status \in {"ADD", "OFF"}
      <3>1. CASE g = f /\ epoll'[g] = w
        <4>1. epoll'[g].slot = s
          BY <1>2, <3>1
        <4>2. file[g] # NULL
          BY <1>6, <3>1, <2>1, <1>4 DEF WatchedSlots
        <4> QED
          BY <4>1, <4>2, <1>7, <3>1
      <3>2. CASE epoll'[g] # w \/ g # f
        <4>1. epoll'[g] = epoll[g]
          BY <3>2, <1>6, <1>4, <2>1
        <4>2. /\ file[g] # NULL
              /\ g_events[epoll[g].slot].fd = g
              /\ g_events[epoll[g].slot].status \in {"ADD", "OFF"}
          BY <4>1, <2>1 DEF WatchedSlots
        <4>3. epoll[g].slot \in Slot
          BY <4>1, <2>1, <1>3 DEF Watch
        <4> QED
          BY <4>1, <4>2, <4>3, <1>7
      <3> QED
        BY <3>1, <3>2
    <2> QED
      BY <2>1 DEF WatchedSlots
  <1>9. AllWatched'
    <2> SUFFICES ASSUME calm, NEW t \in Slot, g_events'[t].status # "NONE"
                 PROVE  /\ g_events'[t].status = "ADD"
                        /\ epoll'[g_events'[t].fd]
                              = [slot |-> t, events |-> g_events'[t].events]
      BY DEF AllWatched
    <2>1. g_events[s].status = "ADD" /\ epoll[f] = [slot |-> s, events |-> g_events[s].events]
      BY DEF AllWatched, Used
    <2>2. file[f] # NULL
      <3>1. epoll[f] \in Watch
        <4>1. g_events[s].events \in Event
          BY DEF SlotInv
        <4> QED
          BY <2>1, <4>1 DEF Watch
      <3>2. epoll[f] # NULL
        BY <3>1, Basics
      <3> QED
        BY <3>2, <1>1 DEF WatchedSlots
    <2>3. epoll'[f] = w
      BY <1>6, <1>4, <2>1, <2>2
    <2>4. CASE t = s
      BY <2>3, <2>4, <1>7 DEF w
    <2>5. CASE t # s
      <3>1. g_events'[t] = g_events[t]
        BY <1>7, <2>5
      <3>2. /\ g_events[t].status = "ADD"
            /\ epoll[g_events[t].fd] = [slot |-> t, events |-> g_events[t].events]
        BY <3>1 DEF AllWatched
      <3>3. g_events[t].fd # f
        BY <3>2, <2>1, <2>5
      <3>4. g_events[t].fd \in Fd
        BY <3>1, Used(t) DEF SlotInv, Used
      <3> QED
        BY <3>1, <3>2, <3>3, <3>4, <1>6
    <2> QED
      BY <2>4, <2>5
  <1> QED
    BY <1>6, <1>8, <1>9

\* close leaves registrations in agreement with the slots: it ends the one of the
\* descriptor, and whoever else has it in its slot is not watched.
LEMMA CloseFacts ==
    ASSUME TypeOK, WatchedSlots, NEW f \in Fd, close(f),
           g_events' \in [Slot -> SlotState],
           \A t \in Slot : g_events'[t].fd = g_events[t].fd,
           \A t \in Slot : g_events[t].fd # f /\ g_events[t].status \in {"ADD", "OFF"}
                              => g_events'[t].status \in {"ADD", "OFF"}
    PROVE  /\ file' \in [Fd -> Client \cup {NULL}]
           /\ epoll' \in [Fd -> Watch \cup {NULL}]
           /\ conn' \in [Client -> {"none", "backlog", "open", "left", "closed"}]
           /\ input' \in [Client -> Seq(Request)]
           /\ calm' \in BOOLEAN
           /\ WatchedSlots'
           /\ AllWatched'
  <1>1. /\ file \in [Fd -> Client \cup {NULL}]
        /\ epoll \in [Fd -> Watch \cup {NULL}]
        /\ conn \in [Client -> {"none", "backlog", "open", "left", "closed"}]
        /\ input \in [Client -> Seq(Request)]
    BY DEF TypeOK
  <1>2. /\ file' = [file EXCEPT ![f] = NULL]
        /\ epoll' = [epoll EXCEPT ![f] = NULL]
        /\ calm' = FALSE
    BY DEF close
  <1>3. conn' \in [Client -> {"none", "backlog", "open", "left", "closed"}]
    BY <1>1 DEF close
  <1>4. input' \in [Client -> Seq(Request)]
    <2>1. << >> \in Seq(Request)
      OBVIOUS
    <2>2. input' = [c \in Client |-> IF c = file[f] THEN << >> ELSE input[c]]
      BY DEF close
    <2>3. \A c \in Client : input[c] \in Seq(Request)
      BY <1>1
    <2> QED
      BY <2>1, <2>2, <2>3, Zenon
  <1>5. WatchedSlots'
    <2> SUFFICES ASSUME NEW g \in Fd, epoll'[g] # NULL
                 PROVE  /\ file'[g] # NULL
                        /\ g_events'[epoll'[g].slot].fd = g
                        /\ g_events'[epoll'[g].slot].status \in {"ADD", "OFF"}
      BY DEF WatchedSlots
    <2>1. g # f /\ epoll'[g] = epoll[g] /\ file'[g] = file[g]
      BY <1>1, <1>2
    <2>2. /\ file[g] # NULL
          /\ g_events[epoll[g].slot].fd = g
          /\ g_events[epoll[g].slot].status \in {"ADD", "OFF"}
      BY <2>1 DEF WatchedSlots
    <2>3. epoll[g].slot \in Slot
      BY <2>1, <1>1 DEF Watch
    <2> QED
      BY <2>1, <2>2, <2>3
  <1>6. AllWatched'
    BY <1>2 DEF AllWatched
  <1> QED
    BY <1>1, <1>2, <1>3, <1>4, <1>5, <1>6

\* A handler that changes one slot in use, and leaves it waiting for room if it
\* has replies, leaves the slots in order.
LEMMA OneSlotFacts ==
    ASSUME TypeOK, SlotInv, RepliesWait,
           NEW s \in Slot, Used(s), NEW r \in SlotState,
           r.fd = g_events[s].fd, r.events \in Event, r.status \notin {"NONE", "INIT"},
           r.outbufs > 0 => r.events = "OUT",
           r.status = "ADD" /\ r.events = "OUT" => r.outbufs > 0,
           g_events' = [g_events EXCEPT ![s] = r],
           \A u \in User : user_ev'[u] \in {user_ev[u], s}
    PROVE  /\ g_events' \in [Slot -> SlotState]
           /\ \A t \in Slot : g_events'[t] = IF t = s THEN r ELSE g_events[t]
           /\ SlotInv' /\ RepliesWait'
           /\ \A t \in Slot : Used(t) => Used(t)'
  <1>1. g_events \in [Slot -> SlotState]
    BY DEF TypeOK
  <1>2. /\ g_events' \in [Slot -> SlotState]
        /\ \A t \in Slot : g_events'[t] = IF t = s THEN r ELSE g_events[t]
    BY <1>1
  <1>3. \A t \in Slot : Used(t) => Used(t)'
    BY <1>2 DEF Used
  <1>4. SlotInv'
    <2>1. ASSUME NEW t \in Slot
          PROVE  /\ g_events'[t].status # "INIT"
                 /\ ~Used(t)' => g_events'[t].outbufs = 0 /\ g_events'[t].user = NULL
                 /\ Used(t)' => g_events'[t].fd \in Fd /\ g_events'[t].events \in Event
      <3>1. CASE t = s
        BY <3>1, <1>2 DEF SlotInv, Used
      <3>2. CASE t # s
        BY <3>2, <1>2 DEF SlotInv, Used
      <3> QED
        BY <3>1, <3>2
    <2>2. ASSUME NEW u \in User, user_ev'[u] # NULL
          PROVE  Used(user_ev[u])'
      <3>1. CASE user_ev'[u] = s
        BY <3>1, <1>2 DEF Used
      <3>2. CASE user_ev'[u] = user_ev[u]
        <4>1. user_ev[u] \in Slot
          BY <3>2, <2>2 DEF TypeOK
        <4>2. Used(user_ev[u])
          BY <3>2, <2>2 DEF SlotInv
        <4> QED
          BY <3>2, <4>1, <4>2, <1>2 DEF Used
      <3> QED
        BY <3>1, <3>2
    <2> QED
      BY <2>1, <2>2 DEF SlotInv, Used
  <1>5. RepliesWait'
    <2> SUFFICES ASSUME NEW t \in Slot
                 PROVE  /\ g_events'[t].outbufs > 0 => g_events'[t].events = "OUT"
                        /\ g_events'[t].status = "ADD" /\ g_events'[t].events = "OUT"
                              => g_events'[t].outbufs > 0
      BY DEF RepliesWait
    <2>1. CASE t = s
      BY <2>1, <1>2
    <2>2. CASE t # s
      BY <2>2, <1>2 DEF RepliesWait
    <2> QED
      BY <2>1, <2>2
  <1> QED
    BY <1>2, <1>3, <1>4, <1>5

\* Taking an event: its slot is in use, and the events that remain are as they
\* were.
LEMMA TakingFacts ==
    ASSUME TypeOK, EventInv, NEW s, Taking(s),
           \A t \in Slot : Used(t) => Used(t)'
    PROVE  /\ s \in Slot \cup {Listen} /\ s \in Slot => Used(s)
           /\ Head(events) \in [slot : Slot \cup {Listen}, events : Event]
           /\ Head(events).slot = s
           /\ ev' \in Slot \cup {Listen, NULL}
           /\ events' \in Seq([slot : Slot \cup {Listen}, events : Event])
           /\ pc' \in {"handle", "send_waitdata"}
           /\ EventInv' /\ SweepHasEvent'
  <1> DEFINE E == [slot : Slot \cup {Listen}, events : Event]
  <1> HIDE DEF E
  <1>1. events \in Seq(E) /\ pc = "handle" /\ events # << >>
    BY DEF TypeOK, EventInv, Taking, E
  <1>2. /\ s = Head(events).slot /\ ev' = s /\ events' = Tail(events)
        /\ pc' = IF events' = << >> THEN "send_waitdata" ELSE pc
    BY DEF Taking
  <1>3. /\ Head(events) = events[1] /\ Head(events) \in E
        /\ 1 \in 1..Len(events) /\ Len(events) \in Nat
        /\ events' \in Seq(E) /\ Len(events') = Len(events) - 1
        /\ \A k \in 1..Len(events') : events'[k] = events[k+1] /\ k+1 \in 1..Len(events)
    BY <1>1, <1>2
  <1>4. s \in Slot \cup {Listen}
    BY <1>2, <1>3 DEF E
  <1>5. s \in Slot => Used(s)
    BY <1>2, <1>3 DEF EventInv
  <1>6. EventInv'
    <2>1. pc' \in {"handle", "halt"} <=> events' # << >>
      BY <1>1, <1>2
    <2>2. ev' \in Slot => Used(ev)'
      BY <1>2, <1>5
    <2>3. ASSUME NEW k \in 1..Len(events'), events'[k].slot \in Slot
          PROVE  Used(events[k].slot)'
      <3>1. events'[k] = events[k+1] /\ k+1 \in 1..Len(events)
        BY <1>3
      <3>2. Used(events[k+1].slot)
        BY <3>1, <2>3 DEF EventInv
      <3> QED
        BY <3>1, <3>2, <2>3
    <2>4. ev' # NULL
      BY <1>2, <1>4, Basics
    <2> QED
      BY <2>1, <2>2, <2>3, <2>4 DEF EventInv, Used
  <1>7. SweepHasEvent'
    BY <1>1, <1>2 DEF SweepHasEvent
  <1>8. pc' \in {"handle", "send_waitdata"}
    BY <1>1, <1>2
  <1> QED
    BY <1>2, <1>3, <1>4, <1>5, <1>6, <1>7, <1>8 DEF E

-----------------------------------------------------------------------------
(* One lemma per action: it keeps the invariant.                           *)

\* What clients do and time change nothing that the invariant speaks of.
LEMMA WorldStep ==
    ASSUME IInv, World
    PROVE  IInv'
  <1>1. UNCHANGED <<g_events, user_ev, waiting, loaded, ev, checkpos, i, now, events,
                    pc, file, epoll, tables, calm>>
    BY DEF World, Connect, Leave, Send, Tick, slotVars, sweepVars, kernelVars, clientVars
  <1>2. TypeOK'
    <2>1. TypeOK
      BY DEF IInv
    <2>2. ASSUME NEW c \in Client, Connect(c) PROVE TypeOK'
      BY <2>1, <2>2, <1>1 DEF TypeOK, Connect
    <2>3. ASSUME NEW c \in Client, Leave(c) PROVE TypeOK'
      BY <2>1, <2>3, <1>1 DEF TypeOK, Leave
    <2>4. ASSUME NEW c \in Client, NEW m \in Request, Send(c, m) PROVE TypeOK'
      <3>1. input' \in [Client -> Seq(Request)]
        <4>1. Append(input[c], m) \in Seq(Request)
          BY <2>1 DEF TypeOK
        <4> QED
          BY <2>1, <2>4, <4>1 DEF TypeOK, Send
      <3>2. sends' \in [Client -> Nat] /\ conn' = conn /\ clock' = clock
        BY <2>1, <2>4 DEF TypeOK, Send
      <3> QED
        BY <2>1, <3>1, <3>2, <1>1 DEF TypeOK
    <2>5. ASSUME Tick PROVE TypeOK'
      BY <2>1, <2>5, <1>1 DEF TypeOK, Tick, clientVars
    <2> QED
      BY <2>2, <2>3, <2>4, <2>5 DEF World
  <1>3. SlotInv' /\ EventInv'
    BY <1>1 DEF IInv, SlotInv, EventInv, Used
  <1>4. SweepHasEvent' /\ RepliesWait' /\ CardsToNamedSlot' /\ WatchedSlots' /\ AllWatched'
    BY <1>1 DEF IInv, SweepHasEvent, RepliesWait, CardsToNamedSlot, WatchedSlots, AllWatched
  <1> QED
    BY <1>2, <1>3, <1>4 DEF IInv

\* A table only lengthens the list of those that wait for their cards.
LEMMA ParseStep ==
    ASSUME IInv, parse_readys
    PROVE  IInv'
  <1>1. UNCHANGED <<g_events, user_ev, ev, checkpos, events, file, epoll, conn, input,
                    sends, clock, calm>>
    BY DEF parse_readys, kernelVars, clientVars
  <1>2. /\ pc = "parse" /\ pc' \in {"parse", "sweep"}
        /\ i' \in {0, i} /\ now' \in {clock, now}
    BY DEF parse_readys
  <1>3. TypeOK'
    <2>1. TypeOK
      BY DEF IInv
    <2>2. waiting' \in Seq(User) /\ loaded' \subseteq User /\ tables' \in Nat
      <3>1. CASE UNCHANGED <<waiting, loaded, tables>>
        BY <2>1, <3>1 DEF TypeOK
      <3>2. ASSUME NEW t \in [1..TableSize -> User], waiting' = waiting \o t,
                   loaded' = loaded \cup Range(t), tables' = tables + 1
            PROVE  waiting' \in Seq(User) /\ loaded' \subseteq User /\ tables' \in Nat
        <4>1. t \in Seq(User)
          BY SizeAssumption
        <4>2. waiting \o t \in Seq(User)
          BY <2>1, <4>1 DEF TypeOK
        <4>3. Range(t) \subseteq User
          BY DEF Range
        <4> QED
          BY <2>1, <3>2, <4>2, <4>3 DEF TypeOK
      <3> QED
        BY <3>1, <3>2 DEF parse_readys
    <2>3. i' \in 0..SweepLen /\ now' \in Nat
      BY <1>2, <2>1, SizeAssumption DEF TypeOK
    <2> QED
      BY <1>1, <1>2, <2>1, <2>2, <2>3 DEF TypeOK
  <1>4. SlotInv'
    BY <1>1 DEF IInv, SlotInv, Used
  <1>5. EventInv' /\ SweepHasEvent'
    BY <1>1, <1>2 DEF IInv, EventInv, Used, SweepHasEvent
  <1>6. RepliesWait' /\ CardsToNamedSlot' /\ WatchedSlots' /\ AllWatched'
    BY <1>1 DEF IInv, RepliesWait, CardsToNamedSlot, WatchedSlots, AllWatched
  <1> QED
    BY <1>3, <1>4, <1>5, <1>6 DEF IInv

\* The sweep closes the descriptor of a slot in use.  There was an event, since a
\* slot is in use, so that ev is set.
LEMMA SweepStep ==
    ASSUME IInv, Sweep
    PROVE  IInv'
  <1> DEFINE s == SweptSlot
  <1>1. TypeOK /\ SlotInv /\ EventInv
    BY DEF IInv
  <1>2. /\ pc = "sweep" /\ i < SweepLen /\ i' = i + 1 /\ checkpos' = s + 1
        /\ UNCHANGED <<user_ev, waiting, loaded, ev, now, events, sends, clock, tables>>
    BY DEF Sweep
  <1>3. s \in Slot /\ checkpos' \in 0..MAX_EVENTS /\ i' \in 0..SweepLen
    <2>1. checkpos \in 0..MAX_EVENTS /\ i \in 0..SweepLen
      BY <1>1 DEF TypeOK
    <2>2. s \in Slot
      BY <2>1, SizeAssumption DEF SweptSlot, Slot
    <2> QED
      BY <2>1, <2>2, <1>2, SizeAssumption DEF Slot
  <1> HIDE DEF s
  <1>4. CASE UNCHANGED <<g_events, pc, kernelVars, conn, input, calm>>
    <2>1. UNCHANGED <<g_events, pc, file, epoll, conn, input, calm>>
      BY <1>4 DEF kernelVars
    <2>2. TypeOK'
      BY <1>1, <1>2, <1>3, <2>1 DEF TypeOK
    <2>3. SlotInv' /\ EventInv'
      BY <1>2, <2>1 DEF IInv, SlotInv, EventInv, Used
    <2>4. SweepHasEvent' /\ RepliesWait' /\ CardsToNamedSlot' /\ WatchedSlots' /\ AllWatched'
      BY <1>2, <2>1 DEF IInv, SweepHasEvent, RepliesWait, CardsToNamedSlot, WatchedSlots,
                        AllWatched
    <2> QED
      BY <2>2, <2>3, <2>4 DEF IInv
  <1>5. ASSUME Silent(s) PROVE ev # NULL /\ Used(s) /\ g_events[s].fd \in Fd
    <2>1. Used(s)
      BY <1>5 DEF Silent, Used
    <2> QED
      BY <2>1, <1>1, <1>3 DEF EventInv, SlotInv
  <1>6. ASSUME Silent(s), close(g_events[s].fd), UNCHANGED pc,
               g_events' = [t \in Slot |->
                               IF t = ev THEN [g_events[t] EXCEPT !.status = "OFF"]
                               ELSE IF t = s THEN [g_events[t] EXCEPT !.status = "DEL"]
                               ELSE g_events[t]]
        PROVE  IInv'
    <2>1. g_events \in [Slot -> SlotState]
      BY <1>1 DEF TypeOK
    <2>2. ASSUME NEW t \in Slot
          PROVE  /\ g_events'[t] \in SlotState
                 /\ g_events'[t].fd = g_events[t].fd
                 /\ g_events'[t].events = g_events[t].events
                 /\ g_events'[t].user = g_events[t].user
                 /\ g_events'[t].outbufs = g_events[t].outbufs
                 /\ g_events'[t].status = IF t = ev THEN "OFF" ELSE IF t = s THEN "DEL"
                                          ELSE g_events[t].status
      <3>1. g_events[t] \in SlotState
        BY <2>1
      <3> QED
        BY <3>1, <1>6 DEF SlotState
    <2>3. g_events' \in [Slot -> SlotState]
      BY <2>2, <1>6
    <2>4. \A t \in Slot : Used(t)' <=> Used(t)
      <3> SUFFICES ASSUME NEW t \in Slot PROVE Used(t)' <=> Used(t)
        OBVIOUS
      <3>1. CASE t = ev
        BY <3>1, <2>2, <1>1 DEF EventInv, Used
      <3>2. CASE t = s /\ t # ev
        <4>1. Used(s)
          BY <1>5, <1>6
        <4>2. g_events'[t].status = "DEL"
          BY <3>2, <2>2
        <4> QED
          BY <3>2, <4>1, <4>2 DEF Used
      <3>3. CASE t # s /\ t # ev
        BY <3>3, <2>2 DEF Used
      <3> QED
        BY <3>1, <3>2, <3>3
    <2>5. /\ file' \in [Fd -> Client \cup {NULL}]
          /\ epoll' \in [Fd -> Watch \cup {NULL}]
          /\ conn' \in [Client -> {"none", "backlog", "open", "left", "closed"}]
          /\ input' \in [Client -> Seq(Request)]
          /\ calm' \in BOOLEAN
          /\ WatchedSlots'
          /\ AllWatched'
      <3>1. g_events[s].fd \in Fd /\ close(g_events[s].fd)
        BY <1>5, <1>6
      <3>2. \A t \in Slot : g_events'[t].fd = g_events[t].fd
        BY <2>2
      <3>3. \A t \in Slot : g_events[t].fd # g_events[s].fd
                               /\ g_events[t].status \in {"ADD", "OFF"}
                            => g_events'[t].status \in {"ADD", "OFF"}
        BY <2>2
      <3>4. WatchedSlots
        BY DEF IInv
      <3> QED
        BY <1>1, <2>3, <3>1, <3>2, <3>3, <3>4, CloseFacts
    <2>6. TypeOK'
      BY <1>1, <1>2, <1>3, <1>6, <2>3, <2>5 DEF TypeOK
    <2>7. SlotInv'
      <3>1. ASSUME NEW t \in Slot
            PROVE  /\ g_events'[t].status # "INIT"
                   /\ ~Used(t)' => g_events'[t].outbufs = 0 /\ g_events'[t].user = NULL
                   /\ Used(t)' => g_events'[t].fd \in Fd /\ g_events'[t].events \in Event
        BY <2>2, <2>4, <1>1 DEF SlotInv
      <3>2. ASSUME NEW u \in User, user_ev'[u] # NULL
            PROVE  Used(user_ev[u])'
        <4>1. user_ev'[u] = user_ev[u] /\ user_ev[u] \in Slot
          BY <1>1, <1>2, <3>2 DEF TypeOK
        <4>2. Used(user_ev[u])
          BY <4>1, <3>2, <1>1 DEF SlotInv
        <4> QED
          BY <4>1, <4>2, <2>4 DEF Used
      <3> QED
        BY <3>1, <3>2 DEF SlotInv
    <2>8. EventInv' /\ SweepHasEvent'
      <3>1. ev' \in Slot => Used(ev)'
        BY <1>1, <1>2, <2>4 DEF EventInv, Used
      <3>2. \A k \in 1..Len(events') : events'[k].slot \in Slot => Used(events[k].slot)'
        BY <1>1, <1>2, <2>4 DEF EventInv, Used
      <3>3. pc' = pc /\ ev' # NULL
        BY <1>2, <1>5, <1>6
      <3> QED
        BY <1>1, <1>2, <3>1, <3>2, <3>3 DEF EventInv, SweepHasEvent
    <2>9. RepliesWait'
      BY <2>2 DEF IInv, RepliesWait
    <2>10. CardsToNamedSlot'
      <3> SUFFICES ASSUME NEW u \in User, user_ev[u] # NULL
                   PROVE  g_events'[user_ev[u]].user = u
        BY <1>2 DEF CardsToNamedSlot
      <3>1. user_ev[u] \in Slot /\ g_events[user_ev[u]].user = u
        BY <1>1 DEF IInv, TypeOK, CardsToNamedSlot
      <3> QED
        BY <3>1, <2>2
    <2> QED
      BY <2>5, <2>6, <2>7, <2>8, <2>9, <2>10 DEF IInv
  <1> QED
    BY <1>4, <1>5, <1>6 DEF Sweep, s

\* What epoll reports is finite, and of slots in use.
LEMMA ReadyFacts ==
    ASSUME TypeOK, WatchedSlots
    PROVE  /\ IsFiniteSet(Ready)
           /\ Ready \subseteq [slot : Slot \cup {Listen}, events : Event]
           /\ \A r \in Ready : r.slot \in Slot => Used(r.slot)
  <1> DEFINE F == {f \in Fd : epoll[f] # NULL
                                 /\ (epoll[f].events = "IN" => Readable(file[f]))}
             rec(f) == [slot |-> epoll[f].slot, events |-> epoll[f].events]
             A == {rec(f) : f \in F}
             listen == [slot |-> Listen, events |-> "IN"]
             B == {listen : c \in {d \in Client : conn[d] = "backlog"}}
  <1>1. Ready = A \cup B
    BY DEF Ready
  <1>2. F \subseteq Fd /\ IsFiniteSet(F)
    BY FiniteAssumption, FS_Subset
  <1>3. IsFiniteSet(A)
    <2> DEFINE g == [f \in F |-> rec(f)]
    <2>1. g \in Surjection(F, A)
      <3>1. g \in [F -> A]
        OBVIOUS
      <3>2. \A a \in A : \E f \in F : g[f] = a
        OBVIOUS
      <3> QED
        BY <3>1, <3>2 DEF Surjection
    <2> QED
      BY <1>2, <2>1, FS_Surjection
  <1>4. IsFiniteSet(B)
    <2>1. B \subseteq {listen}
      OBVIOUS
    <2>2. IsFiniteSet({listen})
      BY FS_Singleton
    <2> QED
      BY <2>1, <2>2, FS_Subset
  <1>5. ASSUME NEW f \in F
        PROVE  /\ rec(f) \in [slot : Slot \cup {Listen}, events : Event]
               /\ Used(epoll[f].slot)
    <2>1. epoll[f] \in Watch
      BY DEF TypeOK
    <2>2. g_events[epoll[f].slot].status \in {"ADD", "OFF"}
      BY DEF WatchedSlots
    <2> QED
      BY <2>1, <2>2 DEF Watch, Used
  <1>6. listen \in [slot : Slot \cup {Listen}, events : Event]
    BY DEF Event
  <1>7. Ready \subseteq [slot : Slot \cup {Listen}, events : Event]
    BY <1>1, <1>5, <1>6
  <1>8. \A r \in Ready : r.slot \in Slot => Used(r.slot)
    BY <1>1, <1>5, Basics
  <1>9. IsFiniteSet(Ready)
    BY <1>1, <1>3, <1>4, FS_Union
  <1> QED
    BY <1>7, <1>8, <1>9

\* What epoll_wait returns is what is ready.
LEMMA WaitStep ==
    ASSUME IInv, epoll_wait
    PROVE  IInv'
  <1>1. UNCHANGED <<g_events, user_ev, waiting, loaded, ev, checkpos, i, now, file, epoll,
                    conn, input, sends, clock, tables, calm>>
    BY DEF epoll_wait, slotVars, sweepVars, kernelVars, clientVars
  <1>2. /\ IsFiniteSet(Ready)
        /\ Ready \subseteq [slot : Slot \cup {Listen}, events : Event]
        /\ \A r \in Ready : r.slot \in Slot => Used(r.slot)
    BY ReadyFacts DEF IInv
  <1>3. PICK R \in SUBSET Ready : events' \in SetToSeqs(R)
    BY DEF epoll_wait
  <1> DEFINE n == Cardinality(R)
  <1>4. n \in Nat
    BY <1>2, FS_Subset, FS_CardinalityType
  <1>5. events' \in [1..n -> R]
    BY <1>3 DEF SetToSeqs
  <1>6. /\ events' \in Seq(R) /\ Len(events') = n
        /\ \A k \in 1..Len(events') : events'[k] \in Ready
    <2> HIDE DEF n
    <2>1. n \in Nat
      BY <1>4 DEF n
    <2> QED
      BY <1>5, <2>1
  <1>7. pc' = IF events' = << >> THEN "send_waitdata" ELSE "handle"
    BY DEF epoll_wait
  <1>8. TypeOK'
    <2> DEFINE E == [slot : Slot \cup {Listen}, events : Event]
    <2>1. events' \in Seq(E)
      <3>1. R \subseteq E
        BY <1>2
      <3> HIDE DEF E, n
      <3>2. n \in Nat /\ events' \in [1..n -> E]
        BY <1>5, <1>4, <3>1 DEF n
      <3> QED
        BY <3>2
    <2>2. pc' \in {"handle", "send_waitdata"}
      BY <1>7
    <2> QED
      BY <1>1, <2>1, <2>2 DEF IInv, TypeOK
  <1>9. SlotInv'
    BY <1>1 DEF IInv, SlotInv, Used
  <1>10. EventInv'
    <2>1. pc' \in {"handle", "halt"} <=> events' # << >>
      BY <1>7
    <2>2. ASSUME NEW k \in 1..Len(events'), events'[k].slot \in Slot
          PROVE  Used(events[k].slot)'
      <3>1. Used(events'[k].slot)
        BY <1>2, <1>6, <2>2
      <3> QED
        BY <3>1, <1>1 DEF Used
    <2>3. (ev \in Slot => Used(ev))' /\ ((\E s \in Slot : Used(s)) => ev # NULL)'
      BY <1>1 DEF IInv, EventInv, Used
    <2> QED
      BY <2>1, <2>2, <2>3 DEF EventInv
  <1>11. SweepHasEvent' /\ RepliesWait' /\ CardsToNamedSlot' /\ WatchedSlots' /\ AllWatched'
    BY <1>1, <1>7 DEF IInv, SweepHasEvent, RepliesWait, CardsToNamedSlot, WatchedSlots,
                      AllWatched
  <1> QED
    BY <1>8, <1>9, <1>10, <1>11 DEF IInv

\* An event that its slot does not wait for any more is skipped.
LEMMA IgnoredStep ==
    ASSUME IInv, NEW s \in Slot, Ignored(s)
    PROVE  IInv'
  <1>1. /\ Taking(s)
        /\ UNCHANGED <<g_events, user_ev, waiting, loaded, checkpos, i, now, file, epoll,
                       conn, input, sends, clock, tables, calm>>
    BY DEF Ignored, slotVars, sweepVars, kernelVars, clientVars
  <1>2. \A t \in Slot : Used(t) => Used(t)'
    BY <1>1 DEF Used
  <1>3. /\ ev' \in Slot \cup {Listen, NULL}
        /\ events' \in Seq([slot : Slot \cup {Listen}, events : Event])
        /\ pc' \in {"handle", "send_waitdata"}
        /\ EventInv' /\ SweepHasEvent'
    BY <1>1, <1>2, TakingFacts DEF IInv
  <1>4. TypeOK'
    BY <1>1, <1>3 DEF IInv, TypeOK
  <1>5. SlotInv' /\ RepliesWait' /\ CardsToNamedSlot' /\ WatchedSlots' /\ AllWatched'
    BY <1>1 DEF IInv, SlotInv, Used, RepliesWait, CardsToNamedSlot, WatchedSlots, AllWatched
  <1> QED
    BY <1>3, <1>4, <1>5 DEF IInv

\* A chunk that ends the process leaves all as it is.
LEMMA BrokenStep ==
    ASSUME IInv, NEW s \in Slot, recvbroken(s)
    PROVE  IInv'
  <1>1. /\ pc = "handle" /\ pc' = "halt"
        /\ UNCHANGED <<g_events, user_ev, waiting, loaded, ev, checkpos, i, now, events,
                       file, epoll, conn, input, sends, clock, tables, calm>>
    BY DEF recvbroken, slotVars, sweepVars, kernelVars, clientVars
  <1>2. TypeOK'
    BY <1>1 DEF IInv, TypeOK
  <1>3. SlotInv' /\ EventInv' /\ SweepHasEvent'
    BY <1>1 DEF IInv, SlotInv, EventInv, Used, SweepHasEvent
  <1>4. RepliesWait' /\ CardsToNamedSlot' /\ WatchedSlots' /\ AllWatched'
    BY <1>1 DEF IInv, RepliesWait, CardsToNamedSlot, WatchedSlots, AllWatched
  <1> QED
    BY <1>2, <1>3, <1>4 DEF IInv

\* A new connection gets a number that was free and a slot that was never used.
LEMMA AcceptStep ==
    ASSUME IInv, acceptconn
    PROVE  IInv'
  <1>1. /\ Taking(Listen)
        /\ UNCHANGED <<user_ev, waiting, loaded, checkpos, i, now, input, sends, clock,
                       tables, calm>>
    BY DEF acceptconn, sweepVars
  <1>2. /\ g_events \in [Slot -> SlotState] /\ epoll \in [Fd -> Watch \cup {NULL}]
        /\ file \in [Fd -> Client \cup {NULL}] /\ clock \in Nat
        /\ conn \in [Client -> {"none", "backlog", "open", "left", "closed"}]
        /\ user_ev \in [User -> Slot \cup {NULL}]
    BY DEF IInv, TypeOK
  <1>3. ASSUME UNCHANGED g_events, UNCHANGED epoll,
               \A f \in Fd : file[f] # NULL => file'[f] # NULL,
               file' \in [Fd -> Client \cup {NULL}],
               conn' \in [Client -> {"none", "backlog", "open", "left", "closed"}]
        PROVE  IInv'
    <2>1. \A t \in Slot : Used(t) => Used(t)'
      BY <1>3 DEF Used
    <2>2. /\ ev' \in Slot \cup {Listen, NULL}
          /\ events' \in Seq([slot : Slot \cup {Listen}, events : Event])
          /\ pc' \in {"handle", "send_waitdata"}
          /\ EventInv' /\ SweepHasEvent'
      BY <1>1, <2>1, TakingFacts DEF IInv
    <2>3. TypeOK'
      BY <1>1, <1>3, <2>2 DEF IInv, TypeOK
    <2>4. SlotInv' /\ RepliesWait' /\ CardsToNamedSlot' /\ AllWatched'
      BY <1>1, <1>3 DEF IInv, SlotInv, Used, RepliesWait, CardsToNamedSlot, AllWatched
    <2>5. WatchedSlots'
      BY <1>3 DEF IInv, WatchedSlots
    <2> QED
      BY <2>2, <2>3, <2>4, <2>5 DEF IInv
  <1>4. ASSUME NEW c \in Client, NEW f \in Fd, file[f] = NULL,
               conn' = [conn EXCEPT ![c] = "open"], file' = [file EXCEPT ![f] = c]
        PROVE  /\ file' \in [Fd -> Client \cup {NULL}]
               /\ conn' \in [Client -> {"none", "backlog", "open", "left", "closed"}]
               /\ \A g \in Fd : g # f => file'[g] = file[g]
               /\ file'[f] # NULL
    BY <1>2, <1>4, Basics
  <1>5. ASSUME NEW c \in Client, NEW f \in Fd, file[f] = NULL,
               conn' = [conn EXCEPT ![c] = "open"], file' = [file EXCEPT ![f] = c],
               NEW s \in Unused,
               g_events' = [g_events EXCEPT
                               ![s] = [@ EXCEPT !.fd = f, !.events = "IN",
                                                !.status = "ADD", !.last_active = clock]],
               epoll' = [epoll EXCEPT ![f] = [slot |-> s, events |-> "IN"]]
        PROVE  IInv'
    <2> DEFINE r == [g_events[s] EXCEPT !.fd = f, !.events = "IN", !.status = "ADD",
                                        !.last_active = clock]
               w == [slot |-> s, events |-> "IN"]
    <2>1. s \in Slot /\ g_events[s].status = "NONE"
      BY DEF Unused
    <2>2. g_events[s] \in SlotState
      BY <1>2, <2>1
    <2>3. g_events[s].outbufs = 0 /\ g_events[s].user = NULL
      BY <2>1 DEF IInv, SlotInv, Used
    <2>4. /\ r \in SlotState
          /\ r.fd = f /\ r.events = "IN" /\ r.status = "ADD"
          /\ r.user = NULL /\ r.outbufs = 0
      BY <2>2, <2>3, <1>2 DEF SlotState, Event
    <2>5. w \in Watch /\ w.slot = s /\ w.events = "IN"
      BY <2>1 DEF Watch, Event
    <2>6. g_events' = [g_events EXCEPT ![s] = r] /\ epoll' = [epoll EXCEPT ![f] = w]
      BY <1>5
    <2>7. /\ file' \in [Fd -> Client \cup {NULL}]
          /\ conn' \in [Client -> {"none", "backlog", "open", "left", "closed"}]
          /\ \A g \in Fd : g # f => file'[g] = file[g]
          /\ file'[f] # NULL
      BY <1>4, <1>5
    <2> HIDE DEF r, w
    <2>8. /\ g_events' \in [Slot -> SlotState]
          /\ \A t \in Slot : g_events'[t] = IF t = s THEN r ELSE g_events[t]
          /\ epoll' \in [Fd -> Watch \cup {NULL}]
          /\ \A g \in Fd : epoll'[g] = IF g = f THEN w ELSE epoll[g]
      BY <1>2, <2>1, <2>4, <2>5, <2>6
    <2>9. \A t \in Slot : Used(t) => Used(t)'
      BY <2>4, <2>8 DEF Used
    <2>10. /\ ev' \in Slot \cup {Listen, NULL}
           /\ events' \in Seq([slot : Slot \cup {Listen}, events : Event])
           /\ pc' \in {"handle", "send_waitdata"}
           /\ EventInv' /\ SweepHasEvent'
      BY <1>1, <2>9, TakingFacts DEF IInv
    <2>11. TypeOK'
      BY <1>1, <2>7, <2>8, <2>10 DEF IInv, TypeOK
    <2>12. SlotInv'
      <3>1. ASSUME NEW t \in Slot
            PROVE  /\ g_events'[t].status # "INIT"
                   /\ ~Used(t)' => g_events'[t].outbufs = 0 /\ g_events'[t].user = NULL
                   /\ Used(t)' => g_events'[t].fd \in Fd /\ g_events'[t].events \in Event
        BY <2>4, <2>8 DEF IInv, SlotInv, Used, Event
      <3>2. ASSUME NEW u \in User, user_ev'[u] # NULL
            PROVE  Used(user_ev[u])'
        <4>1. user_ev'[u] = user_ev[u] /\ user_ev[u] \in Slot
          BY <1>1, <1>2, <3>2
        <4>2. Used(user_ev[u])
          BY <4>1, <3>2 DEF IInv, SlotInv
        <4> QED
          BY <4>1, <4>2, <2>9 DEF Used
      <3> QED
        BY <3>1, <3>2 DEF SlotInv
    <2>13. RepliesWait'
      BY <2>4, <2>8 DEF IInv, RepliesWait
    <2>14. CardsToNamedSlot'
      <3> SUFFICES ASSUME NEW u \in User, user_ev[u] # NULL
                   PROVE  g_events'[user_ev[u]].user = u
        BY <1>1 DEF CardsToNamedSlot
      <3>1. user_ev[u] \in Slot /\ g_events[user_ev[u]].user = u /\ u # NULL
        BY <1>2, Basics DEF IInv, CardsToNamedSlot
      <3>2. user_ev[u] # s
        BY <3>1, <2>3
      <3> QED
        BY <3>1, <3>2, <2>8
    <2>15. WatchedSlots'
      <3> SUFFICES ASSUME NEW g \in Fd, epoll'[g] # NULL
                   PROVE  /\ file'[g] # NULL
                          /\ g_events'[epoll'[g].slot].fd = g
                          /\ g_events'[epoll'[g].slot].status \in {"ADD", "OFF"}
        BY DEF WatchedSlots
      <3>1. CASE g = f
        BY <3>1, <2>1, <2>4, <2>5, <2>7, <2>8
      <3>2. CASE g # f
        <4>1. epoll'[g] = epoll[g] /\ file'[g] = file[g]
          BY <3>2, <2>7, <2>8
        <4>2. /\ file[g] # NULL
              /\ g_events[epoll[g].slot].fd = g
              /\ g_events[epoll[g].slot].status \in {"ADD", "OFF"}
          BY <4>1 DEF IInv, WatchedSlots
        <4>3. epoll[g].slot \in Slot /\ epoll[g].slot # s
          BY <4>1, <4>2, <1>2, <2>1 DEF Watch
        <4> QED
          BY <4>1, <4>2, <4>3, <2>8
      <3> QED
        BY <3>1, <3>2
    <2>16. AllWatched'
      <3> SUFFICES ASSUME calm, NEW t \in Slot, g_events'[t].status # "NONE"
                   PROVE  /\ g_events'[t].status = "ADD"
                          /\ epoll'[g_events'[t].fd]
                                = [slot |-> t, events |-> g_events'[t].events]
        BY <1>1 DEF AllWatched
      <3>1. CASE t = s
        BY <3>1, <2>4, <2>8 DEF w
      <3>2. CASE t # s
        <4>1. g_events'[t] = g_events[t]
          BY <3>2, <2>8
        <4>2. /\ g_events[t].status = "ADD"
              /\ epoll[g_events[t].fd] = [slot |-> t, events |-> g_events[t].events]
          BY <4>1 DEF IInv, AllWatched
        <4>3. g_events[t].fd \in Fd /\ g_events[t].events \in Event
          BY <4>2 DEF IInv, SlotInv, Used
        <4>4. epoll[g_events[t].fd] # NULL
          BY <4>2, <4>3, Basics DEF Watch
        <4>5. g_events[t].fd # f
          BY <1>5, <4>3, <4>4 DEF IInv, WatchedSlots
        <4> QED
          BY <4>1, <4>2, <4>3, <4>5, <2>8
      <3> QED
        BY <3>1, <3>2
    <2> QED
      BY <2>10, <2>11, <2>12, <2>13, <2>14, <2>15, <2>16 DEF IInv
  <1>6. CASE UNCHANGED <<g_events, kernelVars, conn>>
    BY <1>2, <1>3, <1>6 DEF kernelVars
  <1>7. ASSUME NEW c \in Client, NEW f \in Fd, file[f] = NULL,
               conn' = [conn EXCEPT ![c] = "open"], file' = [file EXCEPT ![f] = c],
               UNCHANGED <<g_events, epoll>>
        PROVE  IInv'
    <2>1. /\ file' \in [Fd -> Client \cup {NULL}]
          /\ conn' \in [Client -> {"none", "backlog", "open", "left", "closed"}]
          /\ \A g \in Fd : g # f => file'[g] = file[g]
          /\ file'[f] # NULL
      BY <1>4, <1>7
    <2> QED
      BY <2>1, <1>3, <1>7
  <1> QED
    BY <1>5, <1>6, <1>7 DEF acceptconn

\* EVMOD on a slot in use, by which it waits for room exactly if it has replies,
\* keeps what the invariant says of slots and registrations.
LEMMA EvmodFacts ==
    ASSUME IInv, NEW s \in Slot, Used(s), NEW r \in SlotState,
           r.fd = g_events[s].fd, r.status = "ADD", r.events \in Event,
           r.outbufs > 0 <=> r.events = "OUT",
           g_events' = [g_events EXCEPT ![s] = r],
           epoll' = Rewatched(s, r.events), file' = file, calm' = calm,
           \A u \in User : user_ev'[u] \in {user_ev[u], s}
    PROVE  /\ g_events' \in [Slot -> SlotState]
           /\ \A t \in Slot : g_events'[t] = IF t = s THEN r ELSE g_events[t]
           /\ epoll' \in [Fd -> Watch \cup {NULL}]
           /\ SlotInv' /\ RepliesWait' /\ WatchedSlots' /\ AllWatched'
           /\ \A t \in Slot : Used(t) => Used(t)'
  <1>1. TypeOK /\ SlotInv /\ RepliesWait /\ WatchedSlots /\ AllWatched
    BY DEF IInv
  <1>2. /\ r.status \notin {"NONE", "INIT"}
        /\ r.outbufs > 0 => r.events = "OUT"
        /\ r.status = "ADD" /\ r.events = "OUT" => r.outbufs > 0
    OBVIOUS
  <1>3. /\ g_events' \in [Slot -> SlotState]
        /\ \A t \in Slot : g_events'[t] = IF t = s THEN r ELSE g_events[t]
        /\ SlotInv' /\ RepliesWait'
        /\ \A t \in Slot : Used(t) => Used(t)'
    BY <1>1, <1>2, OneSlotFacts
  <1>4. epoll' \in [Fd -> Watch \cup {NULL}] /\ WatchedSlots' /\ AllWatched'
    BY <1>1, RewatchFacts
  <1> QED
    BY <1>3, <1>4

\* A slot with one more reply.
LEMMA RepliedFacts ==
    ASSUME TypeOK, NEW s \in Slot
    PROVE  /\ Replied(s) \in SlotState
           /\ Replied(s).fd = g_events[s].fd
           /\ Replied(s).status = "ADD" /\ Replied(s).events = "OUT"
           /\ Replied(s).outbufs > 0
           /\ Replied(s).user = g_events[s].user
           /\ \A u \in User :
                 LET r == [Replied(s) EXCEPT !.user = u] IN
                 /\ r \in SlotState
                 /\ r.fd = g_events[s].fd
                 /\ r.status = "ADD" /\ r.events = "OUT"
                 /\ r.outbufs > 0
                 /\ r.user = u
  <1>1. g_events[s] \in SlotState /\ clock \in Nat
    BY DEF TypeOK
  <1>2. /\ Moved(s, "OUT") \in SlotState
        /\ Moved(s, "OUT").fd = g_events[s].fd
        /\ Moved(s, "OUT").status = "ADD" /\ Moved(s, "OUT").events = "OUT"
        /\ Moved(s, "OUT").user = g_events[s].user
        /\ Moved(s, "OUT").outbufs \in Nat
    BY <1>1 DEF Moved, SlotState, Event
  <1>3. Replied(s) = [Moved(s, "OUT") EXCEPT !.outbufs = @ + 1]
    BY DEF Replied
  <1>4. /\ Replied(s) \in SlotState
        /\ Replied(s).fd = g_events[s].fd
        /\ Replied(s).status = "ADD" /\ Replied(s).events = "OUT"
        /\ Replied(s).outbufs > 0
        /\ Replied(s).user = g_events[s].user
    <2> HIDE DEF Moved
    <2> QED
      BY <1>2, <1>3 DEF SlotState
  <1>5. ASSUME NEW u \in User
        PROVE  LET r == [Replied(s) EXCEPT !.user = u] IN
               /\ r \in SlotState
               /\ r.fd = g_events[s].fd
               /\ r.status = "ADD" /\ r.events = "OUT"
               /\ r.outbufs > 0
               /\ r.user = u
    BY <1>4 DEF SlotState
  <1> QED
    BY <1>4, <1>5

\* The answer to a chunk changes its slot only, and ties a user to it only if
\* none was.
LEMMA WorkFacts ==
    ASSUME IInv, NEW s \in Slot, Used(s), NEW m, work(s, m),
           file' = file, calm' = calm
    PROVE  /\ g_events' \in [Slot -> SlotState]
           /\ user_ev' \in [User -> Slot \cup {NULL}]
           /\ epoll' \in [Fd -> Watch \cup {NULL}]
           /\ SlotInv' /\ RepliesWait' /\ CardsToNamedSlot'
           /\ WatchedSlots' /\ AllWatched'
           /\ \A t \in Slot : Used(t) => Used(t)'
  <1>1. TypeOK /\ g_events \in [Slot -> SlotState] /\ user_ev \in [User -> Slot \cup {NULL}]
    BY DEF IInv, TypeOK
  <1>2. CASE UNCHANGED <<g_events, user_ev, epoll>>
    BY <1>1, <1>2 DEF IInv, TypeOK, SlotInv, Used, RepliesWait, CardsToNamedSlot,
                      WatchedSlots, AllWatched
  <1>3. ASSUME epoll' = Rewatched(s, "OUT"), UNCHANGED user_ev,
               g_events' = [g_events EXCEPT ![s] = Replied(s)]
        PROVE  /\ g_events' \in [Slot -> SlotState]
               /\ user_ev' \in [User -> Slot \cup {NULL}]
               /\ epoll' \in [Fd -> Watch \cup {NULL}]
               /\ SlotInv' /\ RepliesWait' /\ CardsToNamedSlot'
               /\ WatchedSlots' /\ AllWatched'
               /\ \A t \in Slot : Used(t) => Used(t)'
    <2> DEFINE r == Replied(s)
    <2>1. /\ r \in SlotState /\ r.fd = g_events[s].fd /\ r.status = "ADD"
          /\ r.events = "OUT" /\ r.outbufs > 0 /\ r.user = g_events[s].user
          /\ r.events \in Event /\ (r.outbufs > 0 <=> r.events = "OUT")
      BY <1>1, RepliedFacts DEF Event
    <2>2. g_events' = [g_events EXCEPT ![s] = r] /\ epoll' = Rewatched(s, r.events)
      BY <1>3, <2>1
    <2>3. \A u \in User : user_ev'[u] \in {user_ev[u], s}
      BY <1>3
    <2> HIDE DEF r
    <2>4. /\ g_events' \in [Slot -> SlotState]
          /\ \A t \in Slot : g_events'[t] = IF t = s THEN r ELSE g_events[t]
          /\ epoll' \in [Fd -> Watch \cup {NULL}]
          /\ SlotInv' /\ RepliesWait' /\ WatchedSlots' /\ AllWatched'
          /\ \A t \in Slot : Used(t) => Used(t)'
      BY <2>1, <2>2, <2>3, EvmodFacts
    <2>5. CardsToNamedSlot'
      <3> SUFFICES ASSUME NEW u \in User, user_ev[u] # NULL
                   PROVE  g_events'[user_ev[u]].user = u
        BY <1>3 DEF CardsToNamedSlot
      <3>1. user_ev[u] \in Slot /\ g_events[user_ev[u]].user = u
        BY <1>1 DEF IInv, CardsToNamedSlot
      <3> QED
        BY <3>1, <2>1, <2>4
    <2> QED
      BY <1>1, <1>3, <2>4, <2>5
  <1>4. ASSUME epoll' = Rewatched(s, "OUT"), NEW u \in User, g_events[s].user = NULL,
               user_ev' = [user_ev EXCEPT ![u] = s],
               g_events' = [g_events EXCEPT ![s] = [Replied(s) EXCEPT !.user = u]]
        PROVE  /\ g_events' \in [Slot -> SlotState]
               /\ user_ev' \in [User -> Slot \cup {NULL}]
               /\ epoll' \in [Fd -> Watch \cup {NULL}]
               /\ SlotInv' /\ RepliesWait' /\ CardsToNamedSlot'
               /\ WatchedSlots' /\ AllWatched'
               /\ \A t \in Slot : Used(t) => Used(t)'
    <2> DEFINE r == [Replied(s) EXCEPT !.user = u]
    <2>1. /\ r \in SlotState /\ r.fd = g_events[s].fd /\ r.status = "ADD"
          /\ r.events = "OUT" /\ r.outbufs > 0 /\ r.user = u
          /\ r.events \in Event /\ (r.outbufs > 0 <=> r.events = "OUT")
      BY <1>1, RepliedFacts DEF Event
    <2>2. g_events' = [g_events EXCEPT ![s] = r] /\ epoll' = Rewatched(s, r.events)
      BY <1>4, <2>1
    <2>3. /\ user_ev' \in [User -> Slot \cup {NULL}]
          /\ \A v \in User : user_ev'[v] = IF v = u THEN s ELSE user_ev[v]
      BY <1>1, <1>4
    <2>4. \A v \in User : user_ev'[v] \in {user_ev[v], s}
      BY <2>3
    <2> HIDE DEF r
    <2>5. /\ g_events' \in [Slot -> SlotState]
          /\ \A t \in Slot : g_events'[t] = IF t = s THEN r ELSE g_events[t]
          /\ epoll' \in [Fd -> Watch \cup {NULL}]
          /\ SlotInv' /\ RepliesWait' /\ WatchedSlots' /\ AllWatched'
          /\ \A t \in Slot : Used(t) => Used(t)'
      BY <2>1, <2>2, <2>4, EvmodFacts
    <2>6. CardsToNamedSlot'
      <3> SUFFICES ASSUME NEW v \in User, user_ev'[v] # NULL
                   PROVE  g_events'[user_ev'[v]].user = v
        BY DEF CardsToNamedSlot
      <3>1. CASE v = u
        BY <3>1, <2>1, <2>3, <2>5
      <3>2. CASE v # u
        <4>1. user_ev'[v] = user_ev[v] /\ user_ev[v] \in Slot
          BY <3>2, <2>3, <1>1
        <4>2. g_events[user_ev[v]].user = v /\ v # NULL
          BY <4>1, Basics DEF IInv, CardsToNamedSlot
        <4>3. user_ev[v] # s
          BY <4>2, <1>4
        <4> QED
          BY <4>1, <4>2, <4>3, <2>5
      <3> QED
        BY <3>1, <3>2
    <2> QED
      BY <2>3, <2>5, <2>6
  <1> QED
    BY <1>2, <1>3, <1>4 DEF work, Bind

\* A chunk, or the end of the input.
LEMMA RecvStep ==
    ASSUME IInv, NEW s \in Slot, recvdata(s)
    PROVE  IInv'
  <1> DEFINE f == g_events[s].fd
             c == file[f]
  <1>1. /\ Taking(s)
        /\ UNCHANGED <<waiting, loaded, checkpos, i, now, sends, clock, tables>>
    BY DEF recvdata, sweepVars
  <1>2. TypeOK /\ EventInv /\ SlotInv /\ WatchedSlots
    BY DEF IInv
  <1>3. Used(s) /\ f \in Fd
    <2>1. s = Head(events).slot /\ events # << >>
      BY <1>1, <1>2 DEF Taking, EventInv
    <2>2. Head(events) = events[1] /\ 1 \in 1..Len(events)
      BY <1>2, <2>1 DEF TypeOK
    <2>3. Used(s)
      BY <1>2, <2>1, <2>2 DEF EventInv
    <2> QED
      BY <1>2, <2>3 DEF SlotInv
  <1>4. ASSUME \A t \in Slot : Used(t) => Used(t)',
               g_events' \in [Slot -> SlotState],
               user_ev' \in [User -> Slot \cup {NULL}],
               file' \in [Fd -> Client \cup {NULL}],
               epoll' \in [Fd -> Watch \cup {NULL}],
               conn' \in [Client -> {"none", "backlog", "open", "left", "closed"}],
               input' \in [Client -> Seq(Request)], calm' \in BOOLEAN,
               SlotInv', RepliesWait', CardsToNamedSlot', WatchedSlots', AllWatched'
        PROVE  IInv'
    <2>1. /\ ev' \in Slot \cup {Listen, NULL}
          /\ events' \in Seq([slot : Slot \cup {Listen}, events : Event])
          /\ pc' \in {"handle", "send_waitdata"}
          /\ EventInv' /\ SweepHasEvent'
      BY <1>1, <1>2, <1>4, TakingFacts
    <2>2. TypeOK'
      BY <1>1, <1>2, <1>4, <2>1 DEF TypeOK
    <2> QED
      BY <1>4, <2>1, <2>2 DEF IInv
  <1>5. ASSUME c # NULL, input[c] # << >>,
               input' = [input EXCEPT ![c] = Tail(@)], work(s, Head(input[c])),
               UNCHANGED <<file, conn, calm>>
        PROVE  IInv'
    <2>1. c \in Client
      BY <1>2, <1>3, <1>5 DEF TypeOK
    <2>2. input' \in [Client -> Seq(Request)]
      <3>1. Tail(input[c]) \in Seq(Request)
        BY <1>2, <1>5, <2>1 DEF TypeOK
      <3> QED
        BY <1>2, <1>5, <2>1, <3>1 DEF TypeOK
    <2>3. work(s, Head(input[c])) /\ file' = file /\ calm' = calm /\ conn' = conn
      BY <1>5
    <2> HIDE DEF c
    <2>4. /\ g_events' \in [Slot -> SlotState]
          /\ user_ev' \in [User -> Slot \cup {NULL}]
          /\ epoll' \in [Fd -> Watch \cup {NULL}]
          /\ SlotInv' /\ RepliesWait' /\ CardsToNamedSlot'
          /\ WatchedSlots' /\ AllWatched'
          /\ \A t \in Slot : Used(t) => Used(t)'
      BY <1>3, <2>3, WorkFacts
    <2>5. /\ file' \in [Fd -> Client \cup {NULL}]
          /\ conn' \in [Client -> {"none", "backlog", "open", "left", "closed"}]
          /\ calm' \in BOOLEAN
      BY <1>2, <2>3 DEF TypeOK
    <2> QED
      BY <1>4, <2>2, <2>4, <2>5
  <1>6. ASSUME close(f), UNCHANGED <<g_events, user_ev>>
        PROVE  IInv'
    <2>1. /\ g_events' \in [Slot -> SlotState]
          /\ user_ev' \in [User -> Slot \cup {NULL}]
          /\ \A t \in Slot : g_events'[t].fd = g_events[t].fd
          /\ \A t \in Slot : g_events[t].fd # f /\ g_events[t].status \in {"ADD", "OFF"}
                                => g_events'[t].status \in {"ADD", "OFF"}
          /\ \A t \in Slot : Used(t) => Used(t)'
      BY <1>2, <1>6 DEF TypeOK, Used
    <2>2. f \in Fd /\ close(f)
      BY <1>3, <1>6
    <2> HIDE DEF f
    <2>3. /\ file' \in [Fd -> Client \cup {NULL}]
          /\ epoll' \in [Fd -> Watch \cup {NULL}]
          /\ conn' \in [Client -> {"none", "backlog", "open", "left", "closed"}]
          /\ input' \in [Client -> Seq(Request)]
          /\ calm' \in BOOLEAN
          /\ WatchedSlots'
          /\ AllWatched'
      BY <1>2, <2>1, <2>2, CloseFacts
    <2>4. SlotInv' /\ RepliesWait' /\ CardsToNamedSlot'
      BY <1>6 DEF IInv, SlotInv, Used, RepliesWait, CardsToNamedSlot
    <2> QED
      BY <1>4, <2>1, <2>3, <2>4
  <1> QED
    BY <1>5, <1>6 DEF recvdata

\* All replies are sent, or the connection is closed.
LEMMA SendStep ==
    ASSUME IInv, NEW s \in Slot, senddata(s)
    PROVE  IInv'
  <1> DEFINE f == g_events[s].fd
             r == Dropped(s)
  <1>1. /\ Taking(s)
        /\ UNCHANGED <<user_ev, waiting, loaded, checkpos, i, now, sends, clock, tables>>
    BY DEF senddata, sweepVars
  <1>2. TypeOK /\ EventInv /\ SlotInv /\ RepliesWait /\ WatchedSlots
    BY DEF IInv
  <1>3. Used(s) /\ f \in Fd
    <2>1. s = Head(events).slot /\ events # << >>
      BY <1>1, <1>2 DEF Taking, EventInv
    <2>2. Head(events) = events[1] /\ 1 \in 1..Len(events)
      BY <1>2, <2>1 DEF TypeOK
    <2>3. Used(s)
      BY <1>2, <2>1, <2>2 DEF EventInv
    <2> QED
      BY <1>2, <2>3 DEF SlotInv
  <1>4. ASSUME \A t \in Slot : Used(t) => Used(t)',
               \A t \in Slot : g_events'[t].user = g_events[t].user,
               g_events' \in [Slot -> SlotState],
               file' \in [Fd -> Client \cup {NULL}],
               epoll' \in [Fd -> Watch \cup {NULL}],
               conn' \in [Client -> {"none", "backlog", "open", "left", "closed"}],
               input' \in [Client -> Seq(Request)], calm' \in BOOLEAN,
               SlotInv', RepliesWait', WatchedSlots', AllWatched'
        PROVE  IInv'
    <2>1. /\ ev' \in Slot \cup {Listen, NULL}
          /\ events' \in Seq([slot : Slot \cup {Listen}, events : Event])
          /\ pc' \in {"handle", "send_waitdata"}
          /\ EventInv' /\ SweepHasEvent'
      BY <1>1, <1>2, <1>4, TakingFacts
    <2>2. TypeOK'
      BY <1>1, <1>2, <1>4, <2>1 DEF TypeOK
    <2>3. CardsToNamedSlot'
      <3> SUFFICES ASSUME NEW u \in User, user_ev[u] # NULL
                   PROVE  g_events'[user_ev[u]].user = u
        BY <1>1 DEF CardsToNamedSlot
      <3>1. user_ev[u] \in Slot /\ g_events[user_ev[u]].user = u
        BY <1>2 DEF IInv, TypeOK, CardsToNamedSlot
      <3> QED
        BY <3>1, <1>4
    <2> QED
      BY <1>4, <2>1, <2>2, <2>3 DEF IInv
  <1>5. g_events[s] \in SlotState /\ clock \in Nat
    BY <1>2 DEF TypeOK
  <1>6. ASSUME g_events' = [g_events EXCEPT ![s] = Sent(s)],
               epoll' = Rewatched(s, Sent(s).events),
               UNCHANGED <<file, conn, input, calm>>
        PROVE  IInv'
    <2>1. /\ Sent(s) \in SlotState /\ Sent(s).fd = g_events[s].fd
          /\ Sent(s).status = "ADD" /\ Sent(s).events = "IN" /\ Sent(s).outbufs = 0
          /\ Sent(s).user = g_events[s].user
          /\ Sent(s).events \in Event
      BY <1>5 DEF Sent, Moved, SlotState, Event
    <2>2. Sent(s).outbufs > 0 <=> Sent(s).events = "OUT"
      BY <2>1
    <2>3. \A u \in User : user_ev'[u] \in {user_ev[u], s}
      BY <1>1
    <2>4. file' = file /\ calm' = calm /\ conn' = conn /\ input' = input
      BY <1>6
    <2>5. /\ g_events' \in [Slot -> SlotState]
          /\ \A t \in Slot : g_events'[t] = IF t = s THEN Sent(s) ELSE g_events[t]
          /\ epoll' \in [Fd -> Watch \cup {NULL}]
          /\ SlotInv' /\ RepliesWait' /\ WatchedSlots' /\ AllWatched'
          /\ \A t \in Slot : Used(t) => Used(t)'
      BY <1>3, <1>6, <2>1, <2>2, <2>3, <2>4, EvmodFacts
    <2>6. \A t \in Slot : g_events'[t].user = g_events[t].user
      BY <2>1, <2>5
    <2>7. /\ file' \in [Fd -> Client \cup {NULL}]
          /\ conn' \in [Client -> {"none", "backlog", "open", "left", "closed"}]
          /\ input' \in [Client -> Seq(Request)] /\ calm' \in BOOLEAN
      BY <1>2, <2>4 DEF TypeOK
    <2> QED
      BY <1>4, <2>5, <2>6, <2>7
  <1>7. ASSUME close(f), g_events' = [g_events EXCEPT ![s] = r]
        PROVE  IInv'
    <2>1. g_events[s].status \notin {"NONE", "INIT"} /\ g_events[s].events \in Event
      BY <1>2, <1>3 DEF SlotInv, Used
    <2>2. /\ r \in SlotState /\ r.fd = g_events[s].fd /\ r.events = g_events[s].events
          /\ r.outbufs = 0 /\ r.user = g_events[s].user
          /\ r.status = IF g_events[s].status = "ADD" THEN "DEL" ELSE g_events[s].status
      BY <1>5 DEF SlotState, Dropped
    <2>3. /\ f \in Fd /\ close(f) /\ f = g_events[s].fd
          /\ g_events' = [g_events EXCEPT ![s] = r]
      BY <1>3, <1>7
    <2> HIDE DEF r, f
    <2>4. /\ r.status \notin {"NONE", "INIT"} /\ r.events \in Event
          /\ r.outbufs > 0 => r.events = "OUT"
          /\ r.status = "ADD" /\ r.events = "OUT" => r.outbufs > 0
      BY <2>1, <2>2
    <2>5. \A u \in User : user_ev'[u] \in {user_ev[u], s}
      BY <1>1
    <2>6. /\ g_events' \in [Slot -> SlotState]
          /\ \A t \in Slot : g_events'[t] = IF t = s THEN r ELSE g_events[t]
          /\ SlotInv' /\ RepliesWait'
          /\ \A t \in Slot : Used(t) => Used(t)'
      BY <1>2, <1>3, <2>2, <2>3, <2>4, <2>5, OneSlotFacts
    <2>7. /\ \A t \in Slot : g_events'[t].fd = g_events[t].fd
          /\ \A t \in Slot : g_events'[t].user = g_events[t].user
          /\ \A t \in Slot : g_events[t].fd # f /\ g_events[t].status \in {"ADD", "OFF"}
                                => g_events'[t].status \in {"ADD", "OFF"}
      BY <2>2, <2>3, <2>6
    <2>8. /\ file' \in [Fd -> Client \cup {NULL}]
          /\ epoll' \in [Fd -> Watch \cup {NULL}]
          /\ conn' \in [Client -> {"none", "backlog", "open", "left", "closed"}]
          /\ input' \in [Client -> Seq(Request)]
          /\ calm' \in BOOLEAN
          /\ WatchedSlots'
          /\ AllWatched'
      BY <1>2, <2>3, <2>6, <2>7, CloseFacts
    <2> QED
      BY <1>4, <2>6, <2>7, <2>8
  <1>8. \/ /\ g_events' = [g_events EXCEPT ![s] = Sent(s)]
           /\ epoll' = Rewatched(s, Sent(s).events)
           /\ UNCHANGED <<file, conn, input, calm>>
        \/ close(f) /\ g_events' = [g_events EXCEPT ![s] = r]
    BY DEF senddata
  <1> HIDE DEF r, f
  <1> QED
    BY <1>6, <1>7, <1>8

\* The cards of one user are put into the slot it is tied to.
LEMMA WaitDataStep ==
    ASSUME IInv, send_waitdata
    PROVE  IInv'
  <1> DEFINE here == {k \in 1..Len(waiting) :
                         user_ev[waiting[k]] # NULL /\ waiting[k] \in loaded}
             k == CHOOSE k \in here : \A l \in here : k <= l
             s == user_ev[waiting[k]]
  <1>1. /\ pc = "send_waitdata" /\ pc' = "parse"
        /\ UNCHANGED <<ev, checkpos, i, now, events, file, conn, input, sends, clock,
                       tables, calm>>
    BY DEF send_waitdata, sweepVars, clientVars
  <1>2. TypeOK
    BY DEF IInv
  <1>3. CASE UNCHANGED <<slotVars, epoll>>
    <2>1. UNCHANGED <<g_events, user_ev, waiting, loaded, epoll>>
      BY <1>3 DEF slotVars
    <2>2. TypeOK'
      BY <1>1, <1>2, <2>1 DEF TypeOK
    <2>3. SlotInv' /\ EventInv' /\ SweepHasEvent'
      BY <1>1, <2>1 DEF IInv, SlotInv, EventInv, Used, SweepHasEvent
    <2>4. RepliesWait' /\ CardsToNamedSlot' /\ WatchedSlots' /\ AllWatched'
      BY <1>1, <2>1 DEF IInv, RepliesWait, CardsToNamedSlot, WatchedSlots, AllWatched
    <2> QED
      BY <2>2, <2>3, <2>4 DEF IInv
  <1>4. ASSUME here # {}, waiting' = RemoveAt(waiting, k), loaded' = loaded \ {waiting[k]},
               g_events' = [g_events EXCEPT ![s] = Replied(s)],
               epoll' = Rewatched(s, "OUT"), UNCHANGED user_ev
        PROVE  IInv'
    <2> DEFINE r == Replied(s)
    <2>1. k \in here
      <3>1. here \in SUBSET Nat /\ here # {}
        BY <1>4
      <3> HIDE DEF here
      <3> QED
        BY <3>1, LeastOfNaturals
    <2>2. /\ k \in 1..Len(waiting) /\ s # NULL /\ waiting \in Seq(User)
          /\ user_ev \in [User -> Slot \cup {NULL}] /\ loaded \subseteq User
      BY <1>2, <2>1 DEF TypeOK
    <2> HIDE DEF k
    <2>3. waiting[k] \in User /\ s \in Slot /\ Used(s)
      <3>1. waiting[k] \in User
        BY <2>2
      <3>2. s \in Slot
        BY <2>2, <3>1
      <3> QED
        BY <2>2, <3>1, <3>2 DEF IInv, SlotInv
    <2>4. waiting' \in Seq(User) /\ loaded' \subseteq User
      <3>1. SubSeq(waiting, 1, k-1) \in Seq(User) /\ SubSeq(waiting, k+1, Len(waiting)) \in Seq(User)
        BY <2>2
      <3>2. SubSeq(waiting, 1, k-1) \o SubSeq(waiting, k+1, Len(waiting)) \in Seq(User)
        BY <3>1, ConcatProperties
      <3> QED
        BY <1>4, <2>2, <3>2 DEF RemoveAt
    <2>5. g_events' = [g_events EXCEPT ![s] = r] /\ epoll' = Rewatched(s, "OUT") /\ user_ev' = user_ev
      BY <1>4
    <2> HIDE DEF s
    <2>6. /\ r \in SlotState /\ r.fd = g_events[s].fd /\ r.status = "ADD"
          /\ r.events = "OUT" /\ r.outbufs > 0 /\ r.user = g_events[s].user
          /\ r.events \in Event /\ (r.outbufs > 0 <=> r.events = "OUT")
      BY <1>2, <2>3, RepliedFacts DEF Event
    <2>7. /\ epoll' = Rewatched(s, r.events) /\ file' = file /\ calm' = calm
          /\ \A u \in User : user_ev'[u] \in {user_ev[u], s}
      BY <1>1, <2>5, <2>6
    <2> HIDE DEF r
    <2>8. /\ g_events' \in [Slot -> SlotState]
          /\ \A t \in Slot : g_events'[t] = IF t = s THEN r ELSE g_events[t]
          /\ epoll' \in [Fd -> Watch \cup {NULL}]
          /\ SlotInv' /\ RepliesWait' /\ WatchedSlots' /\ AllWatched'
          /\ \A t \in Slot : Used(t) => Used(t)'
      BY <2>3, <2>5, <2>6, <2>7, EvmodFacts
    <2>9. TypeOK'
      BY <1>1, <1>2, <2>4, <2>5, <2>8 DEF TypeOK
    <2>10. EventInv' /\ SweepHasEvent'
      <3>1. pc' \notin {"handle", "halt"} /\ events' = << >> /\ ev' = ev
        BY <1>1 DEF IInv, EventInv
      <3>2. (ev \in Slot => Used(ev)) /\ ev # NULL
        BY <2>3 DEF IInv, EventInv
      <3>3. (ev \in Slot => Used(ev))'
        BY <3>1, <3>2, <2>8 DEF Used
      <3> QED
        BY <1>1, <3>1, <3>2, <3>3 DEF EventInv, SweepHasEvent
    <2>11. CardsToNamedSlot'
      <3> SUFFICES ASSUME NEW u \in User, user_ev[u] # NULL
                   PROVE  g_events'[user_ev[u]].user = u
        BY <2>5 DEF CardsToNamedSlot
      <3>1. user_ev[u] \in Slot /\ g_events[user_ev[u]].user = u
        BY <2>2 DEF IInv, CardsToNamedSlot
      <3> QED
        BY <3>1, <2>6, <2>8
    <2> QED
      BY <2>8, <2>9, <2>10, <2>11 DEF IInv
  <1> QED
    BY <1>3, <1>4 DEF send_waitdata

-----------------------------------------------------------------------------
(* Every step keeps the invariant, and what follows from it.               *)

LEMMA NextIInv ==
    ASSUME IInv, [Next]_vars
    PROVE  IInv'
  <1>1. CASE Loop
    <2>1. ASSUME NEW s \in Slot, Handle(s) PROVE IInv'
      BY <2>1, IgnoredStep, RecvStep, BrokenStep, SendStep DEF Handle
    <2> QED
      BY <1>1, <2>1, ParseStep, SweepStep, WaitStep, AcceptStep, WaitDataStep DEF Loop
  <1>2. CASE World
    BY <1>2, WorldStep
  <1>3. CASE UNCHANGED vars
    <2>1. UNCHANGED <<g_events, user_ev, waiting, loaded, ev, checkpos, i, now, events, pc,
                      file, epoll, conn, input, sends, clock, tables, calm>>
      BY <1>3 DEF vars, slotVars, sweepVars, kernelVars, clientVars
    <2>2. TypeOK' /\ SlotInv' /\ EventInv' /\ SweepHasEvent'
      BY <2>1 DEF IInv, TypeOK, SlotInv, EventInv, Used, SweepHasEvent
    <2>3. RepliesWait' /\ CardsToNamedSlot' /\ WatchedSlots' /\ AllWatched'
      BY <2>1 DEF IInv, RepliesWait, CardsToNamedSlot, WatchedSlots, AllWatched
    <2> QED
      BY <2>2, <2>3 DEF IInv
  <1> QED
    BY <1>1, <1>2, <1>3 DEF Next, Ended

\* Slots, registrations and events agree, for every number of clients,
\* descriptors, users and slots.
THEOREM Invariant == Spec => []IInv
  <1>1. Init => IInv
    BY InitIInv
  <1>2. IInv /\ [Next]_vars => IInv'
    BY NextIInv
  <1> QED
    BY <1>1, <1>2, PTL DEF Spec

\* The sweep never writes to the slot of an event that has not been.
THEOREM EventBeforeSweep == Spec => []SweepHasEvent
  <1>1. IInv => SweepHasEvent
    BY DEF IInv
  <1> QED
    BY <1>1, Invariant, PTL

\* No slot waits for input with replies to send, nor for room without any.
THEOREM NoReplyForgotten == Spec => []RepliesWait
  <1>1. IInv => RepliesWait
    BY DEF IInv
  <1> QED
    BY <1>1, Invariant, PTL

\* A user's cards go to a slot whose client has named that user.
THEOREM CardsNotAstray == Spec => []CardsToNamedSlot
  <1>1. IInv => CardsToNamedSlot
    BY DEF IInv
  <1> QED
    BY <1>1, Invariant, PTL

\* What epoll reports goes to an open slot with that descriptor.
THEOREM ReportsToOwner == Spec => []WatchedSlots
  <1>1. IInv => WatchedSlots
    BY DEF IInv
  <1> QED
    BY <1>1, Invariant, PTL

\* EVMOD, which adds and never modifies, loses no registration of a slot as
\* long as nothing has been closed.
THEOREM WatchedTillClosed == Spec => []AllWatched
  <1>1. IInv => AllWatched
    BY DEF IInv
  <1> QED
    BY <1>1, Invariant, PTL
=============================================================================
