------------------------ MODULE EventLoopProperties -------------------------
(* What the event loop is meant to guarantee.                              *)
EXTENDS EventLoop

Watched(c, s) == \E f \in Fd : file[f] = c /\ epoll[f] # NULL /\ epoll[f].slot = s

\* The sweep never marks the slot of the last event before there was one: a
\* slot that it closes was accepted, and that was an event (YGame_Server.cpp:627).
SweepHasEvent == pc # "crash"

\* Between two handlers a slot waits for room exactly if it has replies to
\* send, so that none is forgotten and senddata is not called for nothing;
\* whoever has been closed may be left with either (work, senddata, EVMOD).
RepliesWait ==
    \A s \in Slot :
        /\ g_events[s].outbufs > 0 => g_events[s].events = "OUT"
        /\ g_events[s].status = "ADD" /\ g_events[s].events = "OUT" =>
              g_events[s].outbufs > 0

\* The slot a user's cards are sent to is one whose client has named that user
\* first (FIRST in work, send_waitdata).
CardsToNamedSlot ==
    \A u \in User : user_ev[u] # NULL => g_events[user_ev[u]].user = u

\* What epoll reports of a descriptor goes to a slot with this descriptor, an
\* open one, and never to a slot that is closed; no slot is reported twice
\* (acceptconn, eventadd, eventdel).
WatchedSlots ==
    \A f \in Fd : epoll[f] # NULL =>
        /\ file[f] # NULL
        /\ g_events[epoll[f].slot].fd = f
        /\ g_events[epoll[f].slot].status \in {"ADD", "OFF"}

\* As long as nothing has been closed, epoll watches every slot in use, for what
\* the slot waits for, although EVMOD adds and never modifies.
AllWatched ==
    calm => \A s \in Slot : g_events[s].status # "NONE" =>
                /\ g_events[s].status = "ADD"
                /\ epoll[g_events[s].fd] = [slot |-> s, events |-> g_events[s].events]

\* As long as nothing is closed a client that is watched is read from, and
\* gets its replies.
Served ==
    \A c \in Client, s \in Slot :
        (calm /\ Watched(c, s) /\ (input[c] # << >> \/ g_events[s].outbufs > 0))
            ~> ((input[c] = << >> /\ g_events[s].outbufs = 0) \/ ~calm \/ pc = "halt")

\* The sweep gets round to every slot: none that has been silent stays as it is
\* (game_work, checkpos).
Overdue(s) == g_events[s].status = "ADD" /\ clock - g_events[s].last_active >= Timeout
SweepReaches == \A s \in Slot : Overdue(s) ~> (~Overdue(s) \/ pc = "halt")

-----------------------------------------------------------------------------
(* The inductive invariant behind these.                                   *)

\* A slot is in use from its connection on, and for good.
Used(s) == g_events[s].status # "NONE"
SlotInv ==
    /\ \A s \in Slot :
          /\ g_events[s].status # "INIT"
          /\ ~Used(s) => g_events[s].outbufs = 0 /\ g_events[s].user = NULL
          /\ Used(s) => g_events[s].fd \in Fd /\ g_events[s].events \in Event
    /\ \A u \in User : user_ev[u] # NULL => Used(user_ev[u])

\* The events that wait are of slots in use, so that ev is one since the first.
EventInv ==
    /\ pc \in {"handle", "halt"} <=> events # << >>
    /\ ev \in Slot => Used(ev)
    /\ \A k \in 1..Len(events) : events[k].slot \in Slot => Used(events[k].slot)
    /\ (\E s \in Slot : Used(s)) => ev # NULL

\* Inductive: slots, what is watched, and what is reported agree.
IInv == /\ TypeOK /\ SlotInv /\ EventInv /\ SweepHasEvent
        /\ RepliesWait /\ CardsToNamedSlot /\ WatchedSlots /\ AllWatched

-----------------------------------------------------------------------------
(* What comments say.                                                      *)

\* YGame_Server.cpp:607: who has not been in touch with the server for 60
\* seconds is closed.  So whose slot has been active since is not.
SweepClosesSilent ==
    [][\A f \in Fd : pc = "sweep" /\ file[f] # NULL /\ file'[f] = NULL /\ epoll[f] # NULL =>
          now - g_events[epoll[f].slot].last_active >= Timeout]_vars
=============================================================================
