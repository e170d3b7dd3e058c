------------------------- MODULE DispatchProperties -------------------------
(* What the hand-over of connections is meant to guarantee.                *)
EXTENDS Dispatch, SequencesExt

\* Every descriptor is a positive char.
Small == \A fd \in Fd : 2 * fd < CharMod

-----------------------------------------------------------------------------
\* The mutex of a queue is held only inside the critical sections of cq_push
\* and cq_pop: cq_pop's early return with the mutex held (YS.cpp:41-44) is
\* never taken, unless cq_push failed to allocate and wrote its byte all the
\* same.  So neither the master nor a worker ever waits for good.
NoLeakedMutex ==
    ooms = 0 =>
        \A w \in Worker :
            /\ mutex[w] = w => wpc[w] \in {"pop", "unlock"}
            /\ mutex[w] = Master =>
                  w = last_thread /\ mpc \in {"link", "init", "unlock"}

\* A byte is never ahead of its queue entry, although the queue is locked and
\* the pipe is not (master_libevent_work, YS.cpp:428-431): what cq_pop looks
\* for is there and has its value.
NoEmptyPop ==
    ooms = 0 =>
        \A w \in Worker :
            wpc[w] = "pop" => queue[w] # << >> /\ Head(queue[w]) # Empty

\* Where a worker's connections are: on its base, in its hand, in its queue or
\* still with the master.
Taken(w)   == IF hand[w] = None THEN << >> ELSE <<hand[w]>>
Filled(w)  == IF queue[w] # << >> /\ Last(queue[w]) = Empty THEN Front(queue[w])
              ELSE queue[w]
Pending(w) == IF w = last_thread /\ mpc \in {"lock", "link", "init"} THEN <<cfd>>
              ELSE << >>

\* Queue and pipe together lose no connection, double none and keep their
\* order, whatever writes have failed (cq_push, cq_pop).
HandedInOrder ==
    Small => \A w \in Worker :
        assigned[w] = base[w] \o Taken(w) \o Filled(w) \o Pending(w)

\* Two bufferevents never share a descriptor, but one whose byte could not be
\* written: the master has closed it (YS.cpp:431-433), it is still in the queue, and
\* accept may give its number to another connection that this worker or any other
\* one adopts too.
NoTwoOwners ==
    Small =>
        \A v, w \in Worker : \A i \in 1..Len(base[v]), j \in 1..Len(base[w]) :
            base[v][i] = base[w][j] =>
                (v = w /\ i = j) \/ i \in failed[v] \/ j \in failed[w]

\* The workers get connections in turn: no worker is ever two ahead of another
\* (YS.cpp:425-426).
Turns ==
    ooms = 0 /\ mpc # "alloc" =>
        \A v, w \in Worker :
            v <= w => Len(assigned[v]) - Len(assigned[w]) \in {0, 1}

\* With every thread that can run running, the k-th connection meant for a
\* worker gets its bufferevent there, unless something has failed.
EachAdopted ==
    Small =>
        \A w \in Worker : \A k \in 1..MaxAccept :
            (Len(assigned[w]) >= k) ~> (Len(base[w]) >= k \/ fails + ooms > 0)

-----------------------------------------------------------------------------
(* The inductive invariant behind the safety properties.                   *)

\* Who holds a mutex: the thread in the critical section, and, once cq_pop has
\* found nothing, the worker that should have unlocked it.
LockInv ==
    \A w \in Worker :
        /\ mutex[w] \in {w, Master, None}
        /\ mutex[w] = Master <=>
              w = last_thread /\ mpc \in {"link", "init", "unlock"}
        /\ wpc[w] \in {"pop", "unlock"} => mutex[w] = w
        /\ ooms = 0 /\ mutex[w] = w => wpc[w] \in {"pop", "unlock"}

\* The master's connection and the node it is about to fill.
Unfilled(w) == w = last_thread /\ mpc = "init"
MasterInv ==
    /\ mpc # "accept" => last_thread \in Worker /\ cfd \in open
    /\ \A w \in Worker : Unfilled(w) => Len(queue[w]) > 0
    /\ \A w \in Worker : \A k \in 1..Len(queue[w]) :
          queue[w][k] = Empty <=> k = Len(queue[w]) /\ Unfilled(w)

\* Entries are ahead of bytes.
Reading(w)   == IF wpc[w] \in {"lock", "pop"} THEN 1 ELSE 0
Unwritten(w) == IF w = last_thread /\ mpc \in {"init", "unlock", "write"} THEN 1
                ELSE 0
StepInv ==
    ooms = 0 => \A w \in Worker :
                   Len(queue[w]) >= pipe[w] + Reading(w) + Unwritten(w)

\* HandedInOrder, one position after the other.
NumTaken(w)  == IF hand[w] = None THEN 0 ELSE 1
NumFilled(w) == IF Unfilled(w) THEN Len(queue[w]) - 1 ELSE Len(queue[w])
NumPending(w) == IF w = last_thread /\ mpc \in {"lock", "link", "init"} THEN 1 ELSE 0
PlaceAt(w) ==
    LET b == Len(base[w])
        t == NumTaken(w)
    IN
    /\ wpc[w] \in {"wait", "lock", "pop"} => hand[w] = None
    /\ Len(assigned[w]) = b + t + NumFilled(w) + NumPending(w)
    /\ \A i \in 1..b : base[w][i] = assigned[w][i]
    /\ t = 1 => hand[w] = assigned[w][b + 1]
    /\ \A i \in 1..NumFilled(w) : queue[w][i] = assigned[w][b + t + i]
    /\ NumPending(w) = 1 => cfd = assigned[w][Len(assigned[w])]
PlaceInv == \A w \in Worker : PlaceAt(w)

\* What was assigned and whose byte is written, or will be, is open and is no other
\* connection; the master's own is the last that it has assigned.
Kept(w) == 1..Len(assigned[w]) \ failed[w]
OnceInv ==
    /\ \A w \in Worker : \A i \in Kept(w) :
          /\ assigned[w][i] \in open
          /\ assigned[w][i] = cfd => /\ mpc # "alloc" /\ w = last_thread
                                     /\ i = Len(assigned[w])
    /\ \A v, w \in Worker : \A i \in Kept(v), j \in Kept(w) :
          assigned[v][i] = assigned[w][j] => v = w /\ i = j

\* In each turn every worker gets one, the first worker first.
Got(w) == Len(assigned[w]) + (IF w = last_thread /\ mpc = "alloc" THEN 1 ELSE 0)
TurnInv ==
    ooms = 0 =>
        \A v, w \in Worker :
            v <= w => Got(v) - Got(w) =
                         IF v <= last_thread /\ last_thread < w THEN 1 ELSE 0

\* Inductive: entries are ahead of bytes, and whoever holds a mutex is about
\* to release it.
IInv ==
    /\ TypeOK /\ LockInv /\ MasterInv /\ StepInv /\ TurnInv /\ OnceInv
    /\ Small => PlaceInv

-----------------------------------------------------------------------------
\* YS.cpp:278, "add to base": a worker adds the connection that it has popped.
PopIsAdopted ==
    [][\A w \in Worker : wpc[w] = "adopt" /\ wpc'[w] = "wait" /\ hand[w] # None
          => base'[w] = Append(base[w], hand[w])]_vars
=============================================================================
