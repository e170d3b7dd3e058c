------------------------------ MODULE Dispatch ------------------------------
(***************************************************************************)
(* Handing new connections to the worker threads.  The master thread       *)
(* accepts, picks the workers in turn, appends the descriptor to the       *)
(* worker's conn_queue under its mutex and writes a byte to the worker's   *)
(* pipe.  For each byte the worker takes one descriptor from its queue and *)
(* makes a bufferevent of it.  Queue and pipe are two channels that have   *)
(* to stay in step: a pop that finds nothing returns with the mutex held.  *)
(***************************************************************************)
EXTENDS Integers, Sequences

CONSTANTS
    NumThreads,     \* master->num_threads (WORK_THREAD)
    Fd,             \* the descriptors accept may return
    CharMod,        \* the values of a char: 256
    MaxAccept,      \* bound: connections accepted in all
    MaxFail,        \* bound: writes to a pipe that fail
    MaxOom          \* bound: allocations in cq_push that fail

ASSUME ThreadsAssumption == NumThreads \in Nat \ {0}
ASSUME FdAssumption == Fd \subseteq Nat \ {0}
ASSUME CharAssumption == CharMod \in Nat \ {0, 1}
ASSUME LimitAssumption == MaxAccept \in Nat /\ MaxFail \in Nat /\ MaxOom \in Nat

Worker == 0 .. NumThreads - 1
None   == -1        \* no thread, or what a failed cq_pop returns
Master == NumThreads
Empty  == 0         \* the value of a node that is not filled yet

VARIABLES
    open,           \* the descriptors the process has open
    last_thread,    \* the worker that got the last connection
    mpc,            \* where the master is in master_libevent_work
    cfd,            \* the connection it has accepted
    queue,          \* conn_queue of each worker
    mutex,          \* mutex_connqueue of each worker: its holder, or None
    pipe,           \* bytes in the pipe of each worker
    wpc,            \* where each worker is in thread_libevent_process
    hand,           \* what its cq_pop has taken
    base,           \* the descriptors it has made bufferevents of, in order
    conn_num,       \* how many it counts
    assigned,       \* history: the connections meant for it, in order
    failed,         \* history: the positions there whose byte was not written
    accepted,       \* connections accepted so far
    fails, ooms     \* failures so far

masterVars ==
    <<open, last_thread, mpc, cfd, assigned, failed, accepted, fails, ooms>>
workerVars == <<wpc, hand, base, conn_num>>
vars == <<masterVars, queue, mutex, pipe, workerVars>>

MasterPC == {"accept", "alloc", "lock", "link", "init", "unlock", "write"}
PopPC    == {"wait", "lock", "pop", "unlock", "adopt"}

TypeOK ==
    /\ open \subseteq Fd
    /\ last_thread \in Worker \cup {None}
    /\ mpc \in MasterPC
    /\ cfd \in Fd \cup {None}
    /\ queue \in [Worker -> Seq(Fd \cup {Empty})]
    /\ mutex \in [Worker -> Worker \cup {Master, None}]
    /\ pipe \in [Worker -> Nat]
    /\ wpc \in [Worker -> PopPC]
    /\ hand \in [Worker -> Fd \cup {None}]
    /\ base \in [Worker -> Seq(Int)]
    /\ conn_num \in [Worker -> Nat]
    /\ assigned \in [Worker -> Seq(Fd)]
    /\ failed \in [Worker -> SUBSET Nat]
    /\ accepted \in Nat /\ fails \in Nat /\ ooms \in Nat

\* YS_init and YS_thread_init.
Init ==
    /\ open = {} /\ last_thread = None
    /\ mpc = "accept" /\ cfd = None
    /\ queue = [w \in Worker |-> << >>]
    /\ mutex = [w \in Worker |-> None]
    /\ pipe = [w \in Worker |-> 0]
    /\ wpc = [w \in Worker |-> "wait"]
    /\ hand = [w \in Worker |-> None]
    /\ base = [w \in Worker |-> << >>]
    /\ conn_num = [w \in Worker |-> 0]
    /\ assigned = [w \in Worker |-> << >>]
    /\ failed = [w \in Worker |-> {}]
    /\ accepted = 0 /\ fails = 0 /\ ooms = 0

\* The worker whose turn it is.
NextThread == (last_thread + 1) % NumThreads

\* Assigning an int to a char keeps its low byte, read as signed.
AsChar(n) ==
    LET r == n % CharMod IN IF 2 * r >= CharMod THEN r - CharMod ELSE r

-----------------------------------------------------------------------------
(* The master thread.                                                      *)

MasterStep(from, to) == mpc = from /\ mpc' = to

\* A fault: the first worker gets them all.
FaultNoTurns ==
    /\ MasterStep("accept", "alloc")
    /\ accepted < MaxAccept
    /\ accepted' = accepted + 1
    /\ \E fd \in Fd \ open : open' = open \cup {fd} /\ cfd' = fd
    /\ last_thread' = 0
    /\ UNCHANGED <<assigned, failed, fails, ooms, queue, mutex, pipe, workerVars>>

\* accept and the choice of the worker.  The descriptor is one not in use.
Accept ==
    /\ MasterStep("accept", "alloc")
    /\ accepted < MaxAccept
    /\ accepted' = accepted + 1
    /\ \E fd \in Fd \ open : open' = open \cup {fd} /\ cfd' = fd
    /\ last_thread' = NextThread
    /\ UNCHANGED <<assigned, failed, fails, ooms, queue, mutex, pipe, workerVars>>

\* cq_push allocates the queue's value.  When it cannot it returns, and its
\* caller goes on to write the byte all the same.
PushAlloc ==
    /\ \/ /\ MasterStep("alloc", "lock")
          /\ assigned' = [assigned EXCEPT ![last_thread] = Append(@, cfd)]
          /\ UNCHANGED ooms
       \/ /\ MasterStep("alloc", "write")
          /\ ooms < MaxOom /\ ooms' = ooms + 1
          /\ UNCHANGED assigned
    /\ UNCHANGED <<open, last_thread, cfd, failed, accepted, fails, queue, mutex, pipe,
                   workerVars>>

\* A fault: the master does not wait for the mutex.
FaultPushNoLock ==
    /\ MasterStep("lock", "link")
    /\ mutex' = [mutex EXCEPT ![last_thread] = Master]
    /\ UNCHANGED <<open, last_thread, cfd, assigned, failed, accepted, fails, ooms, queue,
                   pipe, workerVars>>

PushLock ==
    /\ MasterStep("lock", "link")
    /\ mutex[last_thread] = None
    /\ mutex' = [mutex EXCEPT ![last_thread] = Master]
    /\ UNCHANGED <<open, last_thread, cfd, assigned, failed, accepted, fails, ooms, queue,
                   pipe, workerVars>>

\* xlist_cat links the node, then fills it.
PushLink ==
    /\ MasterStep("link", "init")
    /\ queue' = [queue EXCEPT ![last_thread] = Append(@, Empty)]
    /\ UNCHANGED <<open, last_thread, cfd, assigned, failed, accepted, fails, ooms, mutex,
                   pipe, workerVars>>

PushInit ==
    LET w == last_thread IN
    /\ MasterStep("init", "unlock")
    /\ queue' = [queue EXCEPT ![w][Len(queue[w])] = cfd]
    /\ UNCHANGED <<open, last_thread, cfd, assigned, failed, accepted, fails, ooms, mutex,
                   pipe, workerVars>>

PushUnlock ==
    /\ MasterStep("unlock", "write")
    /\ mutex' = [mutex EXCEPT ![last_thread] = None]
    /\ UNCHANGED <<open, last_thread, cfd, assigned, failed, accepted, fails, ooms, queue,
                   pipe, workerVars>>

\* A fault: the byte goes to the next worker in turn.
FaultWriteNext ==
    /\ MasterStep("write", "accept")
    /\ pipe' = [pipe EXCEPT ![NextThread] = @ + 1]
    /\ cfd' = None
    /\ UNCHANGED <<open, fails, last_thread, assigned, failed, accepted, ooms, queue,
                   mutex, workerVars>>

\* A fault: the master closes the connection although the byte is written.
FaultClosesAll ==
    /\ MasterStep("write", "accept")
    /\ pipe' = [pipe EXCEPT ![last_thread] = @ + 1]
    /\ open' = open \ {cfd}
    /\ cfd' = None
    /\ UNCHANGED <<fails, last_thread, assigned, failed, accepted, ooms, queue, mutex,
                   workerVars>>

\* Where fd is, if the worker was given it last: not if cq_push has failed.
LastIf(fd) ==
    {k \in {Len(assigned[last_thread])} : k > 0 /\ assigned[last_thread][k] = fd}

\* The byte.  A write that fails closes the connection, which stays queued.
WriteByte ==
    /\ MasterStep("write", "accept")
    /\ \/ /\ pipe' = [pipe EXCEPT ![last_thread] = @ + 1]
          /\ UNCHANGED <<open, failed, fails>>
       \/ /\ fails < MaxFail
          /\ fails' = fails + 1
          /\ open' = open \ {cfd}
          /\ failed' = [failed EXCEPT ![last_thread] = @ \cup LastIf(cfd)]
          /\ UNCHANGED pipe
    /\ cfd' = None
    /\ UNCHANGED <<last_thread, assigned, accepted, ooms, queue, mutex, workerVars>>

MasterNext ==
    \/ Accept \/ PushAlloc \/ PushLock \/ PushLink \/ PushInit \/ PushUnlock
    \/ WriteByte

-----------------------------------------------------------------------------
(* The worker threads.                                                     *)

WorkerStep(w, from, to) ==
    wpc[w] = from /\ wpc' = [wpc EXCEPT ![w] = to]

\* Faults: the worker does not look whether a byte has come, or takes all the
\* bytes there are for one.
FaultReadNone(w) ==
    /\ WorkerStep(w, "wait", "lock")
    /\ pipe' = [pipe EXCEPT ![w] = @ - 1]
    /\ UNCHANGED <<masterVars, queue, mutex, hand, base, conn_num>>
FaultReadAll(w) ==
    /\ WorkerStep(w, "wait", "lock")
    /\ pipe[w] > 0
    /\ pipe' = [pipe EXCEPT ![w] = 0]
    /\ UNCHANGED <<masterVars, queue, mutex, hand, base, conn_num>>

ReadByte(w) ==
    /\ WorkerStep(w, "wait", "lock")
    /\ pipe[w] > 0
    /\ pipe' = [pipe EXCEPT ![w] = @ - 1]
    /\ UNCHANGED <<masterVars, queue, mutex, hand, base, conn_num>>

PopLock(w) ==
    /\ WorkerStep(w, "lock", "pop")
    /\ mutex[w] = None
    /\ mutex' = [mutex EXCEPT ![w] = w]
    /\ UNCHANGED <<masterVars, queue, pipe, hand, base, conn_num>>

\* cq_pop.  When there is nothing, or a node without a value, it returns -1
\* and does not unlock.
PopTake(w) ==
    /\ IF queue[w] # << >> /\ Head(queue[w]) # Empty
       THEN /\ WorkerStep(w, "pop", "unlock")
            /\ hand' = [hand EXCEPT ![w] = Head(queue[w])]
       ELSE /\ WorkerStep(w, "pop", "adopt")
            /\ hand' = [hand EXCEPT ![w] = None]
    /\ queue' = [queue EXCEPT ![w] = IF @ = << >> THEN @ ELSE Tail(@)]
    /\ UNCHANGED <<masterVars, mutex, pipe, base, conn_num>>

PopUnlock(w) ==
    /\ WorkerStep(w, "unlock", "adopt")
    /\ mutex' = [mutex EXCEPT ![w] = None]
    /\ UNCHANGED <<masterVars, queue, pipe, hand, base, conn_num>>

\* The descriptor goes through a char; what is not positive then is dropped.
Adopt(w) ==
    LET c == AsChar(hand[w]) IN
    /\ WorkerStep(w, "adopt", "wait")
    /\ IF c <= 0
       THEN UNCHANGED <<base, conn_num>>
       ELSE /\ base' = [base EXCEPT ![w] = Append(@, c)]
            /\ conn_num' = [conn_num EXCEPT ![w] = @ + 1]
    /\ hand' = [hand EXCEPT ![w] = None]
    /\ UNCHANGED <<masterVars, queue, mutex, pipe>>

WorkerNext(w) ==
    ReadByte(w) \/ PopLock(w) \/ PopTake(w) \/ PopUnlock(w) \/ Adopt(w)

Next == MasterNext \/ \E w \in Worker : WorkerNext(w)

Spec == Init /\ [][Next]_vars

\* The scheduler runs every thread that can run; clients come or do not come.
Fairness ==
    /\ WF_vars(MasterNext /\ mpc # "accept")
    /\ \A w \in Worker : WF_vars(WorkerNext(w))

FairSpec == Spec /\ Fairness
=============================================================================
