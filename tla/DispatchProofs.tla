--------------------------- MODULE DispatchProofs ---------------------------
(* Proofs about the hand-over of connections, for every number of workers, *)
(* descriptors and connections.                                            *)
EXTENDS DispatchProperties, SequenceTheorems, TLAPS

-----------------------------------------------------------------------------
(* Arithmetic of the turn and of the char.                                 *)

\* A number below the divisor is its own remainder.
LEMMA SmallRemainder ==
    ASSUME NEW a \in Nat, NEW b \in Nat \ {0}, a < b
    PROVE  a % b = a
  OBVIOUS

\* The turn goes on by one, and from the last worker to the first.
LEMMA NextThreadFacts ==
    ASSUME last_thread \in Worker \cup {None}
    PROVE  /\ NextThread \in Worker
           /\ NextThread = IF last_thread = NumThreads - 1 THEN 0 ELSE last_thread + 1
  <1> USE ThreadsAssumption
  <1>1. CASE last_thread = NumThreads - 1
    <2>1. NumThreads % NumThreads = 0
      OBVIOUS
    <2> QED
      BY <1>1, <2>1 DEF NextThread, Worker, None
  <1>2. CASE last_thread # NumThreads - 1
    <2>1. last_thread + 1 \in Nat /\ last_thread + 1 < NumThreads
      BY <1>2 DEF Worker, None
    <2>2. (last_thread + 1) % NumThreads = last_thread + 1
      BY <2>1, SmallRemainder
    <2> QED
      BY <1>2, <2>1, <2>2 DEF NextThread, Worker, None
  <1> QED
    BY <1>1, <1>2

\* A small descriptor survives the char; the -1 of a failed pop is dropped.
LEMMA AsCharFacts ==
    /\ Small => \A fd \in Fd : AsChar(fd) = fd /\ fd > 0
    /\ AsChar(None) <= 0
    /\ \A n \in Int : AsChar(n) \in Int
  <1> USE CharAssumption
  <1>1. ASSUME Small, NEW fd \in Fd PROVE AsChar(fd) = fd /\ fd > 0
    <2>1. fd \in Nat /\ fd > 0 /\ 2 * fd < CharMod
      BY <1>1, FdAssumption DEF Small
    <2>2. fd % CharMod = fd
      BY <2>1, SmallRemainder
    <2> QED
      BY <2>1, <2>2 DEF AsChar
  <1>2. AsChar(None) <= 0
    <2>1. (-1) % CharMod = CharMod - 1
      OBVIOUS
    <2> QED
      BY <2>1 DEF AsChar, None
  <1>3. ASSUME NEW n \in Int PROVE AsChar(n) \in Int
    <2>1. n % CharMod \in Int
      OBVIOUS
    <2> QED
      BY <2>1 DEF AsChar
  <1> QED
    BY <1>1, <1>2, <1>3

-----------------------------------------------------------------------------

\* The threads and the special values are all different.
LEMMA Basics ==
    /\ Master \notin Worker /\ None \notin Worker /\ Master # None
    /\ None \notin Fd /\ Empty \notin Fd /\ None # Empty
  BY ThreadsAssumption, FdAssumption DEF Master, Worker, None, Empty

\* What a worker may have in its hand is a number.
LEMMA HandIsInt ==
    \A x \in Fd \cup {None} : x \in Int
  <1>1. ASSUME NEW x \in Fd PROVE x \in Int
    BY FdAssumption
  <1>2. None \in Int
    BY DEF None
  <1> QED
    BY <1>1, <1>2

\* The invariant holds initially.
LEMMA InitIInv ==
    ASSUME Init
    PROVE  IInv
  <1> USE DEF Init
  <1>1. TypeOK /\ LockInv /\ MasterInv /\ StepInv /\ TurnInv /\ OnceInv
    BY Basics DEF TypeOK, MasterPC, PopPC, LockInv, MasterInv, Unfilled, StepInv,
                  Reading, Unwritten, TurnInv, Got, OnceInv, Kept, Worker, None
  <1>2. PlaceInv
    BY Basics DEF PlaceInv, PlaceAt, NumTaken, NumFilled, NumPending, Unfilled
  <1> QED
    BY <1>1, <1>2 DEF IInv

\* What one more element makes of the sequence of one worker.
LEMMA AppendAt ==
    ASSUME NEW S, NEW f \in [Worker -> Seq(S)], NEW w \in Worker, NEW e \in S,
           NEW g, g = [f EXCEPT ![w] = Append(@, e)]
    PROVE  /\ g \in [Worker -> Seq(S)]
           /\ Len(f[w]) \in Nat
           /\ Len(g[w]) = Len(f[w]) + 1
           /\ \A i \in 1..Len(f[w]) : g[w][i] = f[w][i]
           /\ g[w][Len(f[w]) + 1] = e
           /\ \A v \in Worker : v # w => g[v] = f[v]
  <1>1. f[w] \in Seq(S) /\ g[w] = Append(f[w], e)
    OBVIOUS
  <1>2. /\ Append(f[w], e) \in Seq(S)
        /\ Len(Append(f[w], e)) = Len(f[w]) + 1
        /\ \A i \in 1..Len(f[w]) : Append(f[w], e)[i] = f[w][i]
        /\ Append(f[w], e)[Len(f[w]) + 1] = e
    BY <1>1, AppendProperties
  <1>3. Len(f[w]) \in Nat
    BY <1>1
  <1> QED
    BY <1>1, <1>2, <1>3

\* What a new value at its last position makes of a sequence.
LEMMA ExceptLast ==
    ASSUME NEW S, NEW s \in Seq(S), Len(s) > 0, NEW e \in S
    PROVE  /\ [s EXCEPT ![Len(s)] = e] \in Seq(S)
           /\ Len([s EXCEPT ![Len(s)] = e]) = Len(s)
           /\ \A i \in 1..Len(s)-1 : [s EXCEPT ![Len(s)] = e][i] = s[i]
           /\ [s EXCEPT ![Len(s)] = e][Len(s)] = e
  OBVIOUS

\* A step that moves none of a worker's connections leaves them in place.
LEMMA SamePlace ==
    ASSUME NEW w \in Worker, PlaceAt(w),
           base'[w] = base[w], hand'[w] = hand[w], queue'[w] = queue[w],
           assigned'[w] = assigned[w],
           NumFilled(w)' = NumFilled(w), NumPending(w)' = NumPending(w),
           cfd' = cfd \/ NumPending(w)' = 0,
           wpc'[w] = wpc[w] \/ hand[w] = None
    PROVE  PlaceAt(w)'
  <1>1. NumTaken(w)' = NumTaken(w)
    BY DEF NumTaken
  <1>2. wpc'[w] \in {"wait", "lock", "pop"} => hand'[w] = None
    BY DEF PlaceAt
  <1>3. NumPending(w)' = 1 => cfd' = assigned'[w][Len(assigned'[w])]
    BY DEF PlaceAt
  <1> QED
    BY <1>1, <1>2, <1>3 DEF PlaceAt

\* A step that assigns, fails and accepts nothing leaves the connections apart.
LEMMA OnceStays ==
    ASSUME OnceInv, UNCHANGED <<open, last_thread, cfd, assigned, failed>>,
           mpc' # "alloc" \/ mpc' = mpc
    PROVE  OnceInv'
  <1>1. \A w \in Worker : Kept(w)' = Kept(w)
    BY DEF Kept
  <1> QED
    BY <1>1 DEF OnceInv

\* Every step of the master keeps the invariant.
LEMMA MasterIInv ==
    ASSUME IInv, MasterNext
    PROVE  IInv'
  <1> USE DEF IInv
  <1>1. CASE Accept
    <2> USE <1>1 DEF Accept, MasterStep, workerVars
    <2>0. /\ NextThread \in Worker /\ last_thread' = NextThread /\ cfd' \in Fd \ open
          /\ NextThread = IF last_thread = NumThreads - 1 THEN 0 ELSE last_thread + 1
          /\ open' = open \cup {cfd'} /\ last_thread \in Worker \cup {None}
      BY NextThreadFacts DEF TypeOK
    <2>1. TypeOK'
      <3>1. open' \subseteq Fd /\ cfd' \in Fd
        BY <2>0 DEF TypeOK
      <3>2. accepted' \in Nat
        BY DEF TypeOK
      <3> QED
        BY <2>0, <3>1, <3>2 DEF TypeOK, MasterPC
    <2>2. LockInv'
      BY DEF TypeOK, LockInv
    <2>3. MasterInv'
      BY <2>0 DEF MasterInv, Unfilled
    <2>4. StepInv'
      BY DEF TypeOK, StepInv, Reading, Unwritten
    <2>5. TurnInv'
      <3> SUFFICES ASSUME ooms = 0, NEW v \in Worker, NEW w \in Worker, v <= w
                   PROVE  (Got(v) - Got(w))' =
                            IF v <= NextThread /\ NextThread < w THEN 1 ELSE 0
        BY <2>0 DEF TurnInv
      <3>1. /\ Got(v)' = Got(v) + (IF v = NextThread THEN 1 ELSE 0)
            /\ Got(w)' = Got(w) + (IF w = NextThread THEN 1 ELSE 0)
            /\ Got(v) \in Int /\ Got(w) \in Int
        <4>1. Len(assigned[v]) \in Nat /\ Len(assigned[w]) \in Nat
          BY SMTT(60) DEF TypeOK
        <4> QED
          BY <2>0, <4>1 DEF Got
      <3>2. Got(v) - Got(w) = IF v <= last_thread /\ last_thread < w THEN 1 ELSE 0
        BY DEF TurnInv
      <3> QED
        BY <2>0, <3>1, <3>2, ThreadsAssumption DEF Worker, None
    <2>6. OnceInv'
      <3>1. \A w \in Worker : Kept(w)' = Kept(w)
        BY DEF Kept
      <3>2. \A w \in Worker : \A k \in Kept(w) :
               assigned[w][k] \in open /\ assigned[w][k] # cfd'
        BY <2>0 DEF OnceInv
      <3> QED
        BY <2>0, <3>1, <3>2 DEF OnceInv
    <2>7. Small => PlaceInv'
      <3> SUFFICES ASSUME Small, NEW w \in Worker PROVE PlaceAt(w)'
        BY DEF PlaceInv
      <3>1. PlaceAt(w)
        BY DEF PlaceInv
      <3>2. NumFilled(w)' = NumFilled(w) /\ NumPending(w)' = 0 /\ NumPending(w) = 0
        BY DEF NumFilled, NumPending, Unfilled
      <3> QED
        BY <3>1, <3>2, SamePlace
    <2> QED
      BY <2>1, <2>2, <2>3, <2>4, <2>5, <2>6, <2>7
  <1>2. CASE PushAlloc
    <2> USE <1>2 DEF PushAlloc, MasterStep, workerVars
    <2>0. /\ mpc = "alloc" /\ last_thread \in Worker /\ cfd \in Fd
          /\ assigned \in [Worker -> Seq(Fd)]
          /\ UNCHANGED <<open, last_thread, cfd, failed, fails, queue, wpc, hand, base>>
      BY Basics DEF TypeOK, MasterInv
    <2> DEFINE n == Len(assigned[last_thread])
    <2>a. ASSUME mpc' = "write", ooms' = ooms + 1, assigned' = assigned
          PROVE  TypeOK' /\ TurnInv' /\ OnceInv' /\ (Small => PlaceInv')
      <3>1. ooms \in Nat /\ ooms' \in Nat /\ ooms' # 0
        BY <2>a DEF TypeOK
      <3>2. TypeOK'
        BY <2>0, <2>a, <3>1 DEF TypeOK, MasterPC
      <3>3. TurnInv'
        BY <3>1 DEF TurnInv
      <3>4. OnceInv'
        BY <2>0, <2>a, OnceStays
      <3>5. Small => PlaceInv'
        <4> SUFFICES ASSUME Small, NEW w \in Worker PROVE PlaceAt(w)'
          BY DEF PlaceInv
        <4>1. PlaceAt(w)
          BY DEF PlaceInv
        <4>2. NumFilled(w)' = NumFilled(w) /\ NumPending(w)' = NumPending(w)
          BY <2>0, <2>a DEF NumFilled, NumPending, Unfilled
        <4> QED
          BY <2>0, <2>a, <4>1, <4>2, SamePlace
      <3> QED
        BY <3>2, <3>3, <3>4, <3>5
    <2>b. ASSUME mpc' = "lock", ooms' = ooms,
                 assigned' = [assigned EXCEPT ![last_thread] = Append(@, cfd)]
          PROVE  TypeOK' /\ TurnInv' /\ OnceInv' /\ (Small => PlaceInv')
      <3>1. /\ assigned' \in [Worker -> Seq(Fd)] /\ n \in Nat
            /\ Len(assigned'[last_thread]) = n + 1
            /\ \A i \in 1..n : assigned'[last_thread][i] = assigned[last_thread][i]
            /\ assigned'[last_thread][n + 1] = cfd
            /\ \A v \in Worker : v # last_thread => assigned'[v] = assigned[v]
        <4> HIDE DEF PushAlloc
        <4> QED
          BY <2>0, <2>b, AppendAt
      <3>2. TypeOK'
        BY <2>b, <3>1 DEF TypeOK, MasterPC
      <3>3. TurnInv'
        <4>1. \A w \in Worker : Got(w)' = Got(w)
          BY <2>0, <2>b, <3>1 DEF Got
        <4> QED
          BY <2>0, <2>b, <4>1 DEF TurnInv
      <3>4. OnceInv'
        <4>1. cfd \in open
          BY <2>0 DEF MasterInv
        <4>2. ASSUME NEW w \in Worker, NEW k \in Kept(w)'
              PROVE  \/ /\ w = last_thread /\ k = n + 1 /\ assigned'[w][k] = cfd
                        /\ k = Len(assigned'[w])
                     \/ /\ k \in Kept(w) /\ assigned'[w][k] = assigned[w][k]
                        /\ assigned[w][k] # cfd /\ assigned[w][k] \in open
          <5>1. CASE k \in Kept(w)
            <6>1. assigned'[w][k] = assigned[w][k]
              BY <3>1, <5>1 DEF Kept
            <6> QED
              BY <2>0, <5>1, <6>1 DEF OnceInv
          <5>2. CASE k \notin Kept(w)
            <6>1. w = last_thread /\ k = n + 1
              BY <2>0, <3>1, <5>2 DEF Kept
            <6> QED
              BY <3>1, <6>1
          <5> QED
            BY <5>1, <5>2
        <4>3. ASSUME NEW w \in Worker, NEW k \in Kept(w)'
              PROVE  /\ assigned'[w][k] \in open'
                     /\ assigned'[w][k] = cfd' =>
                           mpc' # "alloc" /\ w = last_thread' /\ k = Len(assigned'[w])
          BY <2>0, <2>b, <4>1, <4>2
        <4>4. ASSUME NEW v \in Worker, NEW w \in Worker,
                     NEW k \in Kept(v)', NEW l \in Kept(w)',
                     assigned'[v][k] = assigned'[w][l]
              PROVE  v = w /\ k = l
          BY <4>2, <4>4 DEF OnceInv
        <4> QED
          BY <4>3, <4>4 DEF OnceInv
      <3>5. ASSUME Small PROVE PlaceInv'
        <4> USE <3>5
        <4>1. ASSUME NEW w \in Worker, w # last_thread
              PROVE  /\ assigned'[w] = assigned[w] /\ NumTaken(w)' = NumTaken(w)
                     /\ NumFilled(w)' = NumFilled(w) /\ NumPending(w)' = NumPending(w)
          BY <2>0, <2>b, <3>1, <4>1 DEF NumTaken, NumFilled, NumPending, Unfilled
        <4>2. /\ NumTaken(last_thread)' = NumTaken(last_thread)
              /\ NumFilled(last_thread)' = Len(queue[last_thread])
              /\ NumFilled(last_thread) = Len(queue[last_thread])
              /\ NumPending(last_thread)' = 1 /\ NumPending(last_thread) = 0
          BY <2>0, <2>b DEF NumTaken, NumFilled, NumPending, Unfilled
        <4>3. \A w \in Worker : /\ Len(base[w]) \in Nat /\ Len(queue[w]) \in Nat
                                /\ NumTaken(w) \in {0, 1}
          BY DEF TypeOK, NumTaken
        <4> HIDE DEF PushAlloc
        <4>4. ASSUME NEW w \in Worker, w # last_thread PROVE PlaceAt(w)'
          BY <2>0, <4>1, <4>4 DEF PlaceInv, PlaceAt
        <4>5. PlaceAt(last_thread)'
          <5> DEFINE w == last_thread
                     b == Len(base[w])
                     t == NumTaken(w)
                     f == Len(queue[w])
          <5>1. /\ w \in Worker /\ b \in Nat /\ t \in {0, 1} /\ f \in Nat
                /\ n = b + t + f
            BY <2>0, <4>2, <4>3 DEF PlaceInv, PlaceAt
          <5>2. /\ \A i \in 1..b : base[w][i] = assigned[w][i]
                /\ t = 1 => hand[w] = assigned[w][b + 1]
                /\ \A i \in 1..f : queue[w][i] = assigned[w][b + t + i]
                /\ wpc[w] \in {"wait", "lock", "pop"} => hand[w] = None
            BY <2>0, <4>2 DEF PlaceInv, PlaceAt
          <5>3. /\ \A i \in 1..b : base[w][i] = assigned'[w][i]
                /\ t = 1 => hand[w] = assigned'[w][b + 1]
                /\ \A i \in 1..f : queue[w][i] = assigned'[w][b + t + i]
            <6> HIDE DEF b, t, f
            <6>1. \A i \in 1..b : i \in 1..n
              BY <5>1
            <6>2. t = 1 => b + 1 \in 1..n
              BY <5>1
            <6>3. \A i \in 1..f : b + t + i \in 1..n
              BY <5>1
            <6> QED
              BY <3>1, <5>2, <6>1, <6>2, <6>3
          <5>4. Len(assigned'[w]) = b + t + f + 1 /\ cfd = assigned'[w][Len(assigned'[w])]
            BY <3>1, <5>1
          <5> QED
            BY <2>0, <4>2, <5>2, <5>3, <5>4 DEF PlaceAt
        <4> QED
          BY <2>0, <4>4, <4>5 DEF PlaceInv
      <3> QED
        BY <3>2, <3>3, <3>4, <3>5
    <2>c. TypeOK' /\ TurnInv' /\ OnceInv' /\ (Small => PlaceInv')
      BY <2>a, <2>b
    <2>2. LockInv'
      <3>1. /\ UNCHANGED <<mutex, wpc, last_thread>> /\ (ooms' = 0 => ooms = 0)
            /\ {mpc, mpc'} \cap {"link", "init", "unlock"} = {}
        BY DEF TypeOK
      <3> HIDE DEF PushAlloc
      <3> QED
        BY <3>1 DEF LockInv
    <2>3. MasterInv'
      BY DEF TypeOK, MasterInv, Unfilled
    <2>4. StepInv'
      BY DEF TypeOK, StepInv, Reading, Unwritten
    <2> QED
      BY <2>c, <2>2, <2>3, <2>4
  <1>3. CASE PushLock
    <2> USE <1>3 DEF PushLock, MasterStep, workerVars
    <2>1. TypeOK'
      BY DEF TypeOK, MasterPC, PopPC
    <2>2. LockInv'
      <3>1. last_thread \in Worker /\ mutex \in [Worker -> Worker \cup {Master, None}]
        BY DEF TypeOK, MasterInv
      <3> QED
        BY <3>1, Basics DEF LockInv
    <2>3. MasterInv'
      BY DEF TypeOK, MasterInv, Unfilled
    <2>4. StepInv'
      BY DEF TypeOK, StepInv, Reading, Unwritten
    <2>5. TurnInv'
      BY DEF TypeOK, TurnInv, Got
    <2>6. OnceInv'
      BY OnceStays
    <2>7. Small => PlaceInv'
      <3> SUFFICES ASSUME Small, NEW v \in Worker PROVE PlaceAt(v)'
        BY DEF PlaceInv
      <3>1. PlaceAt(v)
        BY DEF PlaceInv
      <3>2. NumFilled(v)' = NumFilled(v) /\ NumPending(v)' = NumPending(v)
        BY DEF NumFilled, NumPending, Unfilled
      <3>3. wpc'[v] = wpc[v] \/ hand[v] = None
        BY <3>1 DEF PlaceAt, TypeOK
      <3> QED
        BY <3>1, <3>2, <3>3, SamePlace
    <2> QED
      BY <2>1, <2>2, <2>3, <2>4, <2>5, <2>6, <2>7
  <1>4. CASE PushLink
    <2> USE <1>4 DEF PushLink, MasterStep, workerVars
    <2>0. /\ mpc = "link" /\ mpc' = "init" /\ last_thread \in Worker
          /\ queue \in [Worker -> Seq(Fd \cup {Empty})]
          /\ UNCHANGED <<last_thread, cfd, assigned, wpc, hand, base>>
      BY DEF TypeOK, MasterInv
    <2> DEFINE n == Len(queue[last_thread])
    <2>a. /\ queue' \in [Worker -> Seq(Fd \cup {Empty})] /\ n \in Nat
          /\ Len(queue'[last_thread]) = n + 1
          /\ \A i \in 1..n : queue'[last_thread][i] = queue[last_thread][i]
          /\ queue'[last_thread][n + 1] = Empty
          /\ \A v \in Worker : v # last_thread => queue'[v] = queue[v]
      <3>1. queue' = [queue EXCEPT ![last_thread] = Append(@, Empty)]
        OBVIOUS
      <3> HIDE DEF PushLink
      <3> QED
        BY <2>0, <3>1, AppendAt
    <2>1. TypeOK'
      BY <2>a DEF TypeOK, MasterPC
    <2>2. LockInv'
      BY DEF TypeOK, LockInv
    <2>3. MasterInv'
      <3>1. open' = open /\ \A w \in Worker : Len(queue[w]) \in Nat
        BY <2>0
      <3>2. ASSUME NEW w \in Worker, NEW k \in 1..Len(queue'[w])
            PROVE  queue'[w][k] = Empty <=> k = Len(queue'[w]) /\ Unfilled(w)'
        <4>1. \A l \in 1..Len(queue[w]) : queue[w][l] # Empty
          BY <2>0 DEF MasterInv, Unfilled
        <4> HIDE DEF PushLink
        <4> QED
          BY <2>0, <2>a, <3>1, <4>1 DEF Unfilled
      <3> HIDE DEF PushLink
      <3> QED
        BY <2>0, <2>a, <3>1, <3>2 DEF MasterInv, Unfilled
    <2>4. StepInv'
      BY DEF TypeOK, StepInv, Reading, Unwritten
    <2>5. TurnInv'
      BY DEF TypeOK, TurnInv, Got
    <2>6. OnceInv'
      BY OnceStays
    <2>7. ASSUME Small PROVE PlaceInv'
      <3> USE <2>7
      <3>1. ASSUME NEW w \in Worker, w # last_thread PROVE PlaceAt(w)'
        <4>1. PlaceAt(w)
          BY DEF PlaceInv
        <4>2. NumFilled(w)' = NumFilled(w) /\ NumPending(w)' = NumPending(w)
          BY <2>0, <2>a, <3>1 DEF NumFilled, NumPending, Unfilled
        <4> QED
          BY <2>0, <2>a, <3>1, <4>1, <4>2, SamePlace
      <3>2. PlaceAt(last_thread)
        BY <2>0 DEF PlaceInv
      <3>3. /\ NumTaken(last_thread)' = NumTaken(last_thread)
            /\ NumFilled(last_thread)' = n /\ NumFilled(last_thread) = n
            /\ NumPending(last_thread)' = 1 /\ NumPending(last_thread) = 1
        BY <2>0, <2>a DEF NumTaken, NumFilled, NumPending, Unfilled
      <3>4. Len(base[last_thread]) \in Nat /\ NumTaken(last_thread) \in {0, 1}
        BY <2>0 DEF TypeOK, NumTaken
      <3>5. PlaceAt(last_thread)'
        <4> HIDE DEF PushLink
        <4> QED
          BY <2>0, <2>a, <3>2, <3>3, <3>4 DEF PlaceAt
      <3> QED
        BY <2>0, <3>1, <3>5 DEF PlaceInv
    <2> QED
      BY <2>1, <2>2, <2>3, <2>4, <2>5, <2>6, <2>7
  <1>5. CASE PushInit
    <2> USE <1>5 DEF PushInit, MasterStep, workerVars
    <2>0. /\ mpc = "init" /\ mpc' = "unlock" /\ last_thread \in Worker
          /\ cfd \in Fd /\ queue \in [Worker -> Seq(Fd \cup {Empty})]
          /\ UNCHANGED <<last_thread, cfd, assigned, wpc, hand, base>>
      BY Basics DEF TypeOK, MasterInv
    <2> DEFINE q == queue[last_thread]
               n == Len(q)
    <2>a. /\ queue' \in [Worker -> Seq(Fd \cup {Empty})] /\ n \in Nat /\ n > 0
          /\ Len(queue'[last_thread]) = n
          /\ \A i \in 1..n-1 : queue'[last_thread][i] = queue[last_thread][i]
          /\ queue'[last_thread][n] = cfd
          /\ \A v \in Worker : v # last_thread => queue'[v] = queue[v]
      <3>1. q \in Seq(Fd \cup {Empty}) /\ n \in Nat /\ n > 0
        BY <2>0 DEF MasterInv, Unfilled
      <3>2. /\ [q EXCEPT ![n] = cfd] \in Seq(Fd \cup {Empty})
            /\ Len([q EXCEPT ![n] = cfd]) = n
            /\ \A i \in 1..n-1 : [q EXCEPT ![n] = cfd][i] = q[i]
            /\ [q EXCEPT ![n] = cfd][n] = cfd
        <4> HIDE DEF q, n
        <4> QED
          BY <2>0, <3>1, ExceptLast DEF n
      <3>3. queue' = [queue EXCEPT ![last_thread] = [q EXCEPT ![n] = cfd]]
        OBVIOUS
      <3> QED
        BY <2>0, <3>1, <3>2, <3>3
    <2>1. TypeOK'
      BY <2>a DEF TypeOK, MasterPC
    <2>2. LockInv'
      BY DEF TypeOK, LockInv
    <2>3. MasterInv'
      <3>1. \A w \in Worker : \A k \in 1..Len(queue'[w]) : queue'[w][k] # Empty
        <4>1. ASSUME NEW k \in 1..n PROVE queue'[last_thread][k] # Empty
          BY <2>0, <2>a, Basics DEF MasterInv, Unfilled
        <4>2. ASSUME NEW w \in Worker, w # last_thread, NEW k \in 1..Len(queue[w])
              PROVE  queue[w][k] # Empty
          BY <2>0, <4>2 DEF MasterInv, Unfilled
        <4> QED
          BY <2>a, <4>1, <4>2
      <3> QED
        BY <2>0, <3>1 DEF MasterInv, Unfilled
    <2>4. StepInv'
      BY DEF TypeOK, StepInv, Reading, Unwritten
    <2>5. TurnInv'
      BY DEF TypeOK, TurnInv, Got
    <2>6. OnceInv'
      BY OnceStays
    <2>7. ASSUME Small PROVE PlaceInv'
      <3> USE <2>7
      <3>1. ASSUME NEW w \in Worker, w # last_thread PROVE PlaceAt(w)'
        <4>1. PlaceAt(w)
          BY DEF PlaceInv
        <4>2. NumFilled(w)' = NumFilled(w) /\ NumPending(w)' = NumPending(w)
          BY <2>0, <2>a, <3>1 DEF NumFilled, NumPending, Unfilled
        <4> QED
          BY <2>0, <2>a, <3>1, <4>1, <4>2, SamePlace
      <3>2. PlaceAt(last_thread)
        BY <2>0 DEF PlaceInv
      <3>3. /\ NumTaken(last_thread)' = NumTaken(last_thread)
            /\ NumFilled(last_thread)' = n /\ NumFilled(last_thread) = n - 1
            /\ NumPending(last_thread)' = 0 /\ NumPending(last_thread) = 1
        BY <2>0, <2>a DEF NumTaken, NumFilled, NumPending, Unfilled
      <3>4. Len(base[last_thread]) \in Nat /\ NumTaken(last_thread) \in {0, 1}
        BY <2>0 DEF TypeOK, NumTaken
      <3>5. PlaceAt(last_thread)'
        <4> DEFINE b == Len(base[last_thread])
                   t == NumTaken(last_thread)
                   a == assigned[last_thread]
        <4> HIDE DEF PushInit, q, n
        <4>1. n \in Nat /\ n > 0 /\ b \in Nat /\ t \in {0, 1}
          BY <2>a, <3>4
        <4>2. Len(a) = b + t + n
          <5>1. Len(a) = b + t + (n - 1) + 1
            BY <3>2, <3>3 DEF PlaceAt
          <5> QED
            BY <4>1, <5>1
        <4>3. cfd = a[b + t + n]
          BY <3>2, <3>3, <4>2 DEF PlaceAt
        <4>4. \A i \in 1..n-1 : queue[last_thread][i] = a[b + t + i]
          BY <3>2, <3>3 DEF PlaceAt
        <4>5. \A i \in 1..n : queue'[last_thread][i] = a[b + t + i]
          <5> TAKE i \in 1..n
          <5>1. i = n \/ i \in 1..n-1
            BY <4>1
          <5> HIDE DEF b, t, a
          <5> QED
            BY <2>a, <4>3, <4>4, <5>1
        <4>6. /\ wpc'[last_thread] \in {"wait", "lock", "pop"} => hand'[last_thread] = None
              /\ \A i \in 1..b : base'[last_thread][i] = a[i]
              /\ t = 1 => hand'[last_thread] = a[b + 1]
          BY <2>0, <3>2 DEF PlaceAt
        <4>7. Len(a) = b + t + n + 0
          BY <4>1, <4>2
        <4> QED
          BY <2>0, <3>3, <4>5, <4>6, <4>7 DEF PlaceAt
      <3> QED
        BY <2>0, <3>1, <3>5 DEF PlaceInv
    <2> QED
      BY <2>1, <2>2, <2>3, <2>4, <2>5, <2>6, <2>7
  <1>6. CASE PushUnlock
    <2> USE <1>6 DEF PushUnlock, MasterStep, workerVars
    <2>1. TypeOK'
      BY DEF TypeOK, MasterPC, PopPC
    <2>2. LockInv'
      <3>1. last_thread \in Worker /\ mutex \in [Worker -> Worker \cup {Master, None}]
        BY DEF TypeOK, MasterInv
      <3> QED
        BY <3>1, Basics DEF LockInv
    <2>3. MasterInv'
      BY DEF TypeOK, MasterInv, Unfilled
    <2>4. StepInv'
      BY DEF TypeOK, StepInv, Reading, Unwritten
    <2>5. TurnInv'
      BY DEF TypeOK, TurnInv, Got
    <2>6. OnceInv'
      BY OnceStays
    <2>7. Small => PlaceInv'
      <3> SUFFICES ASSUME Small, NEW v \in Worker PROVE PlaceAt(v)'
        BY DEF PlaceInv
      <3>1. PlaceAt(v)
        BY DEF PlaceInv
      <3>2. NumFilled(v)' = NumFilled(v) /\ NumPending(v)' = NumPending(v)
        BY DEF NumFilled, NumPending, Unfilled
      <3>3. wpc'[v] = wpc[v] \/ hand[v] = None
        BY <3>1 DEF PlaceAt, TypeOK
      <3> QED
        BY <3>1, <3>2, <3>3, SamePlace
    <2> QED
      BY <2>1, <2>2, <2>3, <2>4, <2>5, <2>6, <2>7
  <1>7. CASE WriteByte
    <2> USE <1>7 DEF WriteByte, MasterStep, workerVars
    <2>1. TypeOK'
      <3>1. last_thread \in Worker /\ LastIf(cfd) \subseteq Nat
        BY DEF TypeOK, MasterInv, LastIf
      <3>2. /\ \/ failed' = failed
               \/ failed' = [failed EXCEPT ![last_thread] = @ \cup LastIf(cfd)]
            /\ open' = open \/ open' = open \ {cfd}
            /\ fails' = fails \/ fails' = fails + 1
            /\ pipe' = pipe \/ pipe' = [pipe EXCEPT ![last_thread] = @ + 1]
        OBVIOUS
      <3>3. /\ UNCHANGED <<last_thread, queue, mutex, wpc, hand, base, conn_num, assigned,
                           accepted, ooms>>
            /\ mpc' = "accept" /\ cfd' = None
        OBVIOUS
      <3> HIDE DEF WriteByte
      <3>4. failed' \in [Worker -> SUBSET Nat]
        <4>1. failed \in [Worker -> SUBSET Nat]
          BY DEF TypeOK
        <4>2. failed[last_thread] \cup LastIf(cfd) \in SUBSET Nat
          BY <3>1, <4>1
        <4> QED
          BY <3>2, <4>1, <4>2, Zenon
      <3>5. pipe' \in [Worker -> Nat]
        <4>1. pipe \in [Worker -> Nat]
          BY DEF TypeOK
        <4>2. pipe[last_thread] + 1 \in Nat
          BY <3>1, <4>1
        <4> QED
          BY <3>2, <4>1, <4>2
      <3> QED
        BY <3>2, <3>3, <3>4, <3>5 DEF TypeOK, MasterPC
    <2>2. LockInv'
      BY DEF TypeOK, LockInv
    <2>3. MasterInv'
      BY DEF TypeOK, MasterInv, Unfilled
    <2>4. StepInv'
      <3>1. /\ last_thread \in Worker
            /\ \A w \in Worker : /\ Len(queue[w]) \in Nat /\ pipe[w] \in Nat
                                 /\ pipe'[w] \in {pipe[w], pipe[w] + Unwritten(w)}
                                 /\ Unwritten(w) \in {0, 1} /\ Reading(w) \in {0, 1}
        BY DEF TypeOK, MasterInv, Unwritten, Reading
      <3>2. \A w \in Worker : Unwritten(w)' = 0 /\ Reading(w)' = Reading(w)
        BY DEF Unwritten, Reading
      <3> HIDE DEF WriteByte
      <3>3. ooms' = ooms /\ queue' = queue
        BY <1>7 DEF WriteByte
      <3> QED
        BY <3>1, <3>2, <3>3 DEF StepInv
    <2>5. TurnInv'
      BY DEF TypeOK, TurnInv, Got
    <2>6. OnceInv'
      <3>1. CASE UNCHANGED <<open, failed>>
        <4>1. \A w \in Worker : Kept(w)' = Kept(w)
          BY <3>1 DEF Kept
        <4>2. \A w \in Worker : \A k \in Kept(w) : assigned[w][k] # None
          BY <4>1, Basics, SMTT(60) DEF TypeOK, Kept
        <4> QED
          BY <3>1, <4>1, <4>2 DEF OnceInv
      <3>2. CASE /\ open' = open \ {cfd}
                 /\ failed' = [failed EXCEPT ![last_thread] = @ \cup LastIf(cfd)]
        <4>1. last_thread \in Worker
          BY DEF MasterInv
        <4>2. ASSUME NEW w \in Worker, NEW k \in Kept(w)'
              PROVE  /\ k \in Kept(w) /\ assigned[w][k] # cfd
                     /\ assigned[w][k] \in Fd
          <5>1. k \in Kept(w) /\ k \in 1..Len(assigned[w])
            BY <3>2, <4>1 DEF Kept, TypeOK
          <5>2. ASSUME assigned[w][k] = cfd PROVE FALSE
            <6>1. w = last_thread /\ k = Len(assigned[w])
              BY <5>1, <5>2 DEF OnceInv
            <6>2. k \in LastIf(cfd)
              BY <5>1, <5>2, <6>1 DEF LastIf
            <6>3. k \in failed'[w]
              BY <3>2, <4>1, <6>1, <6>2 DEF TypeOK
            <6> QED
              BY <6>3 DEF Kept
          <5> QED
            BY <5>1, <5>2 DEF TypeOK
        <4>3. ASSUME NEW w \in Worker, NEW k \in Kept(w)'
              PROVE  assigned'[w][k] \in open' /\ assigned'[w][k] # cfd'
          <5>1. assigned[w][k] \in open
            BY <4>2, <4>3 DEF OnceInv
          <5> QED
            BY <3>2, <4>2, <4>3, <5>1, Basics
        <4>4. ASSUME NEW v \in Worker, NEW w \in Worker,
                     NEW k \in Kept(v)', NEW l \in Kept(w)',
                     assigned'[v][k] = assigned'[w][l]
              PROVE  v = w /\ k = l
          BY <4>2, <4>4 DEF OnceInv
        <4> QED
          BY <4>3, <4>4 DEF OnceInv
      <3> QED
        BY <3>1, <3>2
    <2>7. Small => PlaceInv'
      <3> SUFFICES ASSUME Small, NEW v \in Worker PROVE PlaceAt(v)'
        BY DEF PlaceInv
      <3>0. UNCHANGED <<base, hand, queue, assigned, wpc>> /\ NumPending(v)' = 0
        BY DEF NumPending
      <3>1. PlaceAt(v)
        BY DEF PlaceInv
      <3>2. NumFilled(v)' = NumFilled(v) /\ NumPending(v)' = NumPending(v)
        BY DEF NumFilled, NumPending, Unfilled
      <3> QED
        BY <3>0, <3>1, <3>2, SamePlace
    <2> QED
      BY <2>1, <2>2, <2>3, <2>4, <2>5, <2>6, <2>7
  <1> QED
    BY <1>1, <1>2, <1>3, <1>4, <1>5, <1>6, <1>7 DEF MasterNext

\* Every step of a worker keeps the invariant.
LEMMA WorkerIInv ==
    ASSUME NEW w \in Worker, IInv, WorkerNext(w)
    PROVE  IInv'
  <1> USE DEF IInv
  <1>1. CASE ReadByte(w)
    <2> USE <1>1 DEF ReadByte, WorkerStep, masterVars
    <2>1. TypeOK'
      BY DEF TypeOK, MasterPC, PopPC
    <2>2. LockInv'
      BY DEF TypeOK, LockInv
    <2>3. MasterInv'
      BY DEF TypeOK, MasterInv, Unfilled
    <2>4. StepInv'
      BY DEF TypeOK, StepInv, Reading, Unwritten
    <2>5. TurnInv'
      BY DEF TypeOK, TurnInv, Got
    <2>6. OnceInv'
      BY OnceStays
    <2>7. Small => PlaceInv'
      <3> SUFFICES ASSUME Small, NEW v \in Worker PROVE PlaceAt(v)'
        BY DEF PlaceInv
      <3>1. PlaceAt(v)
        BY DEF PlaceInv
      <3>2. NumFilled(v)' = NumFilled(v) /\ NumPending(v)' = NumPending(v)
        BY DEF NumFilled, NumPending, Unfilled
      <3>3. wpc'[v] = wpc[v] \/ hand[v] = None
        BY <3>1 DEF PlaceAt, TypeOK
      <3> QED
        BY <3>1, <3>2, <3>3, SamePlace
    <2> QED
      BY <2>1, <2>2, <2>3, <2>4, <2>5, <2>6, <2>7
  <1>2. CASE PopLock(w)
    <2> USE <1>2 DEF PopLock, WorkerStep, masterVars
    <2>1. TypeOK'
      BY DEF TypeOK, MasterPC, PopPC
    <2>2. LockInv'
      <3>1. mutex \in [Worker -> Worker \cup {Master, None}]
        BY DEF TypeOK
      <3>2. \A v \in Worker : v # Master /\ v # None
        BY Basics
      <3> QED
        BY <3>1, <3>2, Basics DEF LockInv, TypeOK
    <2>3. MasterInv'
      BY DEF TypeOK, MasterInv, Unfilled
    <2>4. StepInv'
      BY DEF TypeOK, StepInv, Reading, Unwritten
    <2>5. TurnInv'
      BY DEF TypeOK, TurnInv, Got
    <2>6. OnceInv'
      BY OnceStays
    <2>7. Small => PlaceInv'
      <3> SUFFICES ASSUME Small, NEW v \in Worker PROVE PlaceAt(v)'
        BY DEF PlaceInv
      <3>1. PlaceAt(v)
        BY DEF PlaceInv
      <3>2. NumFilled(v)' = NumFilled(v) /\ NumPending(v)' = NumPending(v)
        BY DEF NumFilled, NumPending, Unfilled
      <3>3. wpc'[v] = wpc[v] \/ hand[v] = None
        BY <3>1 DEF PlaceAt, TypeOK
      <3> QED
        BY <3>1, <3>2, <3>3, SamePlace
    <2> QED
      BY <2>1, <2>2, <2>3, <2>4, <2>5, <2>6, <2>7
  <1>3. CASE PopTake(w)
    <2> USE <1>3 DEF PopTake, WorkerStep, masterVars
    <2>0. /\ wpc[w] = "pop" /\ mutex[w] = w /\ wpc \in [Worker -> PopPC]
          /\ queue \in [Worker -> Seq(Fd \cup {Empty})]
          /\ UNCHANGED <<last_thread, mpc, cfd, open, ooms, fails, assigned, failed, mutex,
                         pipe, base>>
      BY DEF LockInv, TypeOK
    <2> DEFINE q == queue[w]
    <2>a. ~Unfilled(w) /\ ~Unfilled(w)' /\ NumFilled(w) = Len(q)
      <3>1. ~(w = last_thread /\ mpc \in {"link", "init", "unlock"})
        BY <2>0, Basics DEF LockInv
      <3> QED
        BY <2>0, <3>1 DEF Unfilled, NumFilled
    <2>b. /\ q \in Seq(Fd \cup {Empty}) /\ Len(q) \in Nat
          /\ \A k \in 1..Len(q) : q[k] \in Fd /\ q[k] # Empty
      <3>1. \A k \in 1..Len(q) : q[k] \in Fd \cup {Empty} /\ q[k] # Empty
        BY <2>0, <2>a DEF MasterInv
      <3> QED
        BY <2>0, <3>1
    <2>c. \A v \in Worker : v # w => queue'[v] = queue[v] /\ hand'[v] = hand[v]
                                    /\ wpc'[v] = wpc[v]
      BY DEF TypeOK
    <2>d. CASE q = << >>
      <3>1. /\ wpc' = [wpc EXCEPT ![w] = "adopt"] /\ hand' = [hand EXCEPT ![w] = None]
            /\ queue' = queue
        BY <2>0, <2>d
      <3>2. ooms # 0
        <4>1. ooms = 0 => Len(q) >= 1
          <5>1. Reading(w) = 1 /\ pipe[w] \in Nat /\ Unwritten(w) \in {0, 1}
            BY <2>0 DEF Reading, TypeOK, Unwritten
          <5> QED
            BY <2>b, <5>1 DEF StepInv
        <4> QED
          BY <2>d, <4>1
      <3> HIDE DEF PopTake
      <3>3. TypeOK' /\ MasterInv' /\ StepInv' /\ TurnInv' /\ OnceInv'
        <4>1. TypeOK'
          BY <1>3, <2>0, <3>1 DEF PopTake, TypeOK, PopPC, masterVars
        <4>2. MasterInv'
          BY <2>0, <3>1 DEF MasterInv, Unfilled
        <4>3. StepInv' /\ TurnInv'
          BY <2>0, <3>2 DEF StepInv, TurnInv
        <4>4. OnceInv'
          BY <2>0, OnceStays
        <4> QED
          BY <4>1, <4>2, <4>3, <4>4
      <3>4. LockInv'
        BY <2>0, <3>1, <3>2 DEF LockInv, TypeOK
      <3>5. ASSUME Small PROVE PlaceInv'
        <4> SUFFICES ASSUME NEW v \in Worker PROVE PlaceAt(v)'
          BY DEF PlaceInv
        <4>1. PlaceAt(v) /\ hand[w] = None
          BY <2>0, <3>5 DEF PlaceInv, PlaceAt
        <4>2. NumFilled(v)' = NumFilled(v) /\ NumPending(v)' = NumPending(v)
          BY <2>0, <3>1 DEF NumFilled, NumPending, Unfilled
        <4>3. hand' = hand
          BY <3>1, <4>1 DEF TypeOK
        <4>4. wpc'[v] = wpc[v] \/ hand[v] = None
          BY <2>c, <4>1
        <4> QED
          BY <2>0, <3>1, <4>1, <4>2, <4>3, <4>4, SamePlace
      <3> QED
        BY <3>3, <3>4, <3>5
    <2>e. CASE q # << >>
      <3>1. /\ Len(q) > 0 /\ Head(q) = q[1] /\ q[1] \in Fd /\ q[1] # None /\ q[1] # Empty
            /\ Tail(q) \in Seq(Fd \cup {Empty}) /\ Len(Tail(q)) = Len(q) - 1
            /\ \A k \in 1..Len(q)-1 : Tail(q)[k] = q[k + 1]
        <4>1. Len(q) > 0 /\ 1 \in 1..Len(q) /\ Head(q) = q[1]
          BY <2>b, <2>e
        <4>2. q[1] \in Fd /\ q[1] # Empty /\ q[1] # None
          BY <2>b, <4>1, Basics
        <4> HIDE DEF q
        <4> QED
          BY <2>b, <2>e, <4>1, <4>2, HeadTailProperties
      <3>2. /\ wpc' = [wpc EXCEPT ![w] = "unlock"] /\ hand' = [hand EXCEPT ![w] = q[1]]
            /\ queue' = [queue EXCEPT ![w] = Tail(q)]
        BY <2>0, <2>e, <3>1
      <3> HIDE DEF PopTake
      <3>3. wpc'[w] = "unlock" /\ hand'[w] = q[1] /\ queue'[w] = Tail(q)
        BY <2>0, <3>2 DEF TypeOK
      <3> HIDE DEF q
      <3>4. TypeOK'
        <4>1. wpc' \in [Worker -> PopPC]
          BY <2>0, <3>2 DEF PopPC
        <4>2. hand' \in [Worker -> Fd \cup {None}]
          BY <3>1, <3>2 DEF TypeOK
        <4>3. queue' \in [Worker -> Seq(Fd \cup {Empty})]
          BY <2>0, <3>1, <3>2
        <4>4. UNCHANGED <<masterVars, mutex, pipe, base, conn_num>>
          BY <1>3 DEF PopTake
        <4> QED
          BY <4>1, <4>2, <4>3, <4>4 DEF TypeOK, masterVars
      <3>5. LockInv'
        BY <2>0, <3>2 DEF LockInv, TypeOK
      <3>6. MasterInv'
        <4>1. \A v \in Worker : Unfilled(v)' = Unfilled(v)
          BY <2>0 DEF Unfilled
        <4>2. \A k \in 1..Len(queue'[w]) : queue'[w][k] # Empty
          <5> TAKE k \in 1..Len(queue'[w])
          <5>1. k \in 1..Len(q)-1 /\ k + 1 \in 1..Len(q)
            BY <2>b, <3>1, <3>3
          <5> QED
            BY <2>b, <3>1, <3>3, <5>1
        <4>3. \A v \in Worker : Unfilled(v) => Len(queue'[v]) > 0
          BY <2>a, <2>c DEF MasterInv
        <4>4. \A v \in Worker : \A k \in 1..Len(queue'[v]) :
                 queue'[v][k] = Empty <=> k = Len(queue'[v]) /\ Unfilled(v)
          BY <2>a, <2>c, <4>2 DEF MasterInv
        <4> QED
          BY <2>0, <4>1, <4>3, <4>4 DEF MasterInv
      <3>7. StepInv'
        <4> SUFFICES ASSUME ooms = 0, NEW v \in Worker
                     PROVE  Len(queue'[v]) >= pipe[v] + Reading(v)' + Unwritten(v)
          BY <2>0 DEF StepInv, Unwritten
        <4>1. /\ Len(queue[v]) >= pipe[v] + Reading(v) + Unwritten(v)
              /\ Unwritten(v) \in {0, 1} /\ pipe[v] \in Nat
          BY DEF StepInv, Unwritten, TypeOK
        <4>2. CASE v = w
          <5>1. Reading(w) = 1 /\ Reading(w)' = 0
            BY <2>0, <3>3 DEF Reading
          <5>2. Len(queue'[w]) = Len(q) - 1 /\ Len(queue[w]) = Len(q)
            BY <3>1, <3>3 DEF q
          <5>3. Len(q) \in Nat
            BY <2>b
          <5> QED
            BY <4>1, <4>2, <5>1, <5>2, <5>3
        <4>3. CASE v # w
          BY <2>c, <4>1, <4>3 DEF Reading
        <4> QED
          BY <4>2, <4>3
      <3>8. TurnInv' /\ OnceInv'
        <4>1. \A v \in Worker : Got(v)' = Got(v)
          BY <2>0 DEF Got
        <4>2. TurnInv'
          BY <2>0, <4>1 DEF TurnInv
        <4>3. OnceInv'
          BY <2>0, OnceStays
        <4> QED
          BY <4>2, <4>3
      <3>9. ASSUME Small PROVE PlaceInv'
        <4>1. ASSUME NEW v \in Worker, v # w PROVE PlaceAt(v)'
          <5>1. PlaceAt(v)
            BY <3>9 DEF PlaceInv
          <5>2. NumFilled(v)' = NumFilled(v) /\ NumPending(v)' = NumPending(v)
            BY <2>0, <2>c, <4>1 DEF NumFilled, NumPending, Unfilled
          <5> QED
            BY <2>0, <2>c, <4>1, <5>1, <5>2, SamePlace
        <4>2. PlaceAt(w)'
          <5> DEFINE b == Len(base[w])
                     a == assigned[w]
          <5>1. /\ PlaceAt(w) /\ hand[w] = None /\ NumTaken(w) = 0 /\ NumTaken(w)' = 1
                /\ b \in Nat
            BY <2>0, <3>1, <3>3, <3>9 DEF PlaceInv, PlaceAt, NumTaken, TypeOK
          <5>2. /\ NumFilled(w)' = Len(q) - 1 /\ NumPending(w)' = NumPending(w)
                /\ NumPending(w) \in {0, 1}
            BY <2>0, <2>a, <3>1, <3>3 DEF NumFilled, NumPending
          <5>3. /\ Len(a) = b + 0 + Len(q) + NumPending(w)
                /\ \A i \in 1..Len(q) : q[i] = a[b + 0 + i]
                /\ \A i \in 1..b : base[w][i] = a[i]
                /\ NumPending(w) = 1 => cfd = a[Len(a)]
            BY <2>a, <5>1 DEF PlaceAt, q
          <5>4. Len(a) = b + 1 + (Len(q) - 1) + NumPending(w)
            BY <2>b, <5>1, <5>2, <5>3
          <5>5. q[1] = a[b + 1]
            <6>1. 1 \in 1..Len(q) /\ b + 0 + 1 = b + 1
              BY <2>b, <3>1, <5>1
            <6> HIDE DEF a, b
            <6> QED
              BY <5>3, <6>1
          <5>6. \A i \in 1..Len(q)-1 : Tail(q)[i] = a[b + 1 + i]
            <6> TAKE i \in 1..Len(q)-1
            <6> HIDE DEF a, b
            <6>1. i \in Int /\ i >= 1 /\ i <= Len(q) - 1 /\ b \in Nat /\ Len(q) \in Nat
              BY <2>b, <5>1
            <6>2. i + 1 \in 1..Len(q) /\ b + 0 + (i + 1) = b + 1 + i
              BY <6>1
            <6> QED
              BY <3>1, <5>3, <6>2
          <5> QED
            BY <2>0, <3>3, <5>1, <5>2, <5>3, <5>4, <5>5, <5>6 DEF PlaceAt
        <4> QED
          BY <4>1, <4>2 DEF PlaceInv
      <3> QED
        BY <3>4, <3>5, <3>6, <3>7, <3>8, <3>9
    <2> QED
      BY <2>d, <2>e
  <1>4. CASE PopUnlock(w)
    <2> USE <1>4 DEF PopUnlock, WorkerStep, masterVars
    <2>1. TypeOK'
      BY DEF TypeOK, MasterPC, PopPC
    <2>2. LockInv'
      <3>1. mutex \in [Worker -> Worker \cup {Master, None}]
        BY DEF TypeOK
      <3>2. \A v \in Worker : v # Master /\ v # None
        BY Basics
      <3> QED
        BY <3>1, <3>2, Basics DEF LockInv, TypeOK
    <2>3. MasterInv'
      BY DEF TypeOK, MasterInv, Unfilled
    <2>4. StepInv'
      BY DEF TypeOK, StepInv, Reading, Unwritten
    <2>5. TurnInv'
      BY DEF TypeOK, TurnInv, Got
    <2>6. OnceInv'
      BY OnceStays
    <2>7. Small => PlaceInv'
      <3> SUFFICES ASSUME Small, NEW v \in Worker PROVE PlaceAt(v)'
        BY DEF PlaceInv
      <3>1. PlaceAt(v)
        BY DEF PlaceInv
      <3>2. NumFilled(v)' = NumFilled(v) /\ NumPending(v)' = NumPending(v)
        BY DEF NumFilled, NumPending, Unfilled
      <3>3. CASE v # w
        BY <3>1, <3>2, <3>3, SamePlace DEF TypeOK
      <3>4. CASE v = w
        <4>1. wpc'[w] = "adopt" /\ NumTaken(w)' = NumTaken(w)
          BY DEF TypeOK, NumTaken
        <4> QED
          BY <3>1, <3>2, <3>4, <4>1 DEF PlaceAt
      <3> QED
        BY <3>3, <3>4
    <2> QED
      BY <2>1, <2>2, <2>3, <2>4, <2>5, <2>6, <2>7
  <1>5. CASE Adopt(w)
    <2> USE <1>5 DEF Adopt, WorkerStep, masterVars
    <2> DEFINE c == AsChar(hand[w])
    <2>0. /\ wpc[w] = "adopt" /\ c \in Int /\ base \in [Worker -> Seq(Int)]
          /\ hand[w] \in Fd \cup {None} /\ Len(base[w]) \in Nat
          /\ UNCHANGED <<last_thread, mpc, cfd, queue, assigned>>
      <3>1. hand[w] \in Fd \cup {None}
        BY DEF TypeOK
      <3>2. hand[w] \in Int
        BY <3>1, HandIsInt
      <3>3. base \in [Worker -> Seq(Int)] /\ base[w] \in Seq(Int)
        BY DEF TypeOK
      <3>4. c \in Int
        BY <3>2, AsCharFacts
      <3> QED
        BY <3>1, <3>3, <3>4
    <2>a. ASSUME c > 0
          PROVE  /\ base' \in [Worker -> Seq(Int)]
                 /\ Len(base'[w]) = Len(base[w]) + 1
                 /\ \A i \in 1..Len(base[w]) : base'[w][i] = base[w][i]
                 /\ base'[w][Len(base[w]) + 1] = c
                 /\ \A v \in Worker : v # w => base'[v] = base[v]
      <3>1. base' = [base EXCEPT ![w] = Append(@, c)]
        BY <2>0, <2>a
      <3> HIDE DEF Adopt, c
      <3> QED
        BY <2>0, <3>1, AppendAt
    <2>1. TypeOK'
      <3>1. base' \in [Worker -> Seq(Int)]
        BY <2>0, <2>a
      <3>2. conn_num' \in [Worker -> Nat]
        BY DEF TypeOK
      <3> QED
        BY <3>1, <3>2 DEF TypeOK, PopPC
    <2>2. LockInv'
      BY DEF TypeOK, LockInv
    <2>3. MasterInv'
      BY DEF TypeOK, MasterInv, Unfilled
    <2>4. StepInv'
      BY DEF TypeOK, StepInv, Reading, Unwritten
    <2>5. TurnInv'
      BY DEF TypeOK, TurnInv, Got
    <2>6. OnceInv'
      BY OnceStays
    <2>7. ASSUME Small PROVE PlaceInv'
      <3>1. ASSUME NEW v \in Worker, v # w PROVE PlaceAt(v)'
        <4>1. PlaceAt(v)
          BY <2>7 DEF PlaceInv
        <4>2. NumFilled(v)' = NumFilled(v) /\ NumPending(v)' = NumPending(v)
          BY <2>0 DEF NumFilled, NumPending, Unfilled
        <4>3. base'[v] = base[v] /\ hand'[v] = hand[v] /\ wpc'[v] = wpc[v]
          BY <3>1 DEF TypeOK
        <4> QED
          BY <2>0, <4>1, <4>2, <4>3, SamePlace
      <3>2. PlaceAt(w)'
        <4>1. /\ PlaceAt(w) /\ hand'[w] = None /\ NumTaken(w)' = 0
              /\ NumFilled(w)' = NumFilled(w) /\ NumPending(w)' = NumPending(w)
          BY <2>0, <2>7 DEF PlaceInv, NumTaken, NumFilled, NumPending, Unfilled, TypeOK
        <4>2. CASE hand[w] = None
          <5>1. base' = base /\ NumTaken(w) = 0
            BY <2>0, <4>2, AsCharFacts DEF NumTaken
          <5> QED
            BY <2>0, <4>1, <4>2, <5>1 DEF PlaceAt
        <4>3. CASE hand[w] # None
          <5>1. c = hand[w] /\ c > 0 /\ NumTaken(w) = 1
            BY <2>0, <2>7, <4>3, AsCharFacts DEF NumTaken
          <5> DEFINE b == Len(base[w])
                     a == assigned[w]
                     f == NumFilled(w)
          <5>2. /\ Len(base'[w]) = b + 1 /\ base'[w][b + 1] = hand[w]
                /\ \A i \in 1..b : base'[w][i] = base[w][i]
            BY <2>a, <5>1
          <5> HIDE DEF Adopt, c
          <5>3. /\ b \in Nat /\ Len(a) = b + 1 + f + NumPending(w)
                /\ \A i \in 1..b : base[w][i] = a[i]
                /\ hand[w] = a[b + 1]
                /\ \A i \in 1..f : queue[w][i] = a[b + 1 + i]
                /\ NumPending(w) = 1 => cfd = a[Len(a)]
            BY <2>0, <4>1, <5>1 DEF PlaceAt
          <5>4. \A i \in 1..b+1 : base'[w][i] = a[i]
            <6> TAKE i \in 1..b+1
            <6>1. i = b + 1 \/ i \in 1..b
              BY <5>3
            <6> HIDE DEF a, b
            <6> QED
              BY <5>2, <5>3, <6>1
          <5>5. f \in Int /\ NumPending(w) \in {0, 1}
            BY DEF NumFilled, NumPending, TypeOK
          <5>6. /\ Len(a) = (b + 1) + 0 + f + NumPending(w)
                /\ \A i \in 1..f : queue[w][i] = a[(b + 1) + 0 + i]
            <6>1. Len(a) = (b + 1) + 0 + f + NumPending(w)
              BY <5>3, <5>5
            <6>2. ASSUME NEW i \in 1..f PROVE queue[w][i] = a[(b + 1) + 0 + i]
              <7>1. (b + 1) + 0 + i = b + 1 + i
                BY <5>3, <5>5
              <7> HIDE DEF a, b, f
              <7> QED
                BY <5>3, <6>2, <7>1
            <6> QED
              BY <6>1, <6>2
          <5> QED
            BY <2>0, <4>1, <5>2, <5>3, <5>4, <5>6 DEF PlaceAt
        <4> QED
          BY <4>2, <4>3
      <3> QED
        BY <3>1, <3>2 DEF PlaceInv
    <2> QED
      BY <2>1, <2>2, <2>3, <2>4, <2>5, <2>6, <2>7
  <1> QED
    BY <1>1, <1>2, <1>3, <1>4, <1>5 DEF WorkerNext

-----------------------------------------------------------------------------
(* The theorems.                                                           *)

\* A sequence that goes on where another stops.
LEMMA GoesOn ==
    ASSUME NEW a \in Seq(Int), NEW s \in Seq(Int), NEW t \in Seq(Int),
           \A i \in 1..Len(s) : s[i] = a[i],
           \A i \in 1..Len(t) : t[i] = a[Len(s) + i]
    PROVE  /\ s \o t \in Seq(Int)
           /\ Len(s \o t) = Len(s) + Len(t)
           /\ \A i \in 1..Len(s \o t) : (s \o t)[i] = a[i]
  <1>1. /\ s \o t \in Seq(Int) /\ Len(s \o t) = Len(s) + Len(t)
        /\ \A i \in 1..Len(s) + Len(t) :
              (s \o t)[i] = IF i <= Len(s) THEN s[i] ELSE t[i - Len(s)]
    BY ConcatProperties
  <1>2. Len(s) \in Nat /\ Len(t) \in Nat
    OBVIOUS
  <1>3. ASSUME NEW i \in 1..Len(s) + Len(t) PROVE (s \o t)[i] = a[i]
    <2>1. CASE i <= Len(s)
      <3>1. i \in 1..Len(s)
        BY <1>2, <2>1
      <3> QED
        BY <1>1, <2>1, <3>1
    <2>2. CASE ~(i <= Len(s))
      <3>1. i - Len(s) \in 1..Len(t) /\ Len(s) + (i - Len(s)) = i
        BY <1>2, <2>2
      <3> QED
        BY <1>1, <2>2, <3>1
    <2> QED
      BY <2>1, <2>2
  <1> QED
    BY <1>1, <1>3

\* The filled part of a queue is the queue up to its unfilled node.
LEMMA FilledFacts ==
    ASSUME TypeOK, MasterInv, NEW w \in Worker
    PROVE  /\ Filled(w) \in Seq(Int) /\ Len(Filled(w)) = NumFilled(w)
           /\ \A i \in 1..NumFilled(w) : Filled(w)[i] = queue[w][i]
  <1> DEFINE q == queue[w]
  <1>1. q \in Seq(Fd \cup {Empty}) /\ Len(q) \in Nat
    BY DEF TypeOK
  <1>2. \A k \in 1..Len(q) : q[k] = Empty <=> k = Len(q) /\ Unfilled(w)
    BY DEF MasterInv
  <1>3. Unfilled(w) => Len(q) > 0
    BY DEF MasterInv
  <1>4. Fd \cup {Empty} \subseteq Int
    BY FdAssumption DEF Empty
  <1>5. q \in Seq(Int)
    BY <1>1, <1>4, SeqMonotonic
  <1>6. q # << >> <=> Len(q) > 0
    BY <1>1
  <1>7. CASE Unfilled(w)
    <2>1. q # << >> /\ Last(q) = Empty /\ Filled(w) = SubSeq(q, 1, Len(q) - 1)
      <3>1. q # << >> /\ q[Len(q)] = Empty
        BY <1>1, <1>2, <1>3, <1>6, <1>7
      <3> QED
        BY <3>1 DEF Last, Front, Filled
    <2>2. \A i \in 1..Len(q)-1 : q[i] \in Int
      BY <1>5
    <2>3. /\ SubSeq(q, 1, Len(q) - 1) \in Seq(Int)
          /\ Len(SubSeq(q, 1, Len(q) - 1)) = IF 1 <= Len(q) - 1 THEN Len(q) - 1 - 1 + 1 ELSE 0
          /\ \A i \in 1..Len(q) - 1 - 1 + 1 : SubSeq(q, 1, Len(q) - 1)[i] = q[1 + i - 1]
      <3> HIDE DEF q
      <3> QED
        BY <1>1, <2>2, SubSeqProperties
    <2>4. NumFilled(w) = Len(q) - 1
      BY <1>7 DEF NumFilled
    <2>5. \A i \in 1..Len(q) - 1 : SubSeq(q, 1, Len(q) - 1)[i] = q[i]
      <3> TAKE i \in 1..Len(q) - 1
      <3>1. i \in 1..Len(q) - 1 - 1 + 1 /\ 1 + i - 1 = i
        BY <1>1
      <3> HIDE DEF q
      <3> QED
        BY <2>3, <3>1
    <2>6. Len(SubSeq(q, 1, Len(q) - 1)) = Len(q) - 1
      <3>1. Len(q) \in Nat /\ Len(q) > 0
        BY <1>1, <1>3, <1>7
      <3>2. (IF 1 <= Len(q) - 1 THEN Len(q) - 1 - 1 + 1 ELSE 0) = Len(q) - 1
        BY <3>1
      <3> HIDE DEF q
      <3> QED
        BY <2>3, <3>2
    <2> QED
      BY <2>1, <2>3, <2>4, <2>5, <2>6
  <1>8. CASE ~Unfilled(w)
    <2>1. Filled(w) = q
      <3>1. q # << >> => q[Len(q)] # Empty
        BY <1>1, <1>2, <1>6, <1>8
      <3> QED
        BY <3>1 DEF Last, Filled
    <2>2. NumFilled(w) = Len(q)
      BY <1>8 DEF NumFilled
    <2> QED
      BY <1>5, <2>1, <2>2
  <1> QED
    BY <1>7, <1>8

\* What was meant for a worker is what has arrived, put together in order.
LEMMA PlacesInOrder ==
    ASSUME TypeOK, MasterInv, NEW w \in Worker, PlaceAt(w)
    PROVE  assigned[w] = base[w] \o Taken(w) \o Filled(w) \o Pending(w)
  <1> DEFINE a == assigned[w]
             b == base[w]
             t == Taken(w)
             f == Filled(w)
             p == Pending(w)
  <1>1. /\ b \in Seq(Int) /\ Len(a) \in Nat /\ Len(b) \in Nat
        /\ hand[w] \in Fd \cup {None} /\ cfd \in Fd \cup {None}
    BY DEF TypeOK
  <1>2. a \in Seq(Int)
    <2>1. Fd \subseteq Int
      BY FdAssumption
    <2>2. a \in Seq(Fd)
      BY DEF TypeOK
    <2> QED
      BY <2>1, <2>2, SeqMonotonic
  <1>3. t \in Seq(Int) /\ Len(t) = NumTaken(w) /\ \A i \in 1..Len(t) : i = 1 /\ t[i] = a[Len(b) + i]
    <2>1. CASE hand[w] = None
      BY <2>1 DEF Taken, NumTaken
    <2>2. CASE hand[w] # None
      <3>1. t = <<hand[w]>> /\ NumTaken(w) = 1 /\ hand[w] = a[Len(b) + 1] /\ hand[w] \in Int
        BY <1>1, <2>2, HandIsInt DEF Taken, NumTaken, PlaceAt
      <3> HIDE DEF t, a, b
      <3> QED
        BY <3>1
    <2> QED
      BY <2>1, <2>2
  <1>4. /\ f \in Seq(Int) /\ Len(f) = NumFilled(w) /\ Len(f) \in Nat
        /\ \A i \in 1..Len(f) : f[i] = a[Len(b) + Len(t) + i]
    <2>1. /\ f \in Seq(Int) /\ Len(f) = NumFilled(w)
          /\ \A i \in 1..NumFilled(w) : f[i] = queue[w][i]
      BY FilledFacts
    <2>2. \A i \in 1..NumFilled(w) : queue[w][i] = a[Len(b) + NumTaken(w) + i]
      BY DEF PlaceAt
    <2>3. Len(f) \in Nat
      BY <2>1
    <2> HIDE DEF f, a, b, t
    <2> QED
      BY <1>3, <2>1, <2>2, <2>3
  <1>5. /\ p \in Seq(Int) /\ Len(p) = NumPending(w)
        /\ \A i \in 1..Len(p) : i = 1 /\ p[i] = a[Len(a)]
    <2>1. CASE NumPending(w) = 0
      BY <2>1 DEF NumPending, Pending
    <2>2. CASE NumPending(w) = 1
      <3>1. p = <<cfd>> /\ cfd = a[Len(a)] /\ cfd \in Int
        BY <1>1, <2>2, HandIsInt DEF NumPending, Pending, PlaceAt
      <3> HIDE DEF p, a
      <3> QED
        BY <2>2, <3>1
    <2> QED
      BY <2>1, <2>2 DEF NumPending
  <1>6. Len(a) = Len(b) + Len(t) + Len(f) + Len(p)
    BY <1>3, <1>4, <1>5 DEF PlaceAt
  <1>7. \A i \in 1..Len(b) : b[i] = a[i]
    BY DEF PlaceAt
  <1>8. Len(t) \in Nat /\ Len(p) \in Nat
    BY <1>3, <1>5
  <1> HIDE DEF a, b, t, f, p
  <1>9. /\ b \o t \in Seq(Int) /\ Len(b \o t) = Len(b) + Len(t)
        /\ \A i \in 1..Len(b \o t) : (b \o t)[i] = a[i]
    <2>1. \A i \in 1..Len(t) : t[i] = a[Len(b) + i]
      BY <1>3
    <2> QED
      BY <1>1, <1>2, <1>3, <1>7, <2>1, GoesOn
  <1>10. /\ b \o t \o f \in Seq(Int) /\ Len(b \o t \o f) = Len(b) + Len(t) + Len(f)
         /\ \A i \in 1..Len(b \o t \o f) : (b \o t \o f)[i] = a[i]
    <2>1. \A i \in 1..Len(f) : f[i] = a[Len(b \o t) + i]
      BY <1>4, <1>9
    <2>2. /\ b \o t \o f \in Seq(Int) /\ Len(b \o t \o f) = Len(b \o t) + Len(f)
          /\ \A i \in 1..Len(b \o t \o f) : (b \o t \o f)[i] = a[i]
      BY <1>2, <1>4, <1>9, <2>1, GoesOn
    <2> QED
      BY <1>9, <2>2
  <1>11. \A i \in 1..Len(p) : p[i] = a[Len(b \o t \o f) + i]
    <2> TAKE i \in 1..Len(p)
    <2>1. i = 1 /\ p[i] = a[Len(a)] /\ Len(p) = 1
      BY <1>5, <1>8 DEF NumPending
    <2>2. Len(b \o t \o f) + i = Len(a)
      BY <1>6, <1>10, <2>1
    <2> QED
      BY <2>1, <2>2
  <1>12. /\ b \o t \o f \o p \in Seq(Int) /\ Len(b \o t \o f \o p) = Len(a)
         /\ \A i \in 1..Len(b \o t \o f \o p) : (b \o t \o f \o p)[i] = a[i]
    <2>1. /\ b \o t \o f \o p \in Seq(Int)
          /\ Len(b \o t \o f \o p) = Len(b \o t \o f) + Len(p)
          /\ \A i \in 1..Len(b \o t \o f \o p) : (b \o t \o f \o p)[i] = a[i]
      BY <1>2, <1>5, <1>10, <1>11, GoesOn
    <2> QED
      BY <1>6, <1>10, <2>1
  <1>13. a = b \o t \o f \o p
    BY <1>2, <1>12, SeqEqual
  <1> QED
    BY <1>13 DEF a, b, t, f, p

-----------------------------------------------------------------------------
(* The theorems.                                                           *)

\* The inductive invariant holds in every reachable state, whatever writes and
\* allocations fail: the type invariant is a part of it.
THEOREM Invariant == Spec => []IInv
  <1>1. Init => IInv
    BY InitIInv
  <1>2. IInv /\ [Next]_vars => IInv'
    <2> SUFFICES ASSUME IInv, [Next]_vars PROVE IInv'
      OBVIOUS
    <2>1. CASE Next
      BY <2>1, MasterIInv, WorkerIInv DEF Next
    <2>2. CASE UNCHANGED vars
      <3> USE <2>2 DEF vars, masterVars, workerVars
      <3>1. TypeOK' /\ LockInv'
        BY DEF IInv, TypeOK, LockInv
      <3>2. MasterInv'
        BY DEF IInv, MasterInv, Unfilled
      <3>3. StepInv'
        BY DEF IInv, StepInv, Reading, Unwritten
      <3>4. TurnInv' /\ OnceInv'
        <4>1. \A w \in Worker : Got(w)' = Got(w)
          BY DEF Got
        <4>2. TurnInv'
          BY <4>1 DEF IInv, TurnInv
        <4>3. OnceInv'
          BY OnceStays DEF IInv
        <4> QED
          BY <4>2, <4>3
      <3>5. Small => PlaceInv'
        <4>1. \A w \in Worker : /\ NumTaken(w)' = NumTaken(w) /\ NumFilled(w)' = NumFilled(w)
                                /\ NumPending(w)' = NumPending(w)
          BY DEF NumTaken, NumFilled, NumPending, Unfilled
        <4>2. ASSUME NEW w \in Worker, PlaceAt(w) PROVE PlaceAt(w)'
          BY <4>1, <4>2 DEF PlaceAt
        <4> QED
          BY <4>2 DEF IInv, PlaceInv
      <3> QED
        BY <3>1, <3>2, <3>3, <3>4, <3>5 DEF IInv
    <2> QED
      BY <2>1, <2>2
  <1> QED
    BY <1>1, <1>2, PTL DEF Spec

\* cq_pop's early return with the mutex held is never taken.
THEOREM MutexReleased == Spec => []NoLeakedMutex
  <1>1. IInv => NoLeakedMutex
    BY DEF IInv, LockInv, NoLeakedMutex
  <1> QED
    BY <1>1, Invariant, PTL

\* Whoever has read a byte finds a filled entry in its queue.
THEOREM PopFinds == Spec => []NoEmptyPop
  <1>1. IInv => NoEmptyPop
    <2> SUFFICES ASSUME IInv, ooms = 0, NEW w \in Worker, wpc[w] = "pop"
                 PROVE  queue[w] # << >> /\ Head(queue[w]) # Empty
      BY DEF NoEmptyPop
    <2>1. Len(queue[w]) >= pipe[w] + Reading(w) + Unwritten(w) /\ pipe[w] \in Nat
      BY DEF IInv, StepInv, TypeOK
    <2>2. Reading(w) = 1 /\ Unwritten(w) \in {0, 1}
      BY DEF Reading, Unwritten
    <2>3. queue[w] \in Seq(Fd \cup {Empty}) /\ Len(queue[w]) \in Nat
      BY DEF IInv, TypeOK
    <2>4. Len(queue[w]) > 0
      BY <2>1, <2>2, <2>3
    <2>5. queue[w] # << >> /\ Head(queue[w]) = queue[w][1] /\ 1 \in 1..Len(queue[w])
      BY <2>3, <2>4
    <2>6. ~Unfilled(w)
      <3>1. mutex[w] = w /\ w # Master
        BY Basics DEF IInv, LockInv
      <3> QED
        BY <3>1 DEF Unfilled, IInv, LockInv
    <2> QED
      BY <2>5, <2>6 DEF IInv, MasterInv
  <1> QED
    BY <1>1, Invariant, PTL

\* Queue and pipe lose no connection, double none and keep their order.
THEOREM InOrder == Spec => []HandedInOrder
  <1>1. IInv => HandedInOrder
    BY PlacesInOrder DEF IInv, PlaceInv, HandedInOrder
  <1> QED
    BY <1>1, Invariant, PTL

\* No two bufferevents share a descriptor, unless the byte of one could not be
\* written.
THEOREM OneOwner == Spec => []NoTwoOwners
  <1>1. IInv => NoTwoOwners
    <2> SUFFICES ASSUME IInv, Small, NEW v \in Worker, NEW w \in Worker,
                        NEW i \in 1..Len(base[v]), NEW j \in 1..Len(base[w]),
                        base[v][i] = base[w][j], i \notin failed[v], j \notin failed[w]
                 PROVE  v = w /\ i = j
      BY DEF NoTwoOwners
    <2>1. ASSUME NEW u \in Worker, NEW k \in 1..Len(base[u])
          PROVE  base[u][k] = assigned[u][k] /\ k \in 1..Len(assigned[u])
      <3>1. PlaceAt(u) /\ Len(base[u]) \in Nat /\ Len(queue[u]) \in Nat
        <4>1. PlaceAt(u)
          BY DEF IInv, PlaceInv
        <4>2. base[u] \in Seq(Int) /\ queue[u] \in Seq(Fd \cup {Empty})
          BY DEF IInv, TypeOK
        <4> QED
          BY <4>1, <4>2
      <3>2. NumTaken(u) \in {0, 1} /\ NumPending(u) \in {0, 1} /\ NumFilled(u) \in Nat
        BY <3>1 DEF NumTaken, NumPending, NumFilled, IInv, MasterInv
      <3>3. Len(assigned[u]) >= Len(base[u])
        BY <3>1, <3>2 DEF PlaceAt
      <3>4. Len(assigned[u]) \in Nat
        BY DEF IInv, TypeOK
      <3> QED
        BY <3>1, <3>3, <3>4 DEF PlaceAt
    <2>2. /\ i \in 1..Len(assigned[v]) /\ j \in 1..Len(assigned[w])
          /\ assigned[v][i] = assigned[w][j]
      BY <2>1
    <2> QED
      BY <2>2 DEF IInv, OnceInv, Kept
  <1> QED
    BY <1>1, Invariant, PTL

\* No worker is ever two connections ahead of another.
THEOREM InTurn == Spec => []Turns
  <1>1. IInv => Turns
    <2> SUFFICES ASSUME IInv, ooms = 0, mpc # "alloc", NEW v \in Worker, NEW w \in Worker,
                        v <= w
                 PROVE  Len(assigned[v]) - Len(assigned[w]) \in {0, 1}
      BY DEF Turns
    <2>1. Got(v) - Got(w) \in {0, 1}
      BY DEF IInv, TurnInv
    <2>2. Len(assigned[v]) \in Nat /\ Len(assigned[w]) \in Nat
      BY SMTT(60) DEF IInv, TypeOK
    <2> QED
      BY <2>1, <2>2 DEF Got
  <1> QED
    BY <1>1, Invariant, PTL
=============================================================================
