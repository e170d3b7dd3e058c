---------------------------- MODULE MatchProofs ----------------------------
(***************************************************************************)
(* Proofs about Match: the invariant that makes the unlocked reads of      *)
(* parse_readys safe, for any number of workers, users and requests.       *)
(***************************************************************************)
EXTENDS MatchProperties, SequenceTheorems, WellFoundedInduction, TLAPS

USE ThreadAssumption, UserAssumption, NameAssumption, BoundAssumption

-----------------------------------------------------------------------------
(* Facts about the list operators.                                         *)

\* Taking out position k of a sequence leaves a sequence, one shorter, with
\* the rest in order (xlist_break).
LEMMA RemoveAtFacts ==
    ASSUME NEW S, NEW s \in Seq(S), NEW k \in 1..Len(s)
    PROVE  /\ RemoveAt(s, k) \in Seq(S)
           /\ Len(RemoveAt(s, k)) = Len(s) - 1
           /\ \A j \in 1..Len(s)-1 :
                 RemoveAt(s, k)[j] = IF j < k THEN s[j] ELSE s[j+1]
  <1> DEFINE l == SubSeq(s, 1, k-1)
             r == SubSeq(s, k+1, Len(s))
  <1>1. /\ l \in Seq(S) /\ Len(l) = k - 1
        /\ \A j \in 1..k-1 : l[j] = s[j]
    BY SubSeqProperties
  <1>2. /\ r \in Seq(S) /\ Len(r) = Len(s) - k
        /\ \A j \in 1..Len(s)-k : r[j] = s[k+j]
    <2>1. \A j \in k+1..Len(s) : s[j] \in S
      OBVIOUS
    <2>2. /\ r \in Seq(S)
          /\ Len(r) = IF k+1 <= Len(s) THEN Len(s)-(k+1)+1 ELSE 0
          /\ \A j \in 1..Len(s)-(k+1)+1 : r[j] = s[k+1+j-1]
      BY <2>1, SubSeqProperties
    <2> QED
      BY <2>2
  <1> HIDE DEF l, r
  <1>3. /\ l \o r \in Seq(S)
        /\ Len(l \o r) = Len(l) + Len(r)
        /\ \A j \in 1..Len(l)+Len(r) :
              (l \o r)[j] = IF j <= Len(l) THEN l[j] ELSE r[j - Len(l)]
    <2>1. l \in Seq(S) /\ r \in Seq(S)
      BY <1>1, <1>2
    <2> QED
      BY <2>1, ConcatProperties
  <1>4. RemoveAt(s, k) = l \o r
    BY DEF RemoveAt, l, r
  <1>5. \A j \in 1..Len(s)-1 : (l \o r)[j] = IF j < k THEN s[j] ELSE s[j+1]
    BY <1>1, <1>2, <1>3
  <1>6. (l \o r) \in Seq(S) /\ Len(l \o r) = Len(s) - 1
    BY <1>1, <1>2, <1>3
  <1> QED
    BY <1>4, <1>5, <1>6, Zenon

\* A non-empty set of positions has a least one.
LEMMA LeastOfNaturals ==
    ASSUME NEW S \in SUBSET Nat, S # {}
    PROVE  First(S) \in S /\ \A j \in S : First(S) <= j
  <1> DEFINE lt == {ss \in Nat \X Nat : ss[1] < ss[2]}
  <1>1. \A x, y \in Nat : <<x, y>> \in lt <=> x < y
    OBVIOUS
  <1>2. IsWellFoundedOn(lt, Nat)
    BY NatLessThanWellFounded DEF OpToRel
  <1> HIDE DEF lt
  <1>3. PICK k \in S : \A j \in S : ~(<<j, k>> \in lt)
    BY <1>2, WFMin
  <1>4. \A j \in S : k <= j
    <2> TAKE j \in S
    <2>1. j \in Nat /\ k \in Nat /\ ~(j < k)
      BY <1>1, <1>3
    <2> QED
      BY <2>1
  <1> QED
    BY <1>4 DEF First

\* Removal by key of the key of the first node removes the first node
\* (xlist_kill_remove of a name that xlist_index(readys, 0) has).
LEMMA RemoveFirstKey ==
    ASSUME NEW s \in Seq(User \cup {NULL}), Len(s) > 0, s[1] \in User
    PROVE  xlist_kill_remove(s, NameOf[s[1]]) = RemoveAt(s, 1)
  <1> DEFINE H == Hits(s, NameOf[s[1]])
  <1>1. 1 \in H /\ H \subseteq 1..Len(s)
    BY DEF Hits
  <1>2. First(H) = 1
    BY <1>1 DEF First
  <1> QED
    BY <1>1, <1>2 DEF xlist_kill_remove

-----------------------------------------------------------------------------
(* The invariant holds at the start and every step keeps it.               *)

\* A state from YS_init satisfies the invariant.
LEMMA InitIInv == Init => IInv
  <1> SUFFICES ASSUME Init PROVE IInv
    OBVIOUS
  <1> USE DEF Init
  <1>1. TypeOK
    BY DEF TypeOK, WorkerPC, GamePC, NoLook, TableSize
  <1>2. MutexInv /\ CountMatchesList
    BY DEF MutexInv, CountMatchesList, Uncounted
  <1>3. NodeInv /\ PickInv /\ FrontInv /\ WalkInv
    BY DEF NodeInv, PickInv, FrontInv, WalkInv
  <1> QED
    BY <1>1, <1>2, <1>3 DEF IInv

\* The search for the user of a request finds users only.
LEMMA FoundIsUser ==
    ASSUME IInv, NEW inx, NEW n, NEW u \in Found(inx, n)
    PROVE  u \in User
  <1>1. CASE inx \in Worker
    <2> DEFINE H == Hits(users[inx], n)
    <2>1. H # {} /\ u = users[inx][First(H)]
      BY <1>1 DEF Found, xlist_getv
    <2>2. users[inx] \in Seq(User)
      BY <1>1 DEF IInv, TypeOK
    <2>3. H \subseteq 1..Len(users[inx])
      BY DEF Hits
    <2> HIDE DEF H
    <2>4. First(H) \in H
      BY <2>1, <2>2, <2>3, LeastOfNaturals
    <2>5. First(H) \in 1..Len(users[inx])
      BY <2>3, <2>4
    <2> QED
      BY <2>1, <2>2, <2>5
  <1>2. CASE inx \notin Worker
    BY <1>2 DEF Found
  <1> QED
    BY <1>1, <1>2

\* Logging in and asking for a match do not touch the ready list.
LEMMA RequestIInv ==
    ASSUME IInv, NEW w \in Worker, NEW n \in Name,
           login(w, n) \/ \E inx \in Worker \cup Stray : ready_start(w, inx, n)
    PROVE  IInv'
  <1> USE DEF IInv
  <1>1. CASE login(w, n)
    <2> USE <1>1 DEF login, listVars, pickVars, waitVars, firstVars
    <2>1. TypeOK'
      <3>1. PICK u \in User : users' = [users EXCEPT ![w] = Append(@, u)]
        OBVIOUS
      <3>2. Append(users[w], u) \in Seq(User)
        BY DEF TypeOK
      <3>3. users' \in [Worker -> Seq(User)]
        BY <3>1, <3>2 DEF TypeOK
      <3> QED
        BY <3>3 DEF TypeOK
    <2>2. MutexInv' /\ CountMatchesList' /\ NodeInv' /\ PickInv' /\ FrontInv'
      BY DEF MutexInv, CountMatchesList, Uncounted, NodeInv, PickInv, FrontInv
    <2>3. WalkInv'
      BY DEF WalkInv, GamesWith
    <2> QED
      BY <2>1, <2>2, <2>3
  <1>2. CASE \E inx \in Worker \cup Stray : ready_start(w, inx, n)
    <2>1. PICK inx \in Worker \cup Stray : ready_start(w, inx, n)
      BY <1>2
    <2>2. PICK u \in Found(inx, n) :
             asked' = [asked EXCEPT ![u] = @ + 1] /\ req' = [req EXCEPT ![w] = u]
      BY <2>1 DEF ready_start
    <2>3. u \in User
      BY FoundIsUser
    <2>4. /\ pc[w] = "idle" /\ pc' = [pc EXCEPT ![w] = "lock"]
          /\ req' = [req EXCEPT ![w] = u]
          /\ asked' = [asked EXCEPT ![u] = @ + 1]
          /\ UNCHANGED <<users, listVars, gpc, pickVars, games, waitVars,
                         firstVars, halt>>
      BY <2>2, <2>1 DEF ready_start
    <2> USE <2>3, <2>4 DEF listVars, pickVars, waitVars, firstVars
    <2>5. TypeOK'
      BY SMTT(60) DEF TypeOK, WorkerPC
    <2>6. MutexInv' /\ CountMatchesList'
      BY DEF MutexInv, CountMatchesList, Uncounted, TypeOK
    <2>7. NodeInv' /\ PickInv' /\ FrontInv'
      BY DEF NodeInv, PickInv, FrontInv, TypeOK
    <2>8. WalkInv'
      BY DEF WalkInv, GamesWith
    <2> QED
      BY <2>5, <2>6, <2>7, <2>8
  <1> QED
    BY <1>1, <1>2

\* A search that ends the process leaves all but halt as it was.
LEMMA SearchIInv ==
    ASSUME IInv, NEW w \in Worker, SearchNoList(w)
    PROVE  IInv'
  <1> USE DEF IInv, SearchNoList, listVars, workerVars, pickVars, waitVars, firstVars
  <1>1. TypeOK'
    BY DEF TypeOK
  <1>2. MutexInv' /\ CountMatchesList' /\ NodeInv' /\ PickInv' /\ FrontInv'
    BY DEF MutexInv, CountMatchesList, Uncounted, NodeInv, PickInv, FrontInv
  <1>3. WalkInv'
    BY DEF WalkInv, GamesWith
  <1> QED
    BY <1>1, <1>2, <1>3

\* The five steps of a worker inside ready_start.
LEMMA ReadyStepIInv ==
    ASSUME IInv, NEW w \in Worker, ReadyStep(w)
    PROVE  IInv'
  <1> USE DEF IInv, Step, listVars, workerVars, pickVars, waitVars, firstVars
  <1>1. CASE LockReady(w)
    <2> USE <1>1 DEF LockReady
    <2>1. TypeOK'
      BY DEF TypeOK, WorkerPC
    <2>2. MutexInv' /\ CountMatchesList'
      BY DEF TypeOK, MutexInv, CountMatchesList, Uncounted
    <2>3. NodeInv' /\ PickInv' /\ FrontInv'
      BY DEF TypeOK, NodeInv, PickInv, FrontInv
    <2>4. WalkInv'
      BY DEF WalkInv, GamesWith
    <2> QED
      BY <2>1, <2>2, <2>3, <2>4
  <1>2. CASE LinkNode(w)
    <2> USE <1>2 DEF LinkNode
    <2>1. /\ readys' \in Seq(User \cup {NULL})
          /\ Len(readys') = Len(readys) + 1
          /\ \A k \in 1..Len(readys) : readys'[k] = readys[k]
          /\ readys'[Len(readys)+1] = NULL
      BY AppendProperties DEF TypeOK
    <2>2. TypeOK'
      BY <2>1 DEF TypeOK, WorkerPC
    <2>3. MutexInv'
      BY DEF TypeOK, MutexInv
    <2>4. CountMatchesList'
      <3>1. ~Uncounted
        BY DEF MutexInv, Uncounted, TypeOK
      <3>2. Uncounted'
        BY DEF Uncounted, TypeOK
      <3> QED
        BY <2>1, <3>1, <3>2 DEF CountMatchesList, TypeOK
    <2>5. NodeInv'
      <3>1. \A k \in 1..Len(readys) : readys[k] # NULL
        BY DEF NodeInv, MutexInv, TypeOK
      <3> QED
        BY <2>1, <3>1 DEF NodeInv, TypeOK
    <2>6. PickInv' /\ FrontInv'
      BY <2>1 DEF PickInv, FrontInv, TypeOK
    <2>7. WalkInv'
      <3> SUFFICES ASSUME gpc = "walk"
                   PROVE  /\ look.pos \in 1..Len(readys')+1
                          /\ \A k \in 1..look.pos-1 :
                                readys'[k] # NULL /\ NameOf[readys'[k]] # look.name
                          /\ GamesWith(look.name) = {}
        BY <2>1 DEF WalkInv, GamesWith
      <3>1. look.pos \in 1..Len(readys)+1 /\ GamesWith(look.name) = {}
        BY DEF WalkInv
      <3>2. Len(readys) \in Nat
        BY DEF TypeOK
      <3>3. ASSUME NEW k \in 1..look.pos-1
            PROVE  readys'[k] # NULL /\ NameOf[readys'[k]] # look.name
        <4>1. readys[k] # NULL /\ NameOf[readys[k]] # look.name
          BY DEF WalkInv
        <4> QED
          BY <2>1, <3>1, <3>2, <4>1
      <3> QED
        BY <2>1, <3>1, <3>2, <3>3
    <2> QED
      BY <2>2, <2>3, <2>4, <2>5, <2>6, <2>7
  <1>3. CASE InitNode(w)
    <2> USE <1>3 DEF InitNode
    <2>1. req[w] \in User /\ Len(readys) \in 1..Len(readys)
      BY DEF NodeInv, TypeOK
    <2>2. /\ readys' \in Seq(User \cup {NULL})
          /\ Len(readys') = Len(readys)
          /\ readys'[Len(readys)] = req[w]
          /\ \A k \in 1..Len(readys)-1 : readys'[k] = readys[k]
      BY <2>1 DEF TypeOK
    <2>3. TypeOK'
      BY <2>2 DEF TypeOK, WorkerPC
    <2>4. MutexInv'
      BY DEF TypeOK, MutexInv
    <2>5. CountMatchesList'
      <3>1. Uncounted /\ Uncounted'
        BY DEF Uncounted, TypeOK
      <3> QED
        BY <2>2, <3>1 DEF CountMatchesList
    <2>6. NodeInv'
      <3>1. \A v \in Worker : pc'[v] # "init"
        BY DEF MutexInv, TypeOK
      <3>2. \A k \in 1..Len(readys) : readys'[k] # NULL
        <4> TAKE k \in 1..Len(readys)
        <4>1. CASE k = Len(readys)
          BY <2>1, <2>2, <4>1
        <4>2. CASE k < Len(readys)
          <5>1. readys[k] # NULL /\ k \in 1..Len(readys)-1
            BY <4>2 DEF NodeInv, TypeOK
          <5> QED
            BY <2>2, <5>1
        <4> QED
          BY <4>1, <4>2
      <3>3. \A v \in Worker : pc'[v] # "idle" => req'[v] \in User
        BY DEF NodeInv, TypeOK
      <3> QED
        BY <2>2, <3>1, <3>2, <3>3 DEF NodeInv
    <2>7. PickInv'
      BY DEF PickInv
    <2>8. FrontInv'
      <3> SUFFICES ASSUME gpc \in {"read", "lock", "kill"},
                          NEW k \in killed+1..Len(picked)
                   PROVE  k - killed <= Len(readys') /\ readys'[k - killed] = picked[k]
        BY DEF FrontInv
      <3>1. k - killed \in 1..Len(readys) /\ readys[k - killed] = picked[k]
        BY DEF FrontInv, TypeOK
      <3>2. k \in 1..Len(picked) /\ k - killed \in Int
        BY DEF TypeOK
      <3>3. picked[k] # NULL
        <4>1. picked \in Seq(User)
          BY DEF TypeOK
        <4> HIDE DEF IInv, InitNode, Step
        <4>2. picked[k] \in User
          BY <3>2, <4>1
        <4> QED
          BY <4>2
      <3>4. readys[Len(readys)] = NULL
        BY DEF NodeInv
      <3>5. Len(readys) \in Nat
        <4>1. readys \in Seq(User \cup {NULL})
          BY DEF TypeOK
        <4> QED
          BY <4>1
      <3>6. k - killed # Len(readys)
        BY <3>1, <3>3, <3>4
      <3>7. k - killed \in 1..Len(readys)-1
        BY <3>1, <3>2, <3>5, <3>6
      <3>8. readys'[k - killed] = readys[k - killed]
        BY <2>2, <3>7
      <3>9. k - killed <= Len(readys)
        BY <3>1, <3>2, <3>5
      <3>10. k - killed <= Len(readys')
        BY <2>2, <3>9
      <3> QED
        BY <3>1, <3>8, <3>10
    <2>9. WalkInv'
      <3> SUFFICES ASSUME gpc = "walk"
                   PROVE  /\ look.pos \in 1..Len(readys)+1
                          /\ \A k \in 1..look.pos-1 :
                                readys'[k] # NULL /\ NameOf[readys'[k]] # look.name
                          /\ GamesWith(look.name) = {}
        BY <2>2 DEF WalkInv, GamesWith
      <3>1. look.pos \in 1..Len(readys)+1 /\ GamesWith(look.name) = {}
        BY DEF WalkInv
      <3>2. ASSUME NEW k \in 1..look.pos-1
            PROVE  readys'[k] # NULL /\ NameOf[readys'[k]] # look.name
        <4>1. readys[k] # NULL /\ NameOf[readys[k]] # look.name
          BY DEF WalkInv
        <4>2. k \in 1..Len(readys)-1
          <5>1. k # Len(readys)
            BY <4>1 DEF NodeInv
          <5> QED
            BY <2>1, <3>1, <5>1
        <4> QED
          BY <2>2, <4>1, <4>2
      <3> QED
        BY <3>1, <3>2
    <2> QED
      BY <2>3, <2>4, <2>5, <2>6, <2>7, <2>8, <2>9
  <1>4. CASE CountReady(w)
    <2> USE <1>4 DEF CountReady
    <2>1. TypeOK'
      BY DEF TypeOK, WorkerPC
    <2>2. MutexInv'
      BY DEF TypeOK, MutexInv
    <2>3. CountMatchesList'
      <3>1. Uncounted /\ ~Uncounted'
        BY DEF Uncounted, TypeOK, MutexInv
      <3> QED
        BY <3>1 DEF CountMatchesList, TypeOK
    <2>4. NodeInv'
      BY DEF TypeOK, NodeInv
    <2>5. PickInv'
      BY DEF TypeOK, PickInv, TableSize
    <2>6. FrontInv' /\ WalkInv'
      BY DEF TypeOK, FrontInv, WalkInv, GamesWith
    <2> QED
      BY <2>1, <2>2, <2>3, <2>4, <2>5, <2>6
  <1>5. CASE UnlockReady(w)
    <2> USE <1>5 DEF UnlockReady
    <2>1. TypeOK'
      BY DEF TypeOK, WorkerPC
    <2>2. MutexInv' /\ CountMatchesList'
      BY DEF TypeOK, MutexInv, CountMatchesList, Uncounted
    <2>3. NodeInv' /\ PickInv' /\ FrontInv'
      BY DEF TypeOK, NodeInv, PickInv, FrontInv
    <2>4. WalkInv'
      BY DEF WalkInv, GamesWith
    <2> QED
      BY <2>1, <2>2, <2>3, <2>4
  <1> QED
    BY <1>1, <1>2, <1>3, <1>4, <1>5 DEF ReadyStep

\* One removal of parse_readys: the list loses the node that was read first.
LEMMA KillTakesFront ==
    ASSUME IInv, ParseKill
    PROVE  /\ Len(readys) > 0
           /\ readys[1] \in User
           /\ readys[1] = picked[killed + 1]
           /\ readys' = RemoveAt(readys, 1)
           /\ readys' \in Seq(User \cup {NULL})
           /\ Len(readys') = Len(readys) - 1
           /\ \A k \in 1..Len(readys)-1 : readys'[k] = readys[k + 1]
  <1> USE DEF IInv
  <1>1. Len(picked) = TableSize /\ killed < TableSize
    BY DEF ParseKill, PickInv
  <1>2. Len(readys) > 0 /\ readys[1] = picked[killed + 1] /\ readys[1] \in User
    <2>1. killed + 1 \in killed+1..Len(picked) /\ gpc = "kill"
      BY <1>1 DEF ParseKill, TypeOK, TableSize
    <2>2. (killed + 1) - killed = 1 /\ picked[killed + 1] \in User
      BY <2>1 DEF TypeOK
    <2>3. 1 <= Len(readys) /\ readys[1] = picked[killed + 1]
      BY <2>1, <2>2 DEF FrontInv
    <2> QED
      BY <2>2, <2>3 DEF TypeOK
  <1>3. readys' = RemoveAt(readys, 1)
    BY <1>2, RemoveFirstKey DEF ParseKill, TypeOK
  <1>4. /\ RemoveAt(readys, 1) \in Seq(User \cup {NULL})
        /\ Len(RemoveAt(readys, 1)) = Len(readys) - 1
        /\ \A k \in 1..Len(readys)-1 :
              RemoveAt(readys, 1)[k] = IF k < 1 THEN readys[k] ELSE readys[k + 1]
    <2>1. readys \in Seq(User \cup {NULL}) /\ 1 \in 1..Len(readys)
      BY <1>2 DEF TypeOK
    <2> QED
      BY <2>1, RemoveAtFacts
  <1> QED
    BY <1>2, <1>3, <1>4

\* The reads, removals and locks of parse_readys, and the new game.
LEMMA ParseIInv ==
    ASSUME IInv, ParseReadys
    PROVE  IInv'
  <1> USE DEF IInv, listVars, workerVars, pickVars, waitVars, firstVars
  <1>0. WalkInv'
    <2>1. gpc' # "walk"
      BY DEF ParseReadys, ParseCheck, ParseRead, ParseLock, ParseKill,
             ParseUnlock, MakeGame, DealTwice, TypeOK
    <2> QED
      BY <2>1 DEF WalkInv
  <1>1. CASE ParseCheck
    <2> USE <1>1 DEF ParseCheck
    <2>1. TypeOK'
      BY DEF TypeOK, GamePC, TableSize
    <2>2. MutexInv' /\ CountMatchesList' /\ NodeInv'
      BY DEF MutexInv, CountMatchesList, Uncounted, NodeInv
    <2>3. PickInv' /\ FrontInv'
      BY DEF PickInv, FrontInv, TypeOK, TableSize
    <2> QED
      BY <1>0, <2>1, <2>2, <2>3
  <1>2. CASE ParseRead
    <2> DEFINE k == Len(picked) + 1
    <2>1. /\ gpc = "read" /\ killed = 0 /\ ready_num >= TableSize
          /\ k \in 1..TableSize /\ k <= Len(readys)
      <3>1. Len(readys) >= ready_num
        BY DEF CountMatchesList, TypeOK
      <3> QED
        <4>1. gpc = "read" /\ killed = 0 /\ ready_num >= 3 /\ Len(picked) < 3
          BY <1>2 DEF ParseRead, PickInv, TableSize
        <4>2. Len(picked) \in Nat /\ Len(readys) \in Nat /\ ready_num \in Nat
          BY DEF TypeOK
        <4> QED
          BY <3>1, <4>1, <4>2 DEF TableSize
    <2>2. readys[k] # NULL
      <3>1. CASE Uncounted
        <4>1. k < Len(readys)
          BY <2>1, <3>1 DEF CountMatchesList, TypeOK, TableSize
        <4> QED
          BY <2>1, <4>1 DEF NodeInv
      <3>2. CASE ~Uncounted
        BY <2>1, <3>2 DEF NodeInv, Uncounted
      <3> QED
        BY <3>1, <3>2
    <2>3. readys[k] \in User
      BY <2>1, <2>2 DEF TypeOK
    <2>4. /\ picked' = Append(picked, readys[k])
          /\ gpc' = IF k = TableSize THEN "lock" ELSE "read"
          /\ UNCHANGED <<halt, listVars, workerVars, killed, games, waitVars,
                         firstVars>>
      BY <1>2, <2>1, <2>2 DEF ParseRead
    <2>5. /\ picked' \in Seq(User) /\ Len(picked') = k
          /\ \A j \in 1..Len(picked) : picked'[j] = picked[j]
          /\ picked'[k] = readys[k]
      BY <2>3, <2>4, AppendProperties DEF TypeOK
    <2> HIDE DEF k
    <2>6. TypeOK'
      BY <2>4, <2>5 DEF TypeOK, GamePC
    <2>7. MutexInv' /\ CountMatchesList' /\ NodeInv'
      BY <2>1, <2>4 DEF MutexInv, CountMatchesList, Uncounted, NodeInv
    <2>8. PickInv'
      BY <2>1, <2>4, <2>5 DEF PickInv, TableSize
    <2>9. FrontInv'
      <3> SUFFICES ASSUME NEW j \in 1..k
                   PROVE  j <= Len(readys) /\ readys[j] = picked'[j]
        BY <2>1, <2>4, <2>5 DEF FrontInv
      <3>1. CASE j = k
        BY <2>1, <2>5, <3>1
      <3>2. CASE j # k
        <4>1. j \in 1..Len(picked)
          BY <3>2, SMTT(60) DEF k, TypeOK
        <4>2. j \in killed+1..Len(picked) /\ j - killed = j
          BY <2>1, <4>1
        <4> QED
          BY <2>1, <2>5, <4>1, <4>2 DEF FrontInv
      <3> QED
        BY <3>1, <3>2
    <2> QED
      BY <1>0, <2>6, <2>7, <2>8, <2>9
  <1>3. CASE ParseLock
    <2> USE <1>3 DEF ParseLock
    <2>1. TypeOK'
      BY DEF TypeOK, GamePC
    <2>2. MutexInv'
      BY DEF MutexInv, TypeOK
    <2>3. CountMatchesList' /\ NodeInv'
      BY DEF CountMatchesList, Uncounted, NodeInv
    <2>4. PickInv' /\ FrontInv'
      BY DEF PickInv, FrontInv, TypeOK, TableSize
    <2> QED
      BY <1>0, <2>1, <2>2, <2>3, <2>4
  <1>4. CASE ParseKill
    <2>1. /\ gpc = "kill" /\ killed < TableSize /\ gpc' = gpc
          /\ killed' = killed + 1 /\ ready_num' = ready_num - 1
          /\ UNCHANGED <<mutex_ready, workerVars, picked, games, waitVars,
                         firstVars, halt>>
      BY <1>4 DEF ParseKill
    <2>2. /\ readys' \in Seq(User \cup {NULL})
          /\ Len(readys') = Len(readys) - 1
          /\ \A k \in 1..Len(readys)-1 : readys'[k] = readys[k + 1]
      BY <1>4, KillTakesFront
    <2>3. \A w \in Worker : pc[w] # "init" /\ pc[w] # "count"
      BY <2>1 DEF MutexInv, TypeOK
    <2>4. ready_num >= 1
      BY <2>1 DEF PickInv, TypeOK, TableSize
    <2>5. TypeOK'
      BY <2>1, <2>2, <2>4 DEF TypeOK, TableSize
    <2>6. MutexInv'
      BY <2>1 DEF MutexInv
    <2>7. CountMatchesList'
      BY <2>1, <2>2, <2>3 DEF CountMatchesList, Uncounted, TypeOK
    <2>8. NodeInv'
      <3>1. \A k \in 1..Len(readys) : readys[k] # NULL
        BY <2>3 DEF NodeInv
      <3>2. \A k \in 1..Len(readys)-1 : readys'[k] # NULL
        <4> TAKE k \in 1..Len(readys)-1
        <4>1. k + 1 \in 1..Len(readys)
          OBVIOUS
        <4> QED
          BY <2>2, <3>1, <4>1
      <3> QED
        BY <2>1, <2>2, <2>3, <3>2 DEF NodeInv
    <2>9. PickInv'
      BY <2>1 DEF PickInv, TypeOK, TableSize
    <2>10. FrontInv'
      <3> SUFFICES ASSUME NEW k \in killed+2..Len(picked)
                   PROVE  /\ k - (killed + 1) <= Len(readys')
                          /\ readys'[k - (killed + 1)] = picked[k]
        BY <2>1 DEF FrontInv, TypeOK
      <3>1. k - killed <= Len(readys) /\ readys[k - killed] = picked[k]
        <4>1. killed \in Nat /\ Len(picked) \in Nat
          BY DEF TypeOK
        <4>2. k \in killed+1..Len(picked)
          BY <4>1
        <4> QED
          BY <2>1, <4>2 DEF FrontInv
      <3>2. /\ k - (killed + 1) \in 1..Len(readys)-1
            /\ (k - (killed + 1)) + 1 = k - killed
        <4>1. killed \in Nat /\ Len(picked) \in Nat /\ Len(readys) \in Nat
          BY DEF TypeOK
        <4> QED
          BY <3>1, <4>1
      <3>3. readys'[k - (killed + 1)] = readys[k - killed]
        BY <2>2, <3>2
      <3> QED
        BY <2>2, <3>1, <3>2, <3>3
    <2> QED
      BY <1>0, <2>5, <2>6, <2>7, <2>8, <2>9, <2>10
  <1>5. CASE ParseUnlock
    <2> USE <1>5 DEF ParseUnlock
    <2>1. TypeOK'
      BY DEF TypeOK, GamePC
    <2>2. MutexInv'
      BY DEF MutexInv, TypeOK
    <2>3. CountMatchesList' /\ NodeInv'
      BY DEF CountMatchesList, Uncounted, NodeInv
    <2>4. PickInv' /\ FrontInv'
      BY DEF PickInv, FrontInv, TypeOK, TableSize
    <2> QED
      BY <1>0, <2>1, <2>2, <2>3, <2>4
  <1>6. CASE MakeGame
    <2> USE <1>6 DEF MakeGame
    <2>1. /\ games' \in Seq(Seq(User))
          /\ waiting' \in Seq(User)
          /\ wait_senddata' \in [User -> Nat]
      BY AppendProperties, ConcatProperties DEF TypeOK
    <2>2. TypeOK'
      BY <2>1 DEF TypeOK, GamePC
    <2>3. MutexInv' /\ CountMatchesList' /\ NodeInv'
      BY DEF MutexInv, CountMatchesList, Uncounted, NodeInv
    <2>4. PickInv' /\ FrontInv'
      BY DEF PickInv, FrontInv
    <2> QED
      BY <1>0, <2>2, <2>3, <2>4
  <1>7. CASE DealTwice
    <2> USE <1>7 DEF DealTwice
    <2>1. TypeOK'
      BY DEF TypeOK
    <2>2. MutexInv' /\ CountMatchesList' /\ NodeInv' /\ PickInv' /\ FrontInv'
      BY DEF MutexInv, CountMatchesList, Uncounted, NodeInv, PickInv, FrontInv
    <2> QED
      BY <1>0, <2>1, <2>2
  <1> QED
    BY <1>1, <1>2, <1>3, <1>4, <1>5, <1>6, <1>7 DEF ParseReadys

\* FIRST, the walk and the cards leave the ready list and the mutex alone.
LEMMA ServeIInv ==
    ASSUME IInv, (\E n \in Name : FirstGames(n)) \/ WalkReadys \/ send_waitdata
    PROVE  IInv'
  <1> USE DEF IInv, listVars, workerVars, pickVars, waitVars, firstVars
  <1>1. /\ gpc \in {"serve", "walk"} /\ gpc' \in {"serve", "walk", "check"}
        /\ UNCHANGED <<listVars, workerVars, pickVars, games>>
    BY DEF FirstGames, WalkReadys, send_waitdata
  <1>2. TypeOK'
    <2>1. CASE \E n \in Name : FirstGames(n)
      BY <1>1, <2>1 DEF TypeOK, FirstGames, GamePC
    <2>2. CASE WalkReadys
      <3>1. attached' \subseteq User
        <4>1. \/ attached' = attached
              \/ /\ look.pos <= Len(readys) /\ readys[look.pos] # NULL
                 /\ attached' = attached \cup {readys[look.pos]}
          BY <2>2 DEF WalkReadys
        <4>2. look.pos \in Nat
          BY DEF TypeOK
        <4>3. look.pos # 0
          BY <2>2 DEF WalkInv, WalkReadys
        <4>4. ASSUME look.pos <= Len(readys), readys[look.pos] # NULL
              PROVE  readys[look.pos] \in User
          BY <4>2, <4>3, <4>4 DEF TypeOK
        <4> QED
          BY <4>1, <4>4 DEF TypeOK
      <3>2. look' \in [name : Name \cup {NULL}, pos : Nat]
        <4>1. \/ look' = look \/ look' = NoLook
              \/ look' = [look EXCEPT !.pos = look.pos + 1]
          BY <2>2 DEF WalkReadys
        <4> QED
          <5>1. /\ look \in [name : Name \cup {NULL}, pos : Nat]
                /\ NoLook \in [name : Name \cup {NULL}, pos : Nat]
            BY DEF TypeOK, NoLook
          <5>2. look.pos + 1 \in Nat
            BY <5>1
          <5> QED
            BY <4>1, <5>1, <5>2
      <3>3. halt' \in {"no", "segv", "assert"} /\ firsts' = firsts
        BY <2>2 DEF WalkReadys, TypeOK
      <3>4. UNCHANGED waitVars
        BY <2>2 DEF WalkReadys
      <3> QED
        BY <1>1, <3>1, <3>2, <3>3, <3>4 DEF TypeOK, GamePC
    <2>3. CASE send_waitdata
      <3> DEFINE R == {k \in 1..Len(waiting) :
                         waiting[k] \in attached /\ wait_senddata[waiting[k]] # 0}
                 k == First(R)
      <3>1. UNCHANGED waitVars
            \/ /\ R # {}
               /\ waiting' = RemoveAt(waiting, k)
               /\ wait_senddata' = [wait_senddata EXCEPT ![waiting[k]] = 0]
               /\ delivered' = [delivered EXCEPT ![waiting[k]] =
                                   @ \cup {wait_senddata[waiting[k]]}]
        BY <2>3 DEF send_waitdata
      <3>2. R # {} => k \in 1..Len(waiting)
        <4>1. R \subseteq 1..Len(waiting) /\ R \in SUBSET Nat
          BY DEF TypeOK
        <4> HIDE DEF R
        <4> QED
          BY <4>1, LeastOfNaturals
      <3> HIDE DEF R, k
      <3>3. /\ waiting' \in Seq(User)
            /\ wait_senddata' \in [User -> Nat]
            /\ delivered' \in [User -> SUBSET Nat]
        <4>1. CASE UNCHANGED waitVars
          BY <4>1 DEF TypeOK
        <4>2. CASE ~UNCHANGED waitVars
          <5>1. k \in 1..Len(waiting)
            BY <3>1, <3>2, <4>2
          <5>2. RemoveAt(waiting, k) \in Seq(User)
            BY <5>1, RemoveAtFacts DEF TypeOK
          <5>3. waiting[k] \in User
            BY <5>1 DEF TypeOK
          <5> QED
            <6>1. waiting' \in Seq(User)
              BY <3>1, <4>2, <5>2
            <6> DEFINE u == waiting[k]
            <6>0. wait_senddata \in [User -> Nat] /\ delivered \in [User -> SUBSET Nat]
              BY DEF TypeOK
            <6> HIDE DEF u
            <6>2. wait_senddata' \in [User -> Nat]
              BY <3>1, <4>2, <5>3, <6>0 DEF u
            <6>3. wait_senddata[waiting[k]] \in Nat
              BY <5>3 DEF TypeOK
            <6>4. delivered' \in [User -> SUBSET Nat]
              BY <3>1, <4>2, <5>3, <6>0, <6>3
            <6> QED
              BY <6>1, <6>2, <6>4
        <4> QED
          BY <4>1, <4>2
      <3>4. UNCHANGED <<firstVars, halt>> /\ gpc' = "check"
        BY <2>3 DEF send_waitdata
      <3> QED
        BY <1>1, <3>3, <3>4 DEF TypeOK, GamePC
    <2> QED
      BY <2>1, <2>2, <2>3
  <1>3. MutexInv' /\ CountMatchesList' /\ NodeInv'
    BY <1>1 DEF MutexInv, CountMatchesList, Uncounted, NodeInv
  <1>4. PickInv' /\ FrontInv'
    BY <1>1 DEF PickInv, FrontInv
  <1>5. WalkInv'
    <2>1. CASE \E n \in Name : FirstGames(n)
      <3>1. PICK n \in Name : FirstGames(n)
        BY <2>1
      <3>2. PICK r \in GamesLookup(n) :
               \/ gpc' = gpc
               \/ r = NULL /\ look' = [name |-> n, pos |-> 1]
        BY <3>1 DEF FirstGames
      <3>3. CASE gpc' = gpc
        BY <3>1, <3>3 DEF WalkInv, FirstGames
      <3>4. CASE r = NULL /\ look' = [name |-> n, pos |-> 1]
        <4>1. GamesWith(n) = {}
          <5>1. SUFFICES ASSUME GamesWith(n) # {} PROVE FALSE
            OBVIOUS
          <5> DEFINE G == GamesWith(n)
                     g == games[First(G)]
                     H == SeatsOf(g, n)
          <5>2. G \subseteq 1..Len(games) /\ games \in Seq(Seq(User))
            BY DEF GamesWith, TypeOK
          <5>3. First(G) \in G
            <6>1. G # {} /\ G \in SUBSET Nat
              BY <5>1, <5>2
            <6> HIDE DEF G
            <6> QED
              BY <6>1, LeastOfNaturals
          <5>4. g \in Seq(User) /\ H # {}
            <6>1. First(G) \in 1..Len(games)
              BY <5>2, <5>3
            <6>2. H # {}
              BY <5>3 DEF GamesWith
            <6> HIDE DEF G, H
            <6> QED
              BY <5>2, <6>1, <6>2
          <5>5. H \subseteq 1..Len(g)
            BY DEF SeatsOf
          <5> HIDE DEF g, H
          <5>6. First(H) \in H
            BY <5>4, <5>5, LeastOfNaturals
          <5>7. g[First(H)] \in User
            <6>1. First(H) \in 1..Len(g)
              BY <5>5, <5>6
            <6> QED
              BY <5>4, <6>1
          <5>8. r = g[First(H)] \/ r = Wild
            BY <3>2, <5>1 DEF GamesLookup, g, H
          <5> QED
            BY <3>4, <5>7, <5>8
        <4>2. GamesWith(n)' = {}
          BY <1>1, <4>1 DEF GamesWith
        <4>3. Len(readys') \in Nat
          BY <1>1 DEF TypeOK
        <4> QED
          BY <3>4, <4>2, <4>3 DEF WalkInv
      <3> QED
        BY <3>2, <3>3, <3>4
    <2>2. CASE WalkReadys
      <3>1. CASE gpc' = "serve"
        BY <3>1 DEF WalkInv
      <3>2. CASE gpc' # "serve" /\ look' = look
        BY <1>1, <2>2, <3>2 DEF WalkInv, WalkReadys, GamesWith
      <3>3. CASE gpc' # "serve" /\ look' # look
        <4> DEFINE p == look.pos
        <4>1. /\ gpc = "walk" /\ gpc' = "walk"
              /\ p <= Len(readys) /\ readys[p] # NULL
              /\ NameOf[readys[p]] # look.name
              /\ look' = [look EXCEPT !.pos = p + 1]
          BY <2>2, <3>3 DEF WalkReadys
        <4>2. /\ p \in 1..Len(readys)+1 /\ GamesWith(look.name) = {}
              /\ \A k \in 1..p-1 :
                    readys[k] # NULL /\ NameOf[readys[k]] # look.name
          BY <4>1 DEF WalkInv
        <4>3. look'.pos = p + 1 /\ look'.name = look.name
          BY <4>1 DEF TypeOK
        <4>4. Len(readys) \in Nat
          BY DEF TypeOK
        <4> HIDE DEF p
        <4>5. \A k \in 1..p+1-1 : readys[k] # NULL /\ NameOf[readys[k]] # look.name
          BY <4>1, <4>2, <4>4 DEF p
        <4>6. GamesWith(look.name)' = {}
          BY <1>1, <4>2, <4>3 DEF GamesWith
        <4> QED
          BY <1>1, <4>1, <4>2, <4>3, <4>4, <4>5, <4>6 DEF WalkInv
      <3> QED
        BY <3>1, <3>2, <3>3
    <2>3. CASE send_waitdata
      BY <2>3 DEF WalkInv, send_waitdata
    <2> QED
      BY <2>1, <2>2, <2>3
  <1> QED
    BY <1>2, <1>3, <1>4, <1>5

\* The invariant holds in every reachable state.
THEOREM Invariant == Spec => []IInv
  <1>1. Init => IInv
    BY InitIInv
  <1>2. IInv /\ [Next]_vars => IInv'
    <2> SUFFICES ASSUME IInv, [Next]_vars PROVE IInv'
      OBVIOUS
    <2>1. CASE WorkerNext
      BY <2>1, RequestIInv, SearchIInv, ReadyStepIInv DEF WorkerNext
    <2>2. CASE GameNext
      BY <2>2, ParseIInv, ServeIInv DEF GameNext
    <2>3. CASE UNCHANGED vars
      <3> USE <2>3 DEF vars, listVars, workerVars, pickVars, waitVars, firstVars
      <3>1. TypeOK'
        BY DEF IInv, TypeOK
      <3>2. MutexInv' /\ CountMatchesList' /\ NodeInv'
        BY DEF IInv, MutexInv, CountMatchesList, Uncounted, NodeInv
      <3>3. PickInv' /\ FrontInv' /\ WalkInv'
        BY DEF IInv, PickInv, FrontInv, WalkInv, GamesWith
      <3> QED
        BY <3>1, <3>2, <3>3 DEF IInv
    <2> QED
      BY <2>1, <2>2, <2>3 DEF Next, Dead
  <1> QED
    BY <1>1, <1>2, PTL DEF Spec

-----------------------------------------------------------------------------
(* What follows from the invariant.                                        *)

\* The state of Match is always of its types; in particular ready_num, which
\* parse_readys lowers without looking, never drops below zero.
THEOREM TypeCorrect == Spec => []TypeOK
  BY Invariant, PTL DEF IInv

\* ready_num is always the length of readys, less a node being added.
THEOREM CountCorrect == Spec => []CountMatchesList
  BY Invariant, PTL DEF IInv

\* parse_readys never reads a node that is missing or not filled yet.
THEOREM ReadsSafe == Spec => []ReadsAreFilled
  <1>1. IInv => ReadsAreFilled
    <2> SUFFICES ASSUME IInv, gpc = "read"
                 PROVE  /\ Len(readys) >= TableSize
                        /\ \A k \in 1..TableSize : readys[k] # NULL
      BY DEF ReadsAreFilled
    <2> USE DEF IInv
    <2>1. ready_num \in Nat /\ Len(readys) \in Nat
      BY DEF TypeOK
    <2>2. ready_num >= TableSize
      BY DEF PickInv
    <2>3. CASE Uncounted
      <3>1. Len(readys) = ready_num + 1
        BY <2>3 DEF CountMatchesList
      <3>2. \A k \in 1..TableSize : k \in 1..Len(readys) /\ k # Len(readys)
        BY <2>1, <2>2, <3>1 DEF TableSize
      <3> QED
        BY <2>1, <2>2, <3>1, <3>2 DEF NodeInv, TableSize
    <2>4. CASE ~Uncounted
      <3>1. Len(readys) = ready_num
        BY <2>1, <2>4 DEF CountMatchesList
      <3>2. \A k \in 1..Len(readys) : readys[k] # NULL
        BY <2>4 DEF NodeInv, Uncounted
      <3> QED
        BY <2>1, <2>2, <3>1, <3>2 DEF TableSize
    <2> QED
      BY <2>3, <2>4
  <1> QED
    BY <1>1, Invariant, PTL

\* The users read keep the front of the list until they are removed.
THEOREM FrontKept == Spec => []PickedStayFirst
  <1>1. IInv => PickedStayFirst
    BY DEF IInv, PickInv, FrontInv, PickedStayFirst
  <1> QED
    BY <1>1, Invariant, PTL

\* Only parse_readys shortens the list.
LEMMA OnlyKillShortens ==
    ASSUME IInv, Next, ~ParseKill
    PROVE  Len(readys') >= Len(readys)
  <1> USE DEF IInv, listVars
  <1>0. Len(readys) \in Nat /\ readys \in Seq(User \cup {NULL})
    BY DEF TypeOK
  <1>1. CASE WorkerNext
    <2>1. PICK w \in Worker :
             \/ readys' = readys
             \/ LinkNode(w)
             \/ InitNode(w)
      BY <1>1 DEF WorkerNext, login, ready_start, SearchNoList, ReadyStep, LockReady,
                  CountReady, UnlockReady
    <2>2. CASE readys' = readys
      BY <1>0, <2>2
    <2>3. CASE LinkNode(w)
      <3>1. Len(readys') = Len(readys) + 1
        BY <1>0, <2>3, AppendProperties DEF LinkNode
      <3> QED
        BY <1>0, <3>1
    <2>4. CASE InitNode(w)
      <3>1. Len(readys') = Len(readys)
        BY <1>0, <2>4 DEF InitNode
      <3> QED
        BY <1>0, <3>1
    <2> QED
      BY <2>1, <2>2, <2>3, <2>4
  <1>2. CASE GameNext
    <2>1. readys' = readys
      BY <1>2 DEF GameNext, ParseReadys, ParseCheck, ParseRead, ParseLock,
                  ParseUnlock, MakeGame, DealTwice, FirstGames, WalkReadys,
                  send_waitdata
    <2> QED
      BY <1>0, <2>1
  <1>3. CASE Dead
    BY <1>0, <1>3 DEF Dead, vars
  <1> QED
    BY <1>1, <1>2, <1>3 DEF Next

\* Nodes leave readys only from its front, each for the seat that it was read
\* for, whatever names the users have.
THEOREM FrontOnly == Spec => LeavesFromFront
  <1>1. IInv /\ [Next]_vars =>
          [Len(readys') < Len(readys) =>
             readys' = Tail(readys) /\ Head(readys) = picked[killed']]_vars
    <2> SUFFICES ASSUME IInv, Next, Len(readys') < Len(readys)
                 PROVE  readys' = Tail(readys) /\ Head(readys) = picked[killed']
      OBVIOUS
    <2>0. readys \in Seq(User \cup {NULL}) /\ Len(readys) \in Nat
      BY DEF IInv, TypeOK
    <2>1. ParseKill
      <3> SUFFICES ASSUME ~ParseKill PROVE FALSE
        OBVIOUS
      <3>1. Len(readys') >= Len(readys)
        BY OnlyKillShortens
      <3>2. Len(readys') \in Nat
        <4>1. ~Dead
          BY <2>0 DEF Dead, vars, listVars
        <4>2. IInv'
          BY <4>1, RequestIInv, SearchIInv, ReadyStepIInv, ParseIInv, ServeIInv
             DEF Next, WorkerNext, GameNext
        <4> QED
          BY <4>2 DEF IInv, TypeOK
      <3> QED
        BY <2>0, <3>1, <3>2
    <2>2. /\ Len(readys) > 0 /\ readys[1] = picked[killed + 1]
          /\ readys' \in Seq(User \cup {NULL})
          /\ Len(readys') = Len(readys) - 1
          /\ \A k \in 1..Len(readys)-1 : readys'[k] = readys[k + 1]
      BY <2>1, KillTakesFront
    <2>3. /\ Tail(readys) \in Seq(User \cup {NULL})
          /\ Len(Tail(readys)) = Len(readys) - 1
          /\ \A k \in 1..Len(readys)-1 : Tail(readys)[k] = readys[k + 1]
      BY <2>0, <2>2, HeadTailProperties
    <2>4. readys' = Tail(readys)
      BY <2>0, <2>2, <2>3, SeqEqual
    <2>5. Head(readys) = picked[killed']
      BY <2>0, <2>1, <2>2 DEF ParseKill
    <2> QED
      BY <2>4, <2>5
  <1> QED
    BY <1>1, Invariant, PTL DEF Spec, LeavesFromFront

\* The unlocked walk of get_user denies only users that are absent.
THEOREM DenialsTrue == Spec => NotFoundIsAbsent
  <1>1. IInv /\ [Next]_vars =>
          [gpc = "walk" /\ gpc' = "serve" /\ look.pos > Len(readys) =>
             Hits(readys, look.name) = {} /\ GamesWith(look.name) = {}]_vars
    <2> SUFFICES ASSUME IInv, gpc = "walk", look.pos > Len(readys)
                 PROVE  Hits(readys, look.name) = {} /\ GamesWith(look.name) = {}
      OBVIOUS
    <2>1. /\ look.pos \in 1..Len(readys)+1 /\ GamesWith(look.name) = {}
          /\ \A k \in 1..look.pos-1 :
                readys[k] # NULL /\ NameOf[readys[k]] # look.name
      BY DEF IInv, WalkInv
    <2>2. Len(readys) \in Nat
      BY DEF IInv, TypeOK
    <2>3. \A k \in 1..Len(readys) : NameOf[readys[k]] # look.name
      BY <2>1, <2>2
    <2> QED
      BY <2>1, <2>3 DEF Hits
  <1> QED
    BY <1>1, Invariant, PTL DEF Spec, NotFoundIsAbsent

\* What is in a sequence stays in a longer one, at either end.
LEMMA ConcatMembers ==
    ASSUME NEW S, NEW s \in Seq(S), NEW t \in Seq(S)
    PROVE  ToSet(s) \subseteq ToSet(s \o t) /\ ToSet(t) \subseteq ToSet(s \o t)
  <1>1. /\ (s \o t) \in Seq(S) /\ Len(s \o t) = Len(s) + Len(t)
        /\ \A j \in 1..Len(s)+Len(t) :
              (s \o t)[j] = IF j <= Len(s) THEN s[j] ELSE t[j - Len(s)]
    BY ConcatProperties
  <1>2. Len(s) \in Nat /\ Len(t) \in Nat
    OBVIOUS
  <1>3. ASSUME NEW k \in 1..Len(s)
        PROVE  k \in 1..Len(s \o t) /\ (s \o t)[k] = s[k]
    BY <1>1, <1>2
  <1>4. ASSUME NEW k \in 1..Len(t)
        PROVE  k + Len(s) \in 1..Len(s \o t) /\ (s \o t)[k + Len(s)] = t[k]
    <2>1. k + Len(s) \in 1..Len(s)+Len(t) /\ ~(k + Len(s) <= Len(s))
          /\ (k + Len(s)) - Len(s) = k
      BY <1>2
    <2> QED
      BY <1>1, <2>1
  <1>5. DOMAIN s = 1..Len(s) /\ DOMAIN t = 1..Len(t)
        /\ DOMAIN (s \o t) = 1..Len(s \o t)
    BY <1>1
  <1>6. ASSUME NEW x \in ToSet(s) PROVE x \in ToSet(s \o t)
    BY <1>3, <1>5 DEF ToSet
  <1>7. ASSUME NEW x \in ToSet(t) PROVE x \in ToSet(s \o t)
    BY <1>4, <1>5 DEF ToSet
  <1> QED
    BY <1>6, <1>7

\* A new game: its users have its cards loaded and wait; the others' cards are
\* where they were.
LEMMA MakeGameHands ==
    ASSUME TypeOK, HandsKept, MakeGame
    PROVE  HandsKept'
  <1> DEFINE n == Len(games) + 1
  <1>1. /\ games' = Append(games, picked) /\ waiting' = waiting \o picked
        /\ delivered' = delivered
        /\ wait_senddata' = [u \in User |-> IF u \in ToSet(picked) THEN n
                                            ELSE wait_senddata[u]]
    BY DEF MakeGame, waitVars
  <1>2. /\ picked \in Seq(User) /\ games \in Seq(Seq(User))
        /\ waiting \in Seq(User) /\ Len(games) \in Nat
    BY DEF TypeOK
  <1>3. /\ Len(games') = n
        /\ \A k \in 1..Len(games) : games'[k] = games[k]
        /\ games'[n] = picked
    BY <1>1, <1>2, AppendProperties
  <1>4. ToSet(waiting) \subseteq ToSet(waiting') /\ ToSet(picked) \subseteq ToSet(waiting')
    BY <1>1, <1>2, ConcatMembers
  <1>5. ToSet(picked) \subseteq User
    BY <1>2 DEF ToSet
  <1> SUFFICES ASSUME NEW k \in 1..Len(games'), NEW u \in ToSet(games'[k])
               PROVE  \/ k \in delivered'[u]
                      \/ wait_senddata'[u] = k /\ u \in ToSet(waiting')
                      \/ SeatedAgain(u, k)'
    BY DEF HandsKept
  <1>6. CASE k = n
    <2>1. u \in ToSet(picked) /\ u \in User
      BY <1>3, <1>5, <1>6
    <2> QED
      BY <1>1, <1>4, <1>6, <2>1
  <1>7. CASE k # n
    <2>1. k \in 1..Len(games) /\ k < n /\ n \in 1..n
      BY <1>2, <1>3, <1>7
    <2>2. u \in ToSet(games[k]) /\ u \in User
      <3>1. games[k] \in Seq(User)
        BY <1>2, <2>1
      <3>2. u \in ToSet(games[k])
        BY <1>3, <2>1
      <3> QED
        BY <3>1, <3>2 DEF ToSet
    <2>3. CASE u \in ToSet(picked)
      <3>1. \E j \in 1..Len(games') : j > k /\ u \in ToSet(games'[j])
        BY <1>3, <2>1, <2>3
      <3> QED
        BY <3>1 DEF SeatedAgain
    <2>4. CASE u \notin ToSet(picked)
      <3>1. wait_senddata'[u] = wait_senddata[u]
        BY <1>1, <2>2, <2>4
      <3>2. SeatedAgain(u, k) => SeatedAgain(u, k)'
        <4>1. \A j \in 1..Len(games) : j \in 1..Len(games') /\ games'[j] = games[j]
          BY <1>2, <1>3
        <4> QED
          BY <4>1 DEF SeatedAgain
      <3>3. \/ k \in delivered[u]
            \/ wait_senddata[u] = k /\ u \in ToSet(waiting)
            \/ SeatedAgain(u, k)
        BY <2>1, <2>2 DEF HandsKept
      <3> QED
        BY <1>1, <1>4, <3>1, <3>2, <3>3
    <2> QED
      BY <2>3, <2>4
  <1> QED
    BY <1>6, <1>7

\* The user that send_waitdata serves gets the cards it had loaded; everybody
\* else that waits goes on waiting.
LEMMA ServedHands ==
    ASSUME TypeOK, HandsKept, send_waitdata
    PROVE  HandsKept'
  <1> DEFINE R == {k \in 1..Len(waiting) :
                     waiting[k] \in attached /\ wait_senddata[waiting[k]] # 0}
             p == First(R)
             v == waiting[p]
  <1>1. CASE R = {}
    <2>1. UNCHANGED <<games, waitVars>>
      BY <1>1 DEF send_waitdata
    <2> QED
      BY <2>1 DEF HandsKept, SeatedAgain, waitVars
  <1>2. CASE R # {}
    <2>1. /\ games' = games /\ waiting' = RemoveAt(waiting, p)
          /\ wait_senddata' = [wait_senddata EXCEPT ![v] = 0]
          /\ delivered' = [delivered EXCEPT ![v] = @ \cup {wait_senddata[v]}]
      BY <1>2 DEF send_waitdata
    <2>2. /\ waiting \in Seq(User) /\ games \in Seq(Seq(User))
          /\ Len(waiting) \in Nat
          /\ wait_senddata \in [User -> Nat] /\ delivered \in [User -> SUBSET Nat]
      BY DEF TypeOK
    <2>3. p \in 1..Len(waiting)
      <3>1. R \subseteq 1..Len(waiting) /\ R \in SUBSET Nat
        BY <2>2
      <3> HIDE DEF R
      <3> QED
        BY <1>2, <3>1, LeastOfNaturals
    <2> HIDE DEF p
    <2>4. v \in User
      BY <2>2, <2>3
    <2>5. /\ Len(RemoveAt(waiting, p)) = Len(waiting) - 1
          /\ RemoveAt(waiting, p) \in Seq(User)
          /\ \A j \in 1..Len(waiting)-1 :
                RemoveAt(waiting, p)[j] = IF j < p THEN waiting[j] ELSE waiting[j+1]
      BY <2>2, <2>3, RemoveAtFacts
    <2>6. ASSUME NEW x \in ToSet(waiting), x # v
          PROVE  x \in ToSet(waiting')
      <3>1. PICK i \in 1..Len(waiting) : x = waiting[i]
        BY <2>2 DEF ToSet
      <3>2. DOMAIN waiting' = 1..Len(waiting)-1
        BY <2>1, <2>2, <2>5
      <3>3. i # p
        BY <2>6, <3>1
      <3>4. CASE i < p
        <4>1. i \in 1..Len(waiting)-1 /\ waiting'[i] = x
          BY <2>1, <2>2, <2>3, <2>5, <3>1, <3>4, SMTT(60)
        <4> QED
          BY <3>2, <4>1 DEF ToSet
      <3>5. CASE i > p
        <4>1. i-1 \in 1..Len(waiting)-1 /\ ~(i-1 < p) /\ (i-1)+1 = i
          BY <2>2, <2>3, <3>5
        <4>2. waiting'[i-1] = x
          BY <2>1, <2>5, <3>1, <4>1
        <4> QED
          BY <3>2, <4>1, <4>2 DEF ToSet
      <3> QED
        BY <2>3, <3>3, <3>4, <3>5
    <2> SUFFICES ASSUME NEW k \in 1..Len(games), NEW u \in ToSet(games[k])
                 PROVE  \/ k \in delivered'[u]
                        \/ wait_senddata'[u] = k /\ u \in ToSet(waiting')
                        \/ SeatedAgain(u, k)'
      BY <2>1 DEF HandsKept
    <2>7. u \in User
      BY <2>2 DEF ToSet
    <2>8. SeatedAgain(u, k) => SeatedAgain(u, k)'
      BY <2>1 DEF SeatedAgain
    <2>9. \/ k \in delivered[u]
          \/ wait_senddata[u] = k /\ u \in ToSet(waiting)
          \/ SeatedAgain(u, k)
      BY DEF HandsKept
    <2> HIDE DEF v
    <2>10. CASE u = v
      <3>1. delivered'[u] = delivered[u] \cup {wait_senddata[u]}
        BY <2>1, <2>2, <2>4, <2>10
      <3> QED
        BY <2>8, <2>9, <3>1
    <2>11. CASE u # v
      <3>1. delivered'[u] = delivered[u] /\ wait_senddata'[u] = wait_senddata[u]
        BY <2>1, <2>2, <2>4, <2>7, <2>11
      <3>2. u \in ToSet(waiting) => u \in ToSet(waiting')
        BY <2>6, <2>11
      <3> QED
        BY <2>8, <2>9, <3>1, <3>2
    <2> QED
      BY <2>10, <2>11
  <1> QED
    BY <1>1, <1>2

\* No hand of cards is lost between display and the connection it is queued
\* to, whoever else waits, unless a later game's hand replaces it
\* (set_carddata, send_waitdata).
THEOREM HandsNotLost == Spec => []HandsKept
  <1>1. Init => HandsKept
    BY DEF Init, HandsKept
  <1>2. TypeOK /\ HandsKept /\ [Next]_vars => HandsKept'
    <2> SUFFICES ASSUME TypeOK, HandsKept, [Next]_vars PROVE HandsKept'
      OBVIOUS
    <2>1. CASE UNCHANGED <<games, waitVars>>
      BY <2>1 DEF HandsKept, SeatedAgain, waitVars
    <2>2. CASE MakeGame
      BY <2>2, MakeGameHands
    <2>3. CASE send_waitdata
      BY <2>3, ServedHands
    <2>4. CASE UNCHANGED vars
      BY <2>1, <2>4 DEF vars
    <2>5. CASE WorkerNext
      BY <2>1, <2>5 DEF WorkerNext, login, ready_start, SearchNoList, ReadyStep,
         LockReady,
         LinkNode, InitNode, CountReady, UnlockReady, Step
    <2>6. CASE GameNext
      BY <2>1, <2>2, <2>3, <2>6 DEF GameNext, ParseReadys, ParseCheck, ParseRead,
         ParseLock, ParseKill, ParseUnlock, DealTwice, FirstGames, WalkReadys
    <2> QED
      BY <2>4, <2>5, <2>6 DEF Next, Dead
  <1>3. IInv => TypeOK
    BY DEF IInv
  <1> QED
    BY <1>1, <1>2, <1>3, Invariant, PTL DEF Spec

-----------------------------------------------------------------------------
(* Match implements Matchmaking.                                           *)

\* The nodes with a value are the whole list, or all but the last.
LEMMA FilledFacts ==
    ASSUME IInv
    PROVE  /\ Filled \in Seq(User)
           /\ (\A w \in Worker : pc[w] # "init") => Filled = readys
           /\ (\E w \in Worker : pc[w] = "init") =>
                 /\ Len(readys) > 0
                 /\ Filled = SubSeq(readys, 1, Len(readys) - 1)
                 /\ \A k \in 1..Len(readys)-1 : readys[k] \in User
  <1> USE DEF IInv
  <1>0. readys \in Seq(User \cup {NULL}) /\ Len(readys) \in Nat
    BY DEF TypeOK
  <1>1. ASSUME NEW w \in Worker, pc[w] = "init"
        PROVE  /\ Len(readys) > 0
               /\ Filled = SubSeq(readys, 1, Len(readys) - 1)
               /\ \A k \in 1..Len(readys)-1 : readys[k] \in User
    <2>1. Len(readys) > 0 /\ readys[Len(readys)] = NULL
      BY <1>1 DEF NodeInv
    <2>2. readys # << >> /\ Last(readys) = NULL
      BY <1>0, <2>1 DEF Last
    <2>3. \A k \in 1..Len(readys)-1 : readys[k] # NULL
      BY <1>0 DEF NodeInv
    <2> QED
      BY <1>0, <2>1, <2>2, <2>3 DEF Filled, Front
  <1>2. ASSUME \A w \in Worker : pc[w] # "init"
        PROVE  Filled = readys /\ Filled \in Seq(User)
    <2>1. \A k \in 1..Len(readys) : readys[k] \in User
      BY <1>0, <1>2 DEF NodeInv
    <2>2. ~(readys # << >> /\ Last(readys) = NULL)
      <3> SUFFICES ASSUME readys # << >> PROVE Last(readys) # NULL
        OBVIOUS
      <3>1. Len(readys) \in 1..Len(readys)
        BY <1>0
      <3> QED
        BY <2>1, <3>1 DEF Last
    <2> QED
      BY <1>0, <2>1, <2>2 DEF Filled
  <1>3. ASSUME NEW w \in Worker, pc[w] = "init"
        PROVE  Filled \in Seq(User)
    <2>1. \A k \in 1..Len(readys)-1 : readys[k] \in User
      BY <1>1, <1>3
    <2> QED
      BY <1>0, <1>1, <1>3, <2>1, SubSeqProperties
  <1> QED
    BY <1>1, <1>2, <1>3

\* The users in the game thread's hand form a sequence of users.
LEMMA HandType == ASSUME IInv PROVE Hand \in Seq(User)
  <1>1. picked \in Seq(User) /\ killed \in Nat
    BY DEF IInv, TypeOK
  <1>2. gpc = "kill" => killed <= Len(picked)
    <2>1. gpc = "kill" => Len(picked) = 3
      BY DEF IInv, PickInv, TableSize
    <2>2. killed \in 0..3
      BY DEF IInv, TypeOK, TableSize
    <2> QED
      BY <2>1, <2>2
  <1>3. gpc = "kill" => SubSeq(picked, 1, killed) \in Seq(User)
    <2> SUFFICES ASSUME gpc = "kill" PROVE SubSeq(picked, 1, killed) \in Seq(User)
      OBVIOUS
    <2>1. \A i \in 1..killed : picked[i] \in User
      BY <1>1, <1>2
    <2> QED
      BY <1>1, <2>1, SubSeqProperties
  <1> QED
    BY <1>1, <1>3 DEF Hand

\* Linking a node hides nothing and shows nothing; filling it is the moment
\* the user joins the queue.
LEMMA ReadyStepMaps ==
    ASSUME IInv, IInv', NEW w \in Worker, ReadyStep(w)
    PROVE  \/ Waiting' = Waiting
           \/ \E u \in User : Waiting' = Append(Waiting, u)
  <1> USE DEF IInv, Step, pickVars
  <1>0. /\ readys \in Seq(User \cup {NULL}) /\ Len(readys) \in Nat
        /\ Hand \in Seq(User) /\ Filled \in Seq(User)
    <2>1. readys \in Seq(User \cup {NULL})
      BY DEF TypeOK
    <2>2. Hand \in Seq(User) /\ Filled \in Seq(User)
      <3> HIDE DEF IInv
      <3> QED
        BY HandType, FilledFacts
    <2> QED
      BY <2>1, <2>2
  <1>1. Hand' = Hand
    BY DEF ReadyStep, LockReady, LinkNode, InitNode, CountReady, UnlockReady, Hand
  <1>2. CASE LinkNode(w)
    <2>1. \A v \in Worker : pc[v] # "init"
      BY <1>2 DEF LinkNode, MutexInv, TypeOK
    <2>2. Filled = readys
      BY <2>1, FilledFacts
    <2>3. readys' # << >> /\ Last(readys') = NULL /\ Front(readys') = readys
      <3>1. /\ readys' \in Seq(User \cup {NULL}) /\ readys' # << >>
            /\ Len(readys') = Len(readys) + 1
            /\ \A k \in 1..Len(readys) : readys'[k] = readys[k]
            /\ readys'[Len(readys) + 1] = NULL
        <4>1. readys' = Append(readys, NULL) /\ NULL \in User \cup {NULL}
          BY <1>2 DEF LinkNode
        <4> QED
          BY <1>0, <4>1, AppendProperties
      <3>2. /\ SubSeq(readys', 1, Len(readys)) \in Seq(User \cup {NULL})
            /\ Len(SubSeq(readys', 1, Len(readys))) = Len(readys)
            /\ \A k \in 1..Len(readys) :
                  SubSeq(readys', 1, Len(readys))[k] = readys[k]
        BY <1>0, <3>1
      <3>3. SubSeq(readys', 1, Len(readys)) = readys
        BY <1>0, <3>2, SeqEqual
      <3> QED
        BY <1>0, <3>1, <3>3 DEF Front, Last
    <2>4. Filled' = readys
      BY <2>3 DEF Filled
    <2> QED
      BY <1>1, <2>2, <2>4 DEF Waiting
  <1>3. CASE InitNode(w)
    <2> DEFINE n == Len(readys)
               f == SubSeq(readys, 1, n - 1)
    <2>1. /\ n > 0 /\ Filled = f /\ req[w] \in User
          /\ \A k \in 1..n-1 : readys[k] \in User
      <3>1. pc[w] = "init" /\ pc \in [Worker -> WorkerPC] /\ req \in [Worker -> User \cup {NULL}]
        BY <1>3 DEF InitNode, Step, IInv, TypeOK
      <3> QED
        BY <3>1, FilledFacts DEF NodeInv, IInv
    <2>2. /\ readys' \in Seq(User \cup {NULL}) /\ Len(readys') = n
          /\ readys'[n] = req[w]
          /\ \A k \in 1..n-1 : readys'[k] = readys[k]
      BY <1>0, <1>3, <2>1 DEF InitNode
    <2>3. Filled' = readys'
      <3>1. Last(readys') # NULL
        BY <2>1, <2>2 DEF Last
      <3> QED
        BY <3>1 DEF Filled
    <2>4. f \in Seq(User) /\ Len(f) = n - 1 /\ \A k \in 1..n-1 : f[k] = readys[k]
      <3>1. n \in Int /\ n - 1 \in Int /\ n - 1 >= 0
        BY <1>0, <2>1
      <3>2. /\ f \in Seq(User)
            /\ Len(f) = IF 1 <= n - 1 THEN (n - 1) - 1 + 1 ELSE 0
            /\ \A k \in 1..(n-1)-1+1 : f[k] = readys[1+k-1]
        BY <2>1, <3>1, SubSeqProperties
      <3> HIDE DEF f, n
      <3>3. Len(f) = n - 1
        <4>1. CASE 1 <= n - 1
          BY <3>1, <3>2, <4>1
        <4>2. CASE ~(1 <= n - 1)
          BY <3>1, <3>2, <4>2
        <4> QED
          BY <4>1, <4>2
      <3>4. \A k \in 1..n-1 : k \in 1..(n-1)-1+1 /\ 1 + k - 1 = k
        BY <3>1
      <3>5. \A k \in 1..n-1 : f[k] = readys[k]
        BY <3>2, <3>4
      <3> QED
        BY <3>2, <3>3, <3>5
    <2>5. /\ Append(f, req[w]) \in Seq(User)
          /\ Len(Append(f, req[w])) = n
          /\ \A k \in 1..n-1 : Append(f, req[w])[k] = readys[k]
          /\ Append(f, req[w])[n] = req[w]
      <3> HIDE DEF f
      <3> QED
        BY <1>0, <2>1, <2>4, AppendProperties
    <2>6. \A k \in 1..n : readys'[k] = Append(f, req[w])[k]
      BY <1>0, <2>1, <2>2, <2>5
    <2>7. readys' = Append(f, req[w])
      <3>1. Append(f, req[w]) \in Seq(User \cup {NULL})
        BY <2>5
      <3> HIDE DEF f
      <3> QED
        BY <2>2, <2>5, <2>6, <3>1, SeqEqual
    <2>8. Waiting' = Append(Waiting, req[w])
      <3> HIDE DEF f
      <3>1. Hand \o Append(f, req[w]) = Append(Hand \o f, req[w])
        BY <1>0, <2>1, <2>4
      <3> QED
        BY <1>1, <2>1, <2>3, <2>7, <3>1 DEF Waiting
    <2> QED
      BY <2>1, <2>8
  <1>4. CASE readys' = readys
    BY <1>1, <1>4 DEF Waiting, Filled
  <1> QED
    BY <1>2, <1>3, <1>4 DEF ReadyStep, LockReady, CountReady, UnlockReady

\* A removal moves the front user from the list to the hand; the new game
\* takes the hand, which is the front of the queue.
LEMMA ParseMaps ==
    ASSUME IInv, IInv', ParseReadys
    PROVE  \/ Waiting' = Waiting /\ games' = games
           \/ Abstract!Seat
  <1> USE DEF listVars, workerVars
  <1>0. /\ readys \in Seq(User \cup {NULL}) /\ Len(readys) \in Nat
        /\ picked \in Seq(User) /\ killed \in 0..3
    BY DEF IInv, TypeOK, TableSize
  <1>1. Hand \in Seq(User) /\ Filled \in Seq(User)
    BY HandType, FilledFacts
  <1>2. CASE ParseKill
    <2>1. /\ gpc = "kill" /\ gpc' = "kill" /\ killed < 3 /\ killed' = killed + 1
          /\ picked' = picked /\ games' = games /\ pc' = pc
      BY <1>2 DEF ParseKill, TableSize
    <2>2. \A w \in Worker : pc[w] # "init" /\ pc'[w] # "init"
      BY <2>1 DEF IInv, MutexInv, TypeOK
    <2>3. Len(picked) = 3
      BY <2>1 DEF IInv, PickInv, TableSize
    <2>4. Filled = readys /\ Filled' = readys' /\ Filled' \in Seq(User)
      <3>1. Filled = readys
        BY <2>2, FilledFacts
      <3>2. readys' \in Seq(User \cup {NULL})
        BY DEF IInv, TypeOK
      <3>3. \A k \in 1..Len(readys') : readys'[k] \in User
        BY <2>2, <3>2 DEF IInv, NodeInv
      <3>4. readys' # << >> => Last(readys') # NULL
        <4> SUFFICES ASSUME readys' # << >> PROVE Last(readys') # NULL
          OBVIOUS
        <4>1. Len(readys') \in 1..Len(readys')
          BY <3>2
        <4> QED
          BY <3>3, <4>1 DEF Last
      <3>5. Filled' = readys'
        BY <3>4 DEF Filled
      <3>6. readys' \in Seq(User)
        BY <3>2, <3>3
      <3> QED
        BY <3>1, <3>5, <3>6
    <2>5. /\ Len(readys) > 0 /\ readys[1] = picked[killed + 1]
          /\ Len(readys') = Len(readys) - 1
          /\ \A k \in 1..Len(readys)-1 : readys'[k] = readys[k + 1]
      BY <1>2, KillTakesFront
    <2> DEFINE h == SubSeq(picked, 1, killed)
               g == SubSeq(picked, 1, killed + 1)
    <2>6. Hand = h /\ Hand' = g
      BY <2>1 DEF Hand
    <2>7. /\ h \in Seq(User) /\ Len(h) = killed
          /\ \A k \in 1..killed : h[k] = picked[k]
      BY <1>0, <2>1, <2>3
    <2>8. /\ g \in Seq(User) /\ Len(g) = killed + 1
          /\ \A k \in 1..killed+1 : g[k] = picked[k]
      BY <1>0, <2>1, <2>3
    <2> HIDE DEF h, g
    <2>9. h \o readys = g \o readys'
      <3>1. /\ h \o readys \in Seq(User)
            /\ Len(h \o readys) = killed + Len(readys)
            /\ \A i \in 1..killed+Len(readys) :
                  (h \o readys)[i] = IF i <= killed THEN picked[i] ELSE readys[i - killed]
        BY <1>0, <1>1, <2>4, <2>7, ConcatProperties
      <3>2. /\ g \o readys' \in Seq(User)
            /\ Len(g \o readys') = killed + Len(readys)
            /\ \A i \in 1..killed+Len(readys) :
                  (g \o readys')[i] = IF i <= killed + 1 THEN picked[i]
                                      ELSE readys'[i - (killed + 1)]
        <4>1. readys' \in Seq(User) /\ Len(readys') = Len(readys) - 1
          BY <2>4, <2>5
        <4>2. /\ g \o readys' \in Seq(User)
              /\ Len(g \o readys') = Len(g) + Len(readys')
              /\ \A i \in 1..Len(g)+Len(readys') :
                    (g \o readys')[i] = IF i <= Len(g) THEN g[i] ELSE readys'[i - Len(g)]
          BY <2>8, <4>1, ConcatProperties, SMTT(60)
        <4>3. Len(g) + Len(readys') = killed + Len(readys)
          BY <1>0, <2>8, <4>1
        <4>4. ASSUME NEW i \in 1..killed+Len(readys)
              PROVE  (g \o readys')[i] = IF i <= killed + 1 THEN picked[i]
                                         ELSE readys'[i - (killed + 1)]
          <5>1. i <= killed + 1 => i \in 1..killed+1
            BY <1>0
          <5> QED
            BY <2>8, <4>2, <4>3, <5>1
        <4> QED
          BY <4>2, <4>3, <4>4
      <3>3. ASSUME NEW i \in 1..killed+Len(readys)
            PROVE  (h \o readys)[i] = (g \o readys')[i]
        <4>1. CASE i <= killed
          <5>1. i <= killed + 1
            BY <1>0, <4>1
          <5>2. (h \o readys)[i] = picked[i]
            BY <3>1, <4>1
          <5>3. (g \o readys')[i] = picked[i]
            BY <3>2, <5>1
          <5> QED
            BY <5>2, <5>3
        <4>2. CASE i = killed + 1
          BY <1>0, <2>5, <3>1, <3>2, <4>2
        <4>3. CASE i > killed + 1
          <5>1. /\ i - (killed + 1) \in 1..Len(readys)-1
                /\ (i - (killed + 1)) + 1 = i - killed
            BY <1>0, <4>3
          <5>2. readys'[i - (killed + 1)] = readys[i - killed]
            BY <2>5, <5>1
          <5> QED
            <6>1. (h \o readys)[i] = readys[i - killed]
              BY <1>0, <3>1, <4>3
            <6>2. (g \o readys')[i] = readys'[i - (killed + 1)]
              BY <1>0, <3>2, <4>3, SMTT(60)
            <6> QED
              BY <5>2, <6>1, <6>2
        <4>4. i <= killed \/ i = killed + 1 \/ i > killed + 1
          <5>1. i \in Int /\ killed \in Int
            BY <1>0
          <5> QED
            BY <5>1
        <4> QED
          BY <4>1, <4>2, <4>3, <4>4
      <3> QED
        BY <3>1, <3>2, <3>3, SeqEqual
    <2> QED
      BY <2>1, <2>4, <2>6, <2>9 DEF Waiting
  <1>3. CASE MakeGame
    <2>1. /\ gpc = "make" /\ gpc' = "check" /\ readys' = readys
          /\ games' = Append(games, picked) /\ Len(picked) = 3
      BY <1>3 DEF MakeGame, IInv, PickInv, TableSize
    <2>2. Hand = picked /\ Hand' = << >> /\ Filled' = Filled
      BY <2>1 DEF Hand, Filled
    <2>3. Waiting = picked \o Filled /\ Waiting' = Filled
      BY <1>1, <2>2 DEF Waiting
    <2> DEFINE q == picked \o Filled
    <2>4. /\ q \in Seq(User) /\ Len(q) = 3 + Len(Filled) /\ Len(Filled) \in Nat
          /\ \A i \in 1..3+Len(Filled) :
                q[i] = IF i <= 3 THEN picked[i] ELSE Filled[i - 3]
      <3>1. Len(Filled) \in Nat
        BY <1>1
      <3>2. /\ q \in Seq(User) /\ Len(q) = Len(picked) + Len(Filled)
            /\ \A i \in 1..Len(picked)+Len(Filled) :
                  q[i] = IF i <= Len(picked) THEN picked[i]
                         ELSE Filled[i - Len(picked)]
        BY <1>0, <1>1, ConcatProperties
      <3> QED
        BY <2>1, <3>1, <3>2
    <2> HIDE DEF q
    <2>5. SubSeq(q, 1, 3) = picked
      <3>1. /\ SubSeq(q, 1, 3) \in Seq(User) /\ Len(SubSeq(q, 1, 3)) = 3
            /\ \A i \in 1..3 : SubSeq(q, 1, 3)[i] = picked[i]
        BY <2>4
      <3> QED
        BY <1>0, <2>1, <3>1, SeqEqual
    <2>6. SubSeq(q, 3 + 1, Len(q)) = Filled
      <3>1. \A i \in 4..Len(q) : q[i] \in User
        BY <2>4
      <3>2. /\ SubSeq(q, 4, Len(q)) \in Seq(User)
            /\ Len(SubSeq(q, 4, Len(q))) = IF 4 <= Len(q) THEN Len(q) - 4 + 1 ELSE 0
            /\ \A i \in 1..Len(q)-4+1 : SubSeq(q, 4, Len(q))[i] = q[4+i-1]
        BY <2>4, <3>1, SubSeqProperties
      <3>3. Len(SubSeq(q, 4, Len(q))) = Len(Filled)
        BY <2>4, <3>2
      <3>4. \A i \in 1..Len(Filled) : SubSeq(q, 4, Len(q))[i] = Filled[i]
        BY <2>4, <3>2
      <3> QED
        <4>1. 3 + 1 = 4
          OBVIOUS
        <4>2. SubSeq(q, 4, Len(q)) = Filled
          BY <1>1, <3>2, <3>3, <3>4, SeqEqual
        <4> QED
          BY <4>1, <4>2
    <2>7. Len(q) >= 3
      BY <2>4
    <2> QED
      BY <2>1, <2>3, <2>5, <2>6, <2>7 DEF q, Abstract!Seat, Abstract!Seats
  <1>4. CASE ParseLock
    <2>1. killed = 0
      BY <1>4 DEF ParseLock, IInv, PickInv
    <2>2. SubSeq(picked, 1, 0) = << >>
      BY SubSeqEmpty
    <2>3. gpc = "lock" /\ gpc' = "kill" /\ UNCHANGED <<readys, picked, killed, games>>
      BY <1>4 DEF ParseLock, pickVars
    <2>4. Hand' = Hand
      BY <2>1, <2>2, <2>3 DEF Hand
    <2> QED
      BY <2>3, <2>4 DEF Waiting, Filled
  <1>5. CASE ParseUnlock
    <2>1. killed = 3 /\ Len(picked) = 3
      BY <1>5 DEF ParseUnlock, IInv, PickInv, TableSize
    <2>2. SubSeq(picked, 1, 3) = picked
      BY <1>0, <2>1, SubSeqFull
    <2>3. gpc = "kill" /\ gpc' = "make" /\ UNCHANGED <<readys, picked, killed, games>>
      BY <1>5 DEF ParseUnlock, pickVars
    <2>4. Hand' = Hand
      BY <2>1, <2>2, <2>3 DEF Hand
    <2> QED
      BY <2>3, <2>4 DEF Waiting, Filled
  <1>6. CASE ParseCheck \/ ParseRead
    <2>1. /\ gpc \in {"check", "read"} /\ gpc' \in {"check", "read", "lock", "serve"}
          /\ UNCHANGED <<readys, games>>
      BY <1>6 DEF ParseCheck, ParseRead
    <2> QED
      BY <2>1 DEF Waiting, Hand, Filled
  <1>7. CASE DealTwice
    BY <1>7 DEF DealTwice, Waiting, Hand, Filled, listVars, pickVars
  <1> QED
    BY <1>2, <1>3, <1>4, <1>5, <1>6, <1>7 DEF ParseReadys

\* Workers that append under the mutex and the game thread that reads without
\* it together behave as one FIFO queue from which tables of three are taken:
\* no ready request is lost, served twice or overtaken.
THEOREM Refinement == Spec => Implements
  <1>1. Init => Abstract!Init
    BY DEF Init, Abstract!Init, Waiting, Hand, Filled
  <1>2. IInv /\ IInv' /\ [Next]_vars => [Abstract!Next]_(Abstract!vars)
    <2> SUFFICES ASSUME IInv, IInv', [Next]_vars
                 PROVE  [Abstract!Next]_(Abstract!vars)
      OBVIOUS
    <2>1. CASE WorkerNext
      <3>1. PICK w \in Worker :
               \/ \E n \in Name : login(w, n)
               \/ \E inx \in Worker \cup Stray, n \in Name : ready_start(w, inx, n)
               \/ SearchNoList(w)
               \/ ReadyStep(w)
        BY <2>1 DEF WorkerNext
      <3>2. CASE ~ReadyStep(w)
        BY <3>1, <3>2 DEF login, ready_start, SearchNoList, Waiting, Hand, Filled, pickVars,
                          listVars, Abstract!vars
      <3>3. CASE ReadyStep(w)
        <4>1. games' = games
          BY <3>3 DEF ReadyStep, LockReady, LinkNode, InitNode, CountReady,
                      UnlockReady, Step
        <4>2. \/ Waiting' = Waiting
              \/ \E u \in User : Waiting' = Append(Waiting, u)
          BY <3>3, ReadyStepMaps
        <4> QED
          BY <4>1, <4>2 DEF Abstract!Next, Abstract!Join, Abstract!vars
      <3> QED
        BY <3>2, <3>3
    <2>2. CASE ParseReadys
      BY <2>2, ParseMaps DEF Abstract!Next, Abstract!vars
    <2>3. CASE (\E n \in Name : FirstGames(n)) \/ WalkReadys \/ send_waitdata
      <3>1. /\ gpc \in {"serve", "walk"} /\ gpc' \in {"serve", "walk", "check"}
            /\ UNCHANGED <<readys, games>>
        BY <2>3 DEF FirstGames, WalkReadys, send_waitdata, listVars
      <3> QED
        BY <3>1 DEF Waiting, Hand, Filled, Abstract!vars
    <2>4. CASE UNCHANGED vars
      BY <2>4 DEF vars, listVars, pickVars, Waiting, Hand, Filled, Abstract!vars
    <2> QED
      BY <2>1, <2>2, <2>3, <2>4 DEF Next, GameNext, Dead
  <1> QED
    BY <1>1, <1>2, Invariant, PTL DEF Spec, Implements, Abstract!Spec

=============================================================================
