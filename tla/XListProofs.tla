---------------------------- MODULE XListProofs ----------------------------
(***************************************************************************)
(* Proofs about XList and XListMore: no sequence of calls, those that loop *)
(* over the links included, breaks the links of a list, leaks a node or    *)
(* frees one in use, or loses a string, and every call does to the list    *)
(* what its name says of a sequence, for any number of lists, nodes, keys  *)
(* and values.                                                             *)
(***************************************************************************)
EXTENDS XListMore, SequenceTheorems, NaturalsInduction,
        WellFoundedInduction, TLAPS

USE NullAssumption, ValueAssumption

-----------------------------------------------------------------------------
(* Sequences.                                                              *)

\* Inserting at position k shifts the rest by one (xlist_insert).
LEMMA InsertAtFacts ==
    ASSUME NEW S, NEW s \in Seq(S), NEW k \in 1..Len(s)+1, NEW x \in S
    PROVE  /\ InsertAt(s, k, x) \in Seq(S)
           /\ Len(InsertAt(s, k, x)) = Len(s) + 1
           /\ \A j \in 1..Len(s)+1 :
                 InsertAt(s, k, x)[j] = IF j < k THEN s[j]
                                        ELSE IF j = k THEN x ELSE s[j-1]
  <1> DEFINE l == SubSeq(s, 1, k-1)
             r == SubSeq(s, k, Len(s))
  <1>1. /\ l \in Seq(S) /\ Len(l) = k - 1
        /\ \A j \in 1..k-1 : l[j] = s[j]
    BY SubSeqProperties
  <1>2. /\ r \in Seq(S) /\ Len(r) = Len(s) - k + 1
        /\ \A j \in 1..Len(s)-k+1 : r[j] = s[k+j-1]
    <2>1. \A j \in k..Len(s) : s[j] \in S
      OBVIOUS
    <2>2. /\ r \in Seq(S)
          /\ Len(r) = IF k <= Len(s) THEN Len(s)-k+1 ELSE 0
          /\ \A j \in 1..Len(s)-k+1 : r[j] = s[k+j-1]
      BY <2>1, SubSeqProperties
    <2> QED
      BY <2>2
  <1> HIDE DEF l, r
  <1>3. <<x>> \in Seq(S) /\ Len(<<x>>) = 1 /\ <<x>>[1] = x
    OBVIOUS
  <1>4. /\ l \o <<x>> \in Seq(S) /\ Len(l \o <<x>>) = k
        /\ \A j \in 1..k : (l \o <<x>>)[j] = IF j < k THEN s[j] ELSE x
    <2>1. /\ l \o <<x>> \in Seq(S) /\ Len(l \o <<x>>) = Len(l) + Len(<<x>>)
          /\ \A j \in 1..Len(l)+Len(<<x>>) :
                (l \o <<x>>)[j] = IF j <= Len(l) THEN l[j] ELSE <<x>>[j - Len(l)]
      BY <1>1, <1>3, ConcatProperties
    <2> QED
      BY <1>1, <1>3, <2>1
  <1> DEFINE m == l \o <<x>>
  <1> HIDE DEF m
  <1>5. /\ m \o r \in Seq(S) /\ Len(m \o r) = Len(m) + Len(r)
        /\ \A j \in 1..Len(m)+Len(r) :
              (m \o r)[j] = IF j <= Len(m) THEN m[j] ELSE r[j - Len(m)]
    <2>1. m \in Seq(S) /\ r \in Seq(S)
      BY <1>2, <1>4 DEF m
    <2> QED
      BY <2>1, ConcatProperties
  <1>6. Len(m) = k /\ \A j \in 1..k : m[j] = IF j < k THEN s[j] ELSE x
    BY <1>4 DEF m
  <1>7. InsertAt(s, k, x) = m \o r
    BY DEF InsertAt, m, l, r
  <1>8. Len(s) \in Nat
    OBVIOUS
  <1>9. \A j \in 1..Len(s)+1 :
           (m \o r)[j] = IF j < k THEN s[j] ELSE IF j = k THEN x ELSE s[j-1]
    BY <1>2, <1>5, <1>6, <1>8
  <1>10. Len(m \o r) = Len(s) + 1
    BY <1>2, <1>5, <1>6, <1>8
  <1> QED
    BY <1>5, <1>7, <1>9, <1>10, Zenon

\* The same, to be cited by name.
PutInto(t, S, s, k, x) ==
    /\ t \in Seq(S) /\ Len(t) = Len(s) + 1
    /\ \A j \in 1..Len(s)+1 : t[j] = IF j < k THEN s[j] ELSE IF j = k THEN x ELSE s[j-1]
LEMMA InsertAtIs ==
    ASSUME NEW S, NEW s \in Seq(S), NEW k \in 1..Len(s)+1, NEW x \in S
    PROVE  PutInto(InsertAt(s, k, x), S, s, k, x)
  BY InsertAtFacts DEF PutInto

\* Taking out position k of a sequence leaves a sequence, one shorter, with
\* the rest in order (xlist_break).
LEMMA RemoveAtFacts ==
    ASSUME NEW S, NEW s \in Seq(S), NEW k \in 1..Len(s)
    PROVE  /\ RemoveAt(s, k) \in Seq(S)
           /\ Len(RemoveAt(s, k)) = Len(s) - 1
           /\ \A j \in 1..Len(s)-1 :
                 RemoveAt(s, k)[j] = IF j < k THEN s[j] ELSE s[j+1]
  <1> DEFINE l == SubSeq(s, 1, k-1)
             r == SubSeq(s, k+1, Len(s))
  <1>1. /\ l \in Seq(S) /\ Len(l) = k - 1
        /\ \A j \in 1..k-1 : l[j] = s[j]
    BY SubSeqProperties
  <1>2. /\ r \in Seq(S) /\ Len(r) = Len(s) - k
        /\ \A j \in 1..Len(s)-k : r[j] = s[k+j]
    <2>1. \A j \in k+1..Len(s) : s[j] \in S
      OBVIOUS
    <2>2. /\ r \in Seq(S)
          /\ Len(r) = IF k+1 <= Len(s) THEN Len(s)-(k+1)+1 ELSE 0
          /\ \A j \in 1..Len(s)-(k+1)+1 : r[j] = s[k+1+j-1]
      BY <2>1, SubSeqProperties
    <2> QED
      BY <2>2
  <1> HIDE DEF l, r
  <1>3. /\ l \o r \in Seq(S)
        /\ Len(l \o r) = Len(l) + Len(r)
        /\ \A j \in 1..Len(l)+Len(r) :
              (l \o r)[j] = IF j <= Len(l) THEN l[j] ELSE r[j - Len(l)]
    <2>1. l \in Seq(S) /\ r \in Seq(S)
      BY <1>1, <1>2
    <2> QED
      BY <2>1, ConcatProperties
  <1>4. RemoveAt(s, k) = l \o r
    BY DEF RemoveAt, l, r
  <1>5. \A j \in 1..Len(s)-1 : (l \o r)[j] = IF j < k THEN s[j] ELSE s[j+1]
    BY <1>1, <1>2, <1>3
  <1>6. (l \o r) \in Seq(S) /\ Len(l \o r) = Len(s) - 1
    BY <1>1, <1>2, <1>3
  <1> QED
    BY <1>4, <1>5, <1>6, Zenon

LEMMA MoreThanOne ==
    ASSUME NEW n \in Nat, n # 0, n # 1
    PROVE  n > 1 /\ 1 \in 1..n-1 /\ n-1 \in 1..n-1 /\ (n-1)+1 = n
           /\ 1+1 \in 1..n /\ 2 \in 1..n /\ n \in 1..n /\ 1 \in 1..n
  OBVIOUS

\* What is in a sequence is at some position.
LEMMA RangeIs ==
    ASSUME NEW S, NEW s \in Seq(S)
    PROVE  Range(s) = {s[j] : j \in 1..Len(s)}
  BY DEF Range

-----------------------------------------------------------------------------
(* A list in the heap.                                                     *)

\* ShapeOf, of a sequence of different nodes and of the three fields.
IsList(s, nx, pv, dt) ==
    /\ s \in Seq(Node) /\ Len(s) > 0
    /\ \A j, k \in 1..Len(s) : s[j] = s[k] => j = k
    /\ \A k \in 1..Len(s) - 1 : nx[s[k]] = s[k+1] /\ pv[s[k+1]] = s[k]
    /\ nx[s[Len(s)]] = NULL /\ pv[s[1]] = s[Len(s)]
    /\ dt[s[Len(s)]] = Blank

\* The items in it.
Items(s, dt) == [k \in 1..Len(s) - 1 |-> dt[s[k]]]

Links == [Node -> Node \cup {NULL}]

\* A list is not disturbed by what happens to other nodes.
LEMMA ListFrame ==
    ASSUME NEW s, NEW nx, NEW pv, NEW dt, NEW nx2, NEW pv2, NEW dt2,
           IsList(s, nx, pv, dt),
           \A k \in 1..Len(s) : /\ nx2[s[k]] = nx[s[k]] /\ pv2[s[k]] = pv[s[k]]
                                /\ dt2[s[k]] = dt[s[k]]
    PROVE  IsList(s, nx2, pv2, dt2) /\ Items(s, dt2) = Items(s, dt)
  <1>1. Len(s) \in Nat /\ Len(s) > 0
    BY DEF IsList
  <1>2. IsList(s, nx2, pv2, dt2)
    BY <1>1 DEF IsList
  <1>3. Items(s, dt2) = Items(s, dt)
    BY <1>1 DEF Items
  <1> QED
    BY <1>2, <1>3

\* What Linked does to the fields.
Spliced(s, k, n, item, nx, pv, dt, nx2, pv2, dt2) ==
    /\ nx2 = [nx EXCEPT ![n] = nx[s[k]], ![s[k]] = n]
    /\ pv2 = IF nx[s[k]] # NULL THEN [pv EXCEPT ![nx[s[k]]] = n, ![n] = s[k]]
             ELSE [pv EXCEPT ![s[1]] = n, ![n] = s[k]]
    /\ dt2 = [dt EXCEPT ![s[k]] = item, ![n] = dt[s[k]]]

\* A node linked behind the k-th one takes over its item, which leaves the k-th
\* for the new one (xlist_insert, xlist_push, and xlist_cat at the spare node).
LEMMA InsertList ==
    ASSUME NEW s, NEW nx \in Links, NEW pv \in Links, NEW dt \in [Node -> Item],
           IsList(s, nx, pv, dt),
           NEW k \in 1..Len(s), NEW n \in Node, NEW item \in Item,
           n \notin Range(s), NEW nx2, NEW pv2, NEW dt2,
           Spliced(s, k, n, item, nx, pv, dt, nx2, pv2, dt2)
    PROVE  /\ IsList(InsertAt(s, k + 1, n), nx2, pv2, dt2)
           /\ Items(InsertAt(s, k + 1, n), dt2) = InsertAt(Items(s, dt), k, item)
           /\ InsertAt(s, k + 1, n)[1] = s[1]
           /\ Range(InsertAt(s, k + 1, n)) = Range(s) \cup {n}
  <1> DEFINE N == Len(s)
             t == InsertAt(s, k + 1, n)
  <1>1. s \in Seq(Node) /\ N \in Nat /\ N > 0 /\ \A j \in 1..N : s[j] \in Node
    BY DEF IsList
  <1>2. /\ t \in Seq(Node) /\ Len(t) = N + 1
        /\ \A j \in 1..N+1 : t[j] = IF j < k+1 THEN s[j]
                                    ELSE IF j = k+1 THEN n ELSE s[j-1]
    <2>1. s \in Seq(Node) /\ k + 1 \in 1..Len(s)+1 /\ n \in Node
      BY <1>1
    <2>2. PutInto(t, Node, s, k + 1, n)
      BY <2>1, InsertAtIs
    <2> HIDE DEF t
    <2> QED
      BY <2>2 DEF PutInto
  <1> HIDE DEF t
  <1>3. \A j \in 1..N : s[j] # n
    BY <1>1 DEF Range
  <1>4. \A i, j \in 1..N : s[i] = s[j] => i = j
    BY DEF IsList
  <1>5. \A j \in 1..N-1 : nx[s[j]] = s[j+1] /\ pv[s[j+1]] = s[j]
    BY DEF IsList
  <1>6. nx[s[N]] = NULL /\ pv[s[1]] = s[N] /\ dt[s[N]] = Blank
    BY DEF IsList
  <1>7. NULL \notin Node
    OBVIOUS
  <1>8. /\ nx2[n] = nx[s[k]] /\ nx2[s[k]] = n
        /\ \A j \in 1..N : j # k => nx2[s[j]] = nx[s[j]]
    BY <1>1, <1>3, <1>4 DEF Links, Spliced
  <1>9. /\ dt2[n] = dt[s[k]] /\ dt2[s[k]] = item
        /\ \A j \in 1..N : j # k => dt2[s[j]] = dt[s[j]]
    BY <1>1, <1>3, <1>4 DEF Spliced
  <1>10. ASSUME k < N
         PROVE  /\ pv2[n] = s[k] /\ pv2[s[k+1]] = n
                /\ \A j \in 1..N : j # k+1 => pv2[s[j]] = pv[s[j]]
    <2>1. nx[s[k]] = s[k+1] /\ k+1 \in 1..N
      BY <1>1, <1>5, <1>10
    <2>2. pv2 = [pv EXCEPT ![s[k+1]] = n, ![n] = s[k]]
      BY <1>1, <1>7, <2>1 DEF Spliced
    <2> QED
      BY <1>1, <1>3, <1>4, <2>1, <2>2 DEF Links
  <1>11. ASSUME k = N
         PROVE  /\ pv2[n] = s[k] /\ pv2[s[1]] = n
                /\ \A j \in 1..N : j # 1 => pv2[s[j]] = pv[s[j]]
    <2>1. pv2 = [pv EXCEPT ![s[1]] = n, ![n] = s[k]]
      BY <1>6, <1>11 DEF Spliced
    <2> QED
      BY <1>1, <1>3, <1>4, <2>1 DEF Links
  <1>12. \A i, j \in 1..N+1 : t[i] = t[j] => i = j
    <2> SUFFICES ASSUME NEW i \in 1..N+1, NEW j \in 1..N+1, i < j PROVE t[i] # t[j]
      BY <1>1
    <2>1. CASE i = k+1
      <3>1. t[i] = n /\ t[j] = s[j-1] /\ j-1 \in 1..N
        BY <1>1, <1>2, <2>1
      <3> QED
        BY <1>3, <3>1
    <2>2. CASE j = k+1
      <3>1. t[j] = n /\ t[i] = s[i] /\ i \in 1..N
        BY <1>1, <1>2, <2>2
      <3> QED
        BY <1>3, <3>1
    <2>3. CASE i # k+1 /\ j # k+1
      <3> DEFINE a == IF i < k+1 THEN i ELSE i-1
                 b == IF j < k+1 THEN j ELSE j-1
      <3>1. a \in 1..N /\ b \in 1..N /\ a # b
        BY <1>1, <2>3
      <3>2. t[i] = s[a] /\ t[j] = s[b]
        BY <1>1, <1>2, <2>3
      <3> QED
        BY <1>4, <3>1, <3>2
    <2> QED
      BY <2>1, <2>2, <2>3
  <1>13. \A j \in 1..N : nx2[t[j]] = t[j+1]
    <2> TAKE j \in 1..N
    <2>1. CASE j < k
      BY <1>1, <1>2, <1>5, <1>8, <2>1
    <2>2. CASE j = k
      BY <1>1, <1>2, <1>8, <2>2
    <2>3. CASE j = k+1
      <3>1. t[j] = n /\ t[j+1] = s[k+1] /\ nx[s[k]] = s[k+1]
        BY <1>1, <1>2, <1>5, <2>3
      <3> QED
        BY <1>8, <3>1
    <2>4. CASE j > k+1
      <3>1. t[j] = s[j-1] /\ t[j+1] = s[j] /\ nx[s[j-1]] = s[j] /\ j-1 \in 1..N /\ j-1 # k
        BY <1>1, <1>2, <1>5, <2>4
      <3> QED
        BY <1>8, <3>1
    <2> QED
      BY <1>1, <2>1, <2>2, <2>3, <2>4
  <1>14. \A j \in 1..N : pv2[t[j+1]] = t[j]
    <2> TAKE j \in 1..N
    <2>1. CASE j < k
      <3>1. t[j+1] = s[j+1] /\ t[j] = s[j] /\ pv[s[j+1]] = s[j] /\ j+1 \in 1..N
            /\ j+1 # k+1 /\ j+1 # 1
        BY <1>1, <1>2, <1>5, <2>1
      <3> QED
        BY <1>1, <1>10, <1>11, <3>1
    <2>2. CASE j = k
      <3>1. t[j+1] = n /\ t[j] = s[k]
        BY <1>1, <1>2, <2>2
      <3> QED
        BY <1>1, <1>10, <1>11, <3>1
    <2>3. CASE j = k+1
      <3>1. t[j+1] = s[k+1] /\ t[j] = n /\ k < N
        BY <1>1, <1>2, <2>3
      <3> QED
        BY <1>10, <3>1
    <2>4. CASE j > k+1
      <3>1. t[j+1] = s[j] /\ t[j] = s[j-1] /\ j-1 \in 1..N-1 /\ k < N /\ j # k+1
        BY <1>1, <1>2, <2>4
      <3>2. pv[s[j]] = s[j-1]
        <4>1. pv[s[(j-1)+1]] = s[j-1]
          BY <1>5, <3>1
        <4> QED
          BY <4>1, <1>1
      <3> QED
        BY <1>10, <3>1, <3>2
    <2> QED
      BY <1>1, <2>1, <2>2, <2>3, <2>4
  <1>15. nx2[t[N+1]] = NULL /\ pv2[t[1]] = t[N+1] /\ dt2[t[N+1]] = Blank
    <2>0. t[1] = s[1] /\ 1 \in 1..N /\ N \in 1..N /\ 1 # k+1
      BY <1>1, <1>2
    <2>1. CASE k = N
      <3>1. t[N+1] = n
        BY <1>1, <1>2, <2>1
      <3> QED
        BY <1>6, <1>8, <1>9, <1>11, <2>0, <2>1, <3>1
    <2>2. CASE k < N
      <3>1. t[N+1] = s[N] /\ N # k
        BY <1>1, <1>2, <2>2
      <3> QED
        BY <1>6, <1>8, <1>9, <1>10, <2>0, <2>2, <3>1
    <2> QED
      BY <1>1, <2>1, <2>2
  <1>16. IsList(t, nx2, pv2, dt2)
    <2>1. Len(t) > 0 /\ Len(t) - 1 = N
      BY <1>1, <1>2
    <2>2. \A j \in 1..Len(t) - 1 : nx2[t[j]] = t[j+1] /\ pv2[t[j+1]] = t[j]
      BY <1>13, <1>14, <2>1
    <2> QED
      BY <1>2, <1>12, <1>15, <2>1, <2>2 DEF IsList
  <1>17. Items(t, dt2) = InsertAt(Items(s, dt), k, item)
    <2> DEFINE a == Items(t, dt2)
               b == InsertAt(Items(s, dt), k, item)
    <2>1. /\ Items(s, dt) \in Seq(Item) /\ Len(Items(s, dt)) = N - 1
          /\ \A j \in 1..N-1 : Items(s, dt)[j] = dt[s[j]]
      <3>1. \A j \in 1..N-1 : dt[s[j]] \in Item
        BY <1>1
      <3> QED
        BY <1>1, <3>1 DEF Items
    <2>2. /\ b \in Seq(Item) /\ Len(b) = N
          /\ \A j \in 1..N : b[j] = IF j < k THEN Items(s, dt)[j]
                                    ELSE IF j = k THEN item ELSE Items(s, dt)[j-1]
      <3>1. Items(s, dt) \in Seq(Item) /\ k \in 1..Len(Items(s, dt))+1 /\ item \in Item
        BY <1>1, <2>1
      <3>2. /\ b \in Seq(Item) /\ Len(b) = Len(Items(s, dt)) + 1
            /\ \A j \in 1..Len(Items(s, dt))+1 :
                   b[j] = IF j < k THEN Items(s, dt)[j]
                          ELSE IF j = k THEN item ELSE Items(s, dt)[j-1]
        BY <3>1, InsertAtFacts
      <3> QED
        BY <1>1, <2>1, <3>2
    <2>3. DOMAIN a = 1..N /\ \A j \in 1..N : a[j] = dt2[t[j]]
      BY <1>1, <1>2 DEF Items
    <2>4. a = [j \in 1..N |-> a[j]]
      BY <1>1, <1>2 DEF Items
    <2>5. b = [j \in 1..N |-> b[j]]
      <3> HIDE DEF b
      <3> QED
        BY <1>1, <2>2
    <2>6. \A j \in 1..N : a[j] = b[j]
      <3> TAKE j \in 1..N
      <3>1. CASE j < k
        <4>1. t[j] = s[j] /\ j # k /\ j \in 1..N-1
          BY <1>1, <1>2, <3>1
        <4> QED
          BY <1>9, <2>1, <2>2, <2>3, <3>1, <4>1
      <3>2. CASE j = k
        <4>1. t[j] = s[k]
          BY <1>1, <1>2, <3>2
        <4> QED
          BY <1>1, <1>9, <2>2, <2>3, <3>2, <4>1
      <3>3. CASE j = k+1
        <4>1. t[j] = n /\ k \in 1..N-1 /\ j-1 = k /\ ~(j < k) /\ j # k
          BY <1>1, <1>2, <3>3
        <4> QED
          BY <1>9, <2>1, <2>2, <2>3, <4>1
      <3>4. CASE j > k+1
        <4>1. t[j] = s[j-1] /\ j-1 \in 1..N-1 /\ j-1 \in 1..N /\ j-1 # k /\ ~(j < k) /\ j # k
          BY <1>1, <1>2, <3>4
        <4>2. a[j] = dt[s[j-1]]
          BY <1>9, <2>3, <4>1
        <4>3. b[j] = Items(s, dt)[j-1]
          BY <2>2, <4>1
        <4> QED
          BY <2>1, <4>1, <4>2, <4>3
      <3> QED
        BY <1>1, <3>1, <3>2, <3>3, <3>4
    <2> HIDE DEF a, b
    <2>7. a = b
      BY <2>4, <2>5, <2>6
    <2> QED
      BY <2>7 DEF a, b
  <1>18. Range(t) = Range(s) \cup {n}
    <2>1. DOMAIN t = 1..N+1 /\ DOMAIN s = 1..N
      BY <1>1, <1>2
    <2>2. \A j \in 1..N+1 : t[j] = n \/ \E i \in 1..N : t[j] = s[i]
      <3> TAKE j \in 1..N+1
      <3>1. CASE j < k+1
        <4>1. j \in 1..N /\ t[j] = s[j]
          BY <1>1, <1>2, <3>1
        <4> QED
          BY <4>1
      <3>2. CASE j > k+1
        <4>1. j-1 \in 1..N /\ t[j] = s[j-1]
          BY <1>1, <1>2, <3>2
        <4> QED
          BY <4>1
      <3> QED
        BY <1>1, <1>2, <3>1, <3>2
    <2>3. t[k+1] = n /\ k+1 \in 1..N+1
      BY <1>1, <1>2
    <2>4. \A j \in 1..N : \E i \in 1..N+1 : t[i] = s[j]
      <3> TAKE j \in 1..N
      <3>1. CASE j <= k
        <4>1. j \in 1..N+1 /\ t[j] = s[j]
          BY <1>1, <1>2, <3>1
        <4> QED
          BY <4>1
      <3>2. CASE j > k
        <4>1. j+1 \in 1..N+1 /\ t[j+1] = s[j]
          BY <1>1, <1>2, <3>2
        <4> QED
          BY <4>1
      <3> QED
        BY <1>1, <3>1, <3>2
    <2>5. Range(t) = {t[j] : j \in 1..N+1} /\ Range(s) = {s[j] : j \in 1..N}
      BY <2>1 DEF Range
    <2>6. Range(t) \subseteq Range(s) \cup {n}
      BY <2>2, <2>5
    <2>7. Range(s) \cup {n} \subseteq Range(t)
      BY <2>3, <2>4, <2>5
    <2> QED
      BY <2>6, <2>7
  <1>19. t[1] = s[1]
    BY <1>1, <1>2
  <1> QED
    BY <1>16, <1>17, <1>18, <1>19 DEF t

\* What Broken does to the fields, p being the node behind the k-th one.
Unspliced(s, k, left, nx, pv, dt, nx2, pv2, dt2) ==
    LET p == s[k+1] IN
    /\ nx2 = [nx EXCEPT ![s[k]] = nx[p], ![p] = NULL]
    /\ pv2 = IF k + 1 < Len(s) THEN [pv EXCEPT ![s[k+2]] = s[k], ![p] = NULL]
             ELSE [pv EXCEPT ![s[1]] = s[k], ![p] = NULL]
    /\ dt2 = [dt EXCEPT ![s[k]] = dt[p], ![p] = left]

\* The k-th node takes over its successor's item, and the successor's node is
\* out of the list (xlist_break and all that take an item out).
LEMMA BreakList ==
    ASSUME NEW s, NEW nx \in Links, NEW pv \in Links, NEW dt \in [Node -> Item],
           IsList(s, nx, pv, dt),
           NEW k \in 1..Len(s)-1, NEW left \in Item, NEW nx2, NEW pv2, NEW dt2,
           Unspliced(s, k, left, nx, pv, dt, nx2, pv2, dt2)
    PROVE  /\ IsList(RemoveAt(s, k + 1), nx2, pv2, dt2)
           /\ Items(RemoveAt(s, k + 1), dt2) = RemoveAt(Items(s, dt), k)
           /\ RemoveAt(s, k + 1)[1] = s[1]
           /\ Range(RemoveAt(s, k + 1)) = Range(s) \ {s[k+1]}
  <1> DEFINE N == Len(s)
             p == s[k+1]
             t == RemoveAt(s, k + 1)
  <1>1. s \in Seq(Node) /\ N \in Nat /\ N > 1 /\ k+1 \in 1..N /\ k \in 1..N
        /\ \A j \in 1..N : s[j] \in Node
    BY DEF IsList
  <1>2. /\ t \in Seq(Node) /\ Len(t) = N - 1
        /\ \A j \in 1..N-1 : t[j] = IF j < k+1 THEN s[j] ELSE s[j+1]
    <2>1. s \in Seq(Node) /\ k + 1 \in 1..Len(s)
      BY <1>1
    <2> QED
      BY <2>1, RemoveAtFacts
  <1> HIDE DEF t
  <1>4. \A i, j \in 1..N : s[i] = s[j] => i = j
    BY DEF IsList
  <1>5. \A j \in 1..N-1 : nx[s[j]] = s[j+1] /\ pv[s[j+1]] = s[j]
    BY DEF IsList
  <1>6. nx[s[N]] = NULL /\ pv[s[1]] = s[N] /\ dt[s[N]] = Blank
    BY DEF IsList
  <1>8. /\ nx2[s[k]] = nx[p] /\ nx2[p] = NULL
        /\ \A j \in 1..N : j # k /\ j # k+1 => nx2[s[j]] = nx[s[j]]
    BY <1>1, <1>4 DEF Links, Unspliced
  <1>9. /\ dt2[s[k]] = dt[p]
        /\ \A j \in 1..N : j # k /\ j # k+1 => dt2[s[j]] = dt[s[j]]
    BY <1>1, <1>4 DEF Unspliced
  <1>10. ASSUME k + 1 < N
         PROVE  /\ pv2[s[k+2]] = s[k]
                /\ \A j \in 1..N : j # k+1 /\ j # k+2 => pv2[s[j]] = pv[s[j]]
    <2>1. pv2 = [pv EXCEPT ![s[k+2]] = s[k], ![p] = NULL] /\ k+2 \in 1..N /\ k+2 # k+1
      BY <1>1, <1>10 DEF Unspliced
    <2> QED
      BY <1>1, <1>4, <2>1 DEF Links
  <1>11. ASSUME k + 1 = N
         PROVE  /\ pv2[s[1]] = s[k]
                /\ \A j \in 1..N : j # k+1 /\ j # 1 => pv2[s[j]] = pv[s[j]]
    <2>1. pv2 = [pv EXCEPT ![s[1]] = s[k], ![p] = NULL] /\ 1 \in 1..N /\ 1 # k+1
      BY <1>1, <1>11 DEF Unspliced
    <2> QED
      BY <1>1, <1>4, <2>1 DEF Links
  <1>12. \A i, j \in 1..N-1 : t[i] = t[j] => i = j
    <2> SUFFICES ASSUME NEW i \in 1..N-1, NEW j \in 1..N-1, i < j PROVE t[i] # t[j]
      BY <1>1
    <2> DEFINE a == IF i < k+1 THEN i ELSE i+1
               b == IF j < k+1 THEN j ELSE j+1
    <2>1. a \in 1..N /\ b \in 1..N /\ a # b
      BY <1>1
    <2>2. t[i] = s[a] /\ t[j] = s[b]
      BY <1>1, <1>2
    <2> QED
      BY <1>4, <2>1, <2>2
  <1>13. \A j \in 1..N-2 : nx2[t[j]] = t[j+1]
    <2> TAKE j \in 1..N-2
    <2>1. CASE j < k
      <3>1. t[j] = s[j] /\ t[j+1] = s[j+1] /\ nx[s[j]] = s[j+1] /\ j \in 1..N
            /\ j # k /\ j # k+1
        BY <1>1, <1>2, <1>5, <2>1
      <3> QED
        BY <1>8, <3>1
    <2>2. CASE j = k
      <3>1. t[j] = s[k] /\ t[j+1] = s[k+2] /\ k+1 \in 1..N-1 /\ (k+1)+1 = k+2
        BY <1>1, <1>2, <2>2
      <3>2. nx[p] = s[k+2]
        BY <1>5, <3>1
      <3> QED
        BY <1>8, <3>1, <3>2
    <2>3. CASE j > k
      <3>1. t[j] = s[j+1] /\ t[j+1] = s[j+2] /\ j+1 \in 1..N-1 /\ (j+1)+1 = j+2
            /\ j+1 # k /\ j+1 # k+1 /\ j+1 \in 1..N
        <4>1. /\ j \in 1..N-1 /\ j+1 \in 1..N-1 /\ (j+1)+1 = j+2 /\ ~(j < k+1)
              /\ ~(j+1 < k+1) /\ j+1 # k /\ j+1 # k+1 /\ j+1 \in 1..N
          BY <1>1, <2>3
        <4> QED
          BY <1>2, <4>1
      <3>2. nx[s[j+1]] = s[j+2]
        BY <1>5, <3>1
      <3> QED
        BY <1>8, <3>1, <3>2
    <2> QED
      BY <1>1, <2>1, <2>2, <2>3
  <1>14. \A j \in 1..N-2 : pv2[t[j+1]] = t[j]
    <2> TAKE j \in 1..N-2
    <2>1. CASE j < k
      <3>1. t[j+1] = s[j+1] /\ t[j] = s[j] /\ pv[s[j+1]] = s[j] /\ j+1 \in 1..N
            /\ j+1 # k+1 /\ j+1 # 1 /\ j+1 # k+2
        BY <1>1, <1>2, <1>5, <2>1
      <3>2. pv2[s[j+1]] = pv[s[j+1]]
        BY <1>1, <1>10, <1>11, <3>1
      <3> QED
        BY <3>1, <3>2
    <2>2. CASE j = k
      <3>1. t[j+1] = s[k+2] /\ t[j] = s[k] /\ k+1 < N
        BY <1>1, <1>2, <2>2
      <3> QED
        BY <1>10, <3>1
    <2>3. CASE j > k
      <3>1. t[j+1] = s[j+2] /\ t[j] = s[j+1] /\ j+1 \in 1..N-1 /\ (j+1)+1 = j+2
            /\ k+1 < N /\ j+2 # k+1 /\ j+2 # k+2 /\ j+2 \in 1..N
        <4>1. /\ j \in 1..N-1 /\ j+1 \in 1..N-1 /\ (j+1)+1 = j+2 /\ ~(j < k+1)
              /\ ~(j+1 < k+1)
              /\ k+1 < N /\ j+2 # k+1 /\ j+2 # k+2 /\ j+2 \in 1..N
          BY <1>1, <2>3
        <4> QED
          BY <1>2, <4>1
      <3>2. pv[s[j+2]] = s[j+1]
        BY <1>5, <3>1
      <3>3. pv2[s[j+2]] = pv[s[j+2]]
        BY <1>10, <3>1
      <3> QED
        BY <3>1, <3>2, <3>3
    <2> QED
      BY <1>1, <2>1, <2>2, <2>3
  <1>15. nx2[t[N-1]] = NULL /\ pv2[t[1]] = t[N-1] /\ dt2[t[N-1]] = Blank
    <2>0. t[1] = s[1] /\ 1 \in 1..N /\ N \in 1..N /\ 1 # k+1 /\ 1 # k+2
      BY <1>1, <1>2
    <2>1. CASE k + 1 = N
      <3>1. t[N-1] = s[k] /\ p = s[N]
        BY <1>1, <1>2, <2>1
      <3> QED
        BY <1>6, <1>8, <1>9, <1>11, <2>0, <2>1, <3>1
    <2>2. CASE k + 1 < N
      <3>1. t[N-1] = s[N] /\ N # k /\ N # k+1
        BY <1>1, <1>2, <2>2
      <3>2. pv2[s[1]] = pv[s[1]]
        BY <1>10, <2>0, <2>2
      <3> QED
        BY <1>6, <1>8, <1>9, <2>0, <3>1, <3>2
    <2> QED
      BY <1>1, <2>1, <2>2
  <1>16. IsList(t, nx2, pv2, dt2)
    <2>1. Len(t) > 0 /\ Len(t) - 1 = N - 2
      BY <1>1, <1>2
    <2>2. \A j \in 1..Len(t) - 1 : nx2[t[j]] = t[j+1] /\ pv2[t[j+1]] = t[j]
      BY <1>13, <1>14, <2>1
    <2> QED
      BY <1>2, <1>12, <1>15, <2>1, <2>2 DEF IsList
  <1>17. Items(t, dt2) = RemoveAt(Items(s, dt), k)
    <2> DEFINE a == Items(t, dt2)
               b == RemoveAt(Items(s, dt), k)
    <2>1. /\ Items(s, dt) \in Seq(Item) /\ Len(Items(s, dt)) = N - 1
          /\ \A j \in 1..N-1 : Items(s, dt)[j] = dt[s[j]]
      <3>1. \A j \in 1..N-1 : dt[s[j]] \in Item
        BY <1>1
      <3> QED
        BY <1>1, <3>1 DEF Items
    <2>2. /\ b \in Seq(Item) /\ Len(b) = N - 2
          /\ \A j \in 1..N-2 : b[j] = IF j < k THEN Items(s, dt)[j]
                                      ELSE Items(s, dt)[j+1]
      <3>1. Items(s, dt) \in Seq(Item) /\ k \in 1..Len(Items(s, dt))
        BY <1>1, <2>1
      <3>2. /\ b \in Seq(Item) /\ Len(b) = Len(Items(s, dt)) - 1
            /\ \A j \in 1..Len(Items(s, dt))-1 :
                   b[j] = IF j < k THEN Items(s, dt)[j] ELSE Items(s, dt)[j+1]
        BY <3>1, RemoveAtFacts
      <3> QED
        BY <1>1, <2>1, <3>2
    <2>3. DOMAIN a = 1..N-2 /\ \A j \in 1..N-2 : a[j] = dt2[t[j]]
      BY <1>1, <1>2 DEF Items
    <2>4. a = [j \in 1..N-2 |-> a[j]]
      BY <1>1, <1>2 DEF Items
    <2>5. b = [j \in 1..N-2 |-> b[j]]
      <3> HIDE DEF b
      <3> QED
        BY <1>1, <2>2
    <2>6. \A j \in 1..N-2 : a[j] = b[j]
      <3> TAKE j \in 1..N-2
      <3>1. CASE j < k
        <4>1. t[j] = s[j] /\ j # k /\ j # k+1 /\ j \in 1..N-1 /\ j \in 1..N
          BY <1>1, <1>2, <3>1
        <4> QED
          BY <1>9, <2>1, <2>2, <2>3, <3>1, <4>1
      <3>2. CASE j = k
        <4>1. t[j] = s[k] /\ k+1 \in 1..N-1 /\ ~(j < k)
          BY <1>1, <1>2, <3>2
        <4> QED
          BY <1>9, <2>1, <2>2, <2>3, <3>2, <4>1
      <3>3. CASE j > k
        <4>1. t[j] = s[j+1] /\ j+1 \in 1..N-1 /\ j+1 \in 1..N /\ j+1 # k /\ j+1 # k+1
              /\ ~(j < k)
          BY <1>1, <1>2, <3>3
        <4>2. a[j] = dt[s[j+1]]
          BY <1>9, <2>3, <4>1
        <4>3. b[j] = Items(s, dt)[j+1]
          BY <2>2, <4>1
        <4> QED
          BY <2>1, <4>1, <4>2, <4>3
      <3> QED
        BY <1>1, <3>1, <3>2, <3>3
    <2> HIDE DEF a, b
    <2>7. a = b
      BY <2>4, <2>5, <2>6
    <2> QED
      BY <2>7 DEF a, b
  <1>18. Range(t) = Range(s) \ {p}
    <2>1. DOMAIN t = 1..N-1 /\ DOMAIN s = 1..N
      BY <1>1, <1>2
    <2>2. \A j \in 1..N-1 : \E i \in 1..N : t[j] = s[i] /\ i # k+1
      <3> TAKE j \in 1..N-1
      <3>1. CASE j < k+1
        <4>1. j \in 1..N /\ t[j] = s[j] /\ j # k+1
          BY <1>1, <1>2, <3>1
        <4> QED
          BY <4>1
      <3>2. CASE j >= k+1
        <4>1. j+1 \in 1..N /\ t[j] = s[j+1] /\ j+1 # k+1
          BY <1>1, <1>2, <3>2
        <4> QED
          BY <4>1
      <3> QED
        BY <1>1, <1>2, <3>1, <3>2
    <2>4. \A j \in 1..N : j # k+1 => \E i \in 1..N-1 : t[i] = s[j]
      <3> TAKE j \in 1..N
      <3>1. CASE j <= k
        <4>1. j \in 1..N-1 /\ t[j] = s[j]
          BY <1>1, <1>2, <3>1
        <4> QED
          BY <4>1
      <3>2. CASE j > k+1
        <4>1. j-1 \in 1..N-1 /\ ~(j-1 < k+1) /\ (j-1)+1 = j
          BY <1>1, <3>2
        <4>2. t[j-1] = s[j]
          BY <1>2, <4>1
        <4> QED
          BY <4>1, <4>2
      <3> QED
        BY <1>1, <3>1, <3>2
    <2>5. Range(t) = {t[j] : j \in 1..N-1} /\ Range(s) = {s[j] : j \in 1..N}
      BY <2>1 DEF Range
    <2>6. \A j \in 1..N : j # k+1 => s[j] # p
      BY <1>1, <1>4
    <2>7. Range(t) \subseteq Range(s) \ {p}
      BY <2>2, <2>5, <2>6
    <2>8. Range(s) \ {p} \subseteq Range(t)
      BY <2>4, <2>5
    <2> QED
      BY <2>7, <2>8
  <1>19. t[1] = s[1]
    BY <1>1, <1>2
  <1> QED
    BY <1>16, <1>17, <1>18, <1>19 DEF t

\* What xlist_combin does to the fields.
Joined(s, t, nx, pv, dt, nx2, pv2, dt2) ==
    /\ nx2 = [nx EXCEPT ![s[Len(s)]] = t[2], ![t[1]] = NULL]
    /\ pv2 = [pv EXCEPT ![t[1]] = NULL, ![t[2]] = s[Len(s)], ![s[1]] = t[Len(t)]]
    /\ dt2 = [dt EXCEPT ![s[Len(s)]] = dt[t[1]], ![t[1]] = Blank]

\* The spare node of the first list gets the first item of the second, whose
\* other nodes follow (xlist_combin).
LEMMA JoinList ==
    ASSUME NEW s, NEW t, NEW nx \in Links, NEW pv \in Links, NEW dt \in [Node -> Item],
           IsList(s, nx, pv, dt), IsList(t, nx, pv, dt), Len(t) > 1,
           Range(s) \cap Range(t) = {}, NEW nx2, NEW pv2, NEW dt2,
           Joined(s, t, nx, pv, dt, nx2, pv2, dt2)
    PROVE  /\ IsList(s \o Tail(t), nx2, pv2, dt2)
           /\ Items(s \o Tail(t), dt2) = Items(s, dt) \o Items(t, dt)
           /\ (s \o Tail(t))[1] = s[1]
           /\ Range(s \o Tail(t)) = (Range(s) \cup Range(t)) \ {t[1]}
  <1> DEFINE N == Len(s)
             M == Len(t)
             u == s \o Tail(t)
  <1>1. /\ s \in Seq(Node) /\ N \in Nat /\ N > 0 /\ \A j \in 1..N : s[j] \in Node
        /\ t \in Seq(Node) /\ M \in Nat /\ M > 1 /\ \A j \in 1..M : t[j] \in Node
    BY DEF IsList
  <1>2. /\ u \in Seq(Node) /\ Len(u) = N + M - 1
        /\ \A j \in 1..N+M-1 : u[j] = IF j <= N THEN s[j] ELSE t[(j-N)+1]
    <2>1. t # << >>
      BY <1>1
    <2>2. /\ Tail(t) \in Seq(Node) /\ Len(Tail(t)) = M - 1
          /\ \A j \in 1..M-1 : Tail(t)[j] = t[j+1]
      <3>1. t \in Seq(Node) /\ t # << >>
        BY <1>1, <2>1
      <3> QED
        BY <3>1, HeadTailProperties
    <2> DEFINE r == Tail(t)
    <2> HIDE DEF r
    <2>3. s \in Seq(Node) /\ r \in Seq(Node)
      BY <1>1, <2>2 DEF r
    <2>4. /\ s \o r \in Seq(Node) /\ Len(s \o r) = Len(s) + Len(r)
          /\ \A j \in 1..Len(s)+Len(r) :
                (s \o r)[j] = IF j <= Len(s) THEN s[j] ELSE r[j - Len(s)]
      BY <2>3, ConcatProperties
    <2>5. Len(r) = M-1 /\ \A j \in 1..M-1 : r[j] = t[j+1]
      BY <2>2 DEF r
    <2>6. Len(s \o r) = N + M - 1
      BY <1>1, <2>4, <2>5
    <2>7. ASSUME NEW j \in 1..N+M-1
          PROVE  (s \o r)[j] = IF j <= N THEN s[j] ELSE t[(j-N)+1]
      <3>1. j \in 1..Len(s)+Len(r)
        BY <1>1, <2>5
      <3>2. CASE j <= N
        BY <2>4, <3>1, <3>2
      <3>3. CASE j > N
        <4>1. j-N \in 1..M-1 /\ ~(j <= N)
          BY <1>1, <3>3
        <4>2. (s \o r)[j] = r[j-N]
          BY <2>4, <3>1, <4>1
        <4> QED
          BY <2>5, <4>1, <4>2
      <3>4. j <= N \/ j > N
        BY <1>1
      <3> QED
        BY <3>2, <3>3, <3>4
    <2> QED
      BY <2>4, <2>6, <2>7 DEF r
  <1> HIDE DEF u
  <1>3. \A i \in 1..N, j \in 1..M : s[i] # t[j]
    <2>1. Range(s) = {s[i] : i \in 1..N} /\ Range(t) = {t[j] : j \in 1..M}
      BY <1>1, RangeIs
    <2> QED
      BY <2>1
  <1>4. /\ \A i, j \in 1..N : s[i] = s[j] => i = j
        /\ \A i, j \in 1..M : t[i] = t[j] => i = j
    BY DEF IsList
  <1>5. /\ \A j \in 1..N-1 : nx[s[j]] = s[j+1] /\ pv[s[j+1]] = s[j]
        /\ \A j \in 1..M-1 : nx[t[j]] = t[j+1] /\ pv[t[j+1]] = t[j]
    BY DEF IsList
  <1>6. nx[t[M]] = NULL /\ dt[t[M]] = Blank
    BY DEF IsList
  <1>7. 1 \in 1..N /\ N \in 1..N /\ 1 \in 1..M /\ 2 \in 1..M /\ M \in 1..M
    BY <1>1
  <1>8. /\ nx2[s[N]] = t[2]
        /\ \A j \in 1..N : j # N => nx2[s[j]] = nx[s[j]]
        /\ \A j \in 1..M : j # 1 => nx2[t[j]] = nx[t[j]]
    BY <1>1, <1>3, <1>4, <1>7 DEF Links, Joined
  <1>9. /\ dt2[s[N]] = dt[t[1]]
        /\ \A j \in 1..N : j # N => dt2[s[j]] = dt[s[j]]
        /\ \A j \in 1..M : j # 1 => dt2[t[j]] = dt[t[j]]
    BY <1>1, <1>3, <1>4, <1>7 DEF Joined
  <1>10. /\ pv2[t[2]] = s[N] /\ pv2[s[1]] = t[M]
         /\ \A j \in 1..N : j # 1 => pv2[s[j]] = pv[s[j]]
         /\ \A j \in 1..M : j # 1 /\ j # 2 => pv2[t[j]] = pv[t[j]]
    BY <1>1, <1>3, <1>4, <1>7 DEF Links, Joined
  <1>12. \A i, j \in 1..N+M-1 : u[i] = u[j] => i = j
    <2> SUFFICES ASSUME NEW i \in 1..N+M-1, NEW j \in 1..N+M-1, i < j PROVE u[i] # u[j]
      BY <1>1
    <2>1. CASE j <= N
      <3>1. u[i] = s[i] /\ u[j] = s[j] /\ i \in 1..N /\ j \in 1..N
        BY <1>1, <1>2, <2>1
      <3> QED
        BY <1>4, <3>1
    <2>2. CASE i <= N /\ N < j
      <3>1. u[i] = s[i] /\ u[j] = t[(j-N)+1] /\ i \in 1..N /\ (j-N)+1 \in 1..M
        BY <1>1, <1>2, <2>2
      <3> QED
        BY <1>3, <3>1
    <2>3. CASE N < i
      <3>1. /\ u[i] = t[(i-N)+1] /\ u[j] = t[(j-N)+1]
            /\ (i-N)+1 \in 1..M /\ (j-N)+1 \in 1..M /\ (i-N)+1 # (j-N)+1
        BY <1>1, <1>2, <2>3
      <3> QED
        BY <1>4, <3>1
    <2> QED
      BY <1>1, <2>1, <2>2, <2>3
  <1>13. \A j \in 1..N+M-2 : nx2[u[j]] = u[j+1] /\ pv2[u[j+1]] = u[j]
    <2> TAKE j \in 1..N+M-2
    <2>1. CASE j < N
      <3>1. /\ u[j] = s[j] /\ u[j+1] = s[j+1] /\ j \in 1..N-1 /\ j \in 1..N
            /\ j+1 \in 1..N /\ j # N /\ j+1 # 1
        <4>1. /\ j \in 1..N+M-1 /\ j+1 \in 1..N+M-1 /\ j <= N /\ j+1 <= N
              /\ j \in 1..N-1 /\ j \in 1..N /\ j+1 \in 1..N /\ j # N /\ j+1 # 1
          BY <1>1, <2>1
        <4> QED
          BY <1>2, <4>1
      <3> QED
        BY <1>5, <1>8, <1>10, <3>1
    <2>2. CASE j = N
      <3>1. u[j] = s[N] /\ u[j+1] = t[2]
        <4>1. j \in 1..N+M-1 /\ j+1 \in 1..N+M-1 /\ ~(j+1 <= N) /\ ((j+1)-N)+1 = 2
          BY <1>1, <2>2
        <4> QED
          BY <1>2, <2>2, <4>1
      <3> QED
        BY <1>8, <1>10, <3>1
    <2>3. CASE j > N
      <3> DEFINE i == (j-N)+1
      <3>0. i \in 2..M-1 /\ i+1 \in 3..M /\ i \in 1..M-1 /\ i+1 \in 1..M /\ i \in 1..M
        BY <1>1, <2>3
      <3>1. u[j] = t[i] /\ u[j+1] = t[i+1]
        <4>1. j \in 1..N+M-1 /\ j+1 \in 1..N+M-1 /\ ~(j <= N) /\ ~(j+1 <= N)
              /\ ((j+1)-N)+1 = i+1
          BY <1>1, <2>3
        <4> QED
          BY <1>2, <4>1
      <3> HIDE DEF i
      <3>2. nx[t[i]] = t[i+1] /\ pv[t[i+1]] = t[i]
        BY <1>5, <3>0
      <3>3. i # 1 /\ i+1 # 1 /\ i+1 # 2
        BY <3>0
      <3> QED
        BY <1>8, <1>10, <3>0, <3>1, <3>2, <3>3
    <2> QED
      BY <1>1, <2>1, <2>2, <2>3
  <1>14. u[1] = s[1] /\ u[N+M-1] = t[M]
    <2>1. 1 \in 1..N+M-1 /\ 1 <= N /\ N+M-1 \in 1..N+M-1 /\ ~(N+M-1 <= N)
          /\ ((N+M-1)-N)+1 = M
      BY <1>1
    <2> QED
      BY <1>2, <2>1
  <1>15. nx2[t[M]] = NULL /\ pv2[s[1]] = t[M] /\ dt2[t[M]] = Blank
    <2>1. M # 1
      BY <1>1
    <2> QED
      BY <1>6, <1>7, <1>8, <1>9, <1>10, <2>1
  <1>16. IsList(u, nx2, pv2, dt2)
    <2>1. Len(u) > 0 /\ Len(u) - 1 = N+M-2
      BY <1>1, <1>2
    <2>2. \A j \in 1..Len(u) - 1 : nx2[u[j]] = u[j+1] /\ pv2[u[j+1]] = u[j]
      BY <1>13, <2>1
    <2> QED
      BY <1>2, <1>12, <1>14, <1>15, <2>1, <2>2 DEF IsList
  <1>17. Items(u, dt2) = Items(s, dt) \o Items(t, dt)
    <2> DEFINE p == Items(s, dt)
               q == Items(t, dt)
               a == Items(u, dt2)
    <2>1. /\ p \in Seq(Item) /\ Len(p) = N - 1 /\ \A j \in 1..N-1 : p[j] = dt[s[j]]
          /\ q \in Seq(Item) /\ Len(q) = M - 1 /\ \A j \in 1..M-1 : q[j] = dt[t[j]]
      <3>1. /\ \A j \in 1..N-1 : dt[s[j]] \in Item
            /\ \A j \in 1..M-1 : dt[t[j]] \in Item
        BY <1>1
      <3> QED
        BY <1>1, <3>1 DEF Items
    <2>2. /\ a \in Seq(Item) /\ Len(a) = N+M-2
          /\ \A j \in 1..N+M-2 : a[j] = dt2[u[j]]
      <3>1. \A j \in 1..N+M-2 : dt2[u[j]] \in Item
        <4>1. dt2 \in [Node -> Item]
          <5>1. Blank \in Item
            BY DEF Blank, Item
          <5> QED
            BY <1>1, <1>7, <5>1 DEF Joined
        <4>2. \A j \in 1..N+M-2 : u[j] \in Node
          BY <1>1, <1>2
        <4> QED
          BY <4>1, <4>2
      <3> QED
        BY <1>1, <1>2, <3>1 DEF Items
    <2> HIDE DEF p, q, a
    <2>3. /\ p \o q \in Seq(Item) /\ Len(p \o q) = Len(p) + Len(q)
          /\ \A j \in 1..Len(p)+Len(q) :
                (p \o q)[j] = IF j <= Len(p) THEN p[j] ELSE q[j - Len(p)]
      <3>1. p \in Seq(Item) /\ q \in Seq(Item)
        BY <2>1
      <3> QED
        BY <3>1, ConcatProperties
    <2>4. Len(p \o q) = Len(a)
      BY <1>1, <2>1, <2>2, <2>3
    <2>5. \A j \in 1..Len(a) : a[j] = (p \o q)[j]
      <3> TAKE j \in 1..Len(a)
      <3>0. j \in 1..N+M-2 /\ j \in 1..Len(p)+Len(q)
        BY <1>1, <2>1, <2>2
      <3>1. CASE j <= N-1
        <4>1. u[j] = s[j] /\ j \in 1..N /\ j # N /\ j \in 1..N-1
          <5>1. j \in 1..N+M-1 /\ j <= N /\ j \in 1..N /\ j # N /\ j \in 1..N-1
            BY <1>1, <3>0, <3>1
          <5> QED
            BY <1>2, <5>1
        <4>2. a[j] = dt[s[j]]
          BY <1>9, <2>2, <4>1
        <4>3. (p \o q)[j] = p[j]
          BY <2>1, <2>3, <3>0, <3>1
        <4> QED
          BY <2>1, <4>1, <4>2, <4>3
      <3>2. CASE j = N
        <4>1. j - (N-1) = 1 /\ ~(j <= N-1) /\ 1 \in 1..M-1 /\ u[j] = s[N]
          BY <1>1, <1>2, <3>0, <3>2
        <4>2. a[j] = dt[t[1]]
          BY <1>9, <2>2, <3>0, <4>1
        <4>3. (p \o q)[j] = q[1]
          BY <2>1, <2>3, <3>0, <4>1
        <4> QED
          BY <2>1, <4>1, <4>2, <4>3
      <3>3. CASE j > N
        <4> DEFINE i == (j-N)+1
        <4>1. i \in 1..M /\ i \in 1..M-1 /\ i # 1 /\ j - (N-1) = i /\ ~(j <= N-1) /\ ~(j <= N)
              /\ j \in 1..N+M-1
          BY <1>1, <3>0, <3>3
        <4>2. u[j] = t[i]
          BY <1>2, <4>1
        <4> HIDE DEF i
        <4>3. a[j] = dt2[t[i]] /\ dt2[t[i]] = dt[t[i]]
          BY <1>9, <2>2, <3>0, <4>1, <4>2
        <4>4. (p \o q)[j] = q[i]
          <5>1. ~(j <= Len(p)) /\ j - Len(p) = i
            BY <2>1, <4>1
          <5> QED
            BY <2>3, <3>0, <5>1
        <4> QED
          BY <2>1, <4>1, <4>3, <4>4
      <3> QED
        BY <1>1, <3>0, <3>1, <3>2, <3>3
    <2>6. a = p \o q
      <3>1. a \in Seq(Item) /\ p \o q \in Seq(Item) /\ Len(a) = Len(p \o q)
        BY <2>2, <2>3, <2>4
      <3> QED
        BY <2>5, <3>1, SeqEqual
    <2> QED
      BY <2>6 DEF a, p, q
  <1>18. Range(u) = (Range(s) \cup Range(t)) \ {t[1]}
    <2>0. /\ Range(u) = {u[j] : j \in 1..Len(u)}
          /\ Range(s) = {s[j] : j \in 1..N} /\ Range(t) = {t[j] : j \in 1..M}
      BY <1>1, <1>2, RangeIs
    <2>1. /\ Range(u) = {u[j] : j \in 1..N+M-1}
          /\ Range(s) = {s[j] : j \in 1..N} /\ Range(t) = {t[j] : j \in 1..M}
      BY <1>2, <2>0
    <2>2. ASSUME NEW j \in 1..N+M-1
          PROVE  u[j] \in (Range(s) \cup Range(t)) \ {t[1]}
      <3>1. CASE j <= N
        <4>1. u[j] = s[j] /\ j \in 1..N
          BY <1>1, <1>2, <3>1
        <4> QED
          BY <1>3, <1>7, <2>1, <4>1
      <3>2. CASE j > N
        <4>1. (j-N)+1 \in 1..M /\ (j-N)+1 # 1 /\ u[j] = t[(j-N)+1]
          BY <1>1, <1>2, <3>2
        <4> QED
          BY <1>4, <1>7, <2>1, <4>1
      <3> QED
        BY <1>1, <3>1, <3>2
    <2>3. ASSUME NEW j \in 1..N PROVE s[j] \in Range(u)
      <3>1. j \in 1..N+M-1 /\ u[j] = s[j]
        BY <1>1, <1>2
      <3> QED
        BY <2>1, <3>1
    <2>4. ASSUME NEW j \in 1..M, j # 1 PROVE t[j] \in Range(u)
      <3>1. N+j-1 \in 1..N+M-1 /\ ~(N+j-1 <= N) /\ ((N+j-1)-N)+1 = j
        BY <1>1, <2>4
      <3>2. u[N+j-1] = t[j]
        BY <1>2, <3>1
      <3> QED
        BY <2>1, <3>1, <3>2
    <2>5. Range(u) \subseteq (Range(s) \cup Range(t)) \ {t[1]}
      BY <2>1, <2>2
    <2>6. (Range(s) \cup Range(t)) \ {t[1]} \subseteq Range(u)
      BY <2>1, <2>3, <2>4
    <2> QED
      BY <2>5, <2>6
  <1> QED
    BY <1>14, <1>16, <1>17, <1>18 DEF u

\* The item nodes from the k-th one on.
From(s, k) == {s[j] : j \in k..Len(s)-1}

\* What xlist_terminal does to the fields.
Truncated(s, k, nx, pv, dt, nx2, pv2, dt2) ==
    /\ nx2 = [n \in Node |-> IF n \in From(s, k) THEN NULL
                             ELSE IF n = s[k-1] THEN s[Len(s)] ELSE nx[n]]
    /\ pv2 = [n \in Node |-> IF n \in From(s, k) THEN NULL
                             ELSE IF n = s[Len(s)] THEN s[k-1] ELSE pv[n]]
    /\ dt2 = [n \in Node |-> IF n \in From(s, k) THEN Blank ELSE dt[n]]

\* The spare node comes behind what is left (xlist_terminal).
LEMMA TruncateList ==
    ASSUME NEW s, NEW nx \in Links, NEW pv \in Links, NEW dt \in [Node -> Item],
           IsList(s, nx, pv, dt), NEW k \in 2..Len(s)-1, NEW nx2, NEW pv2, NEW dt2,
           Truncated(s, k, nx, pv, dt, nx2, pv2, dt2)
    PROVE  /\ IsList(Append(SubSeq(s, 1, k-1), s[Len(s)]), nx2, pv2, dt2)
           /\ Items(Append(SubSeq(s, 1, k-1), s[Len(s)]), dt2) = SubSeq(Items(s, dt), 1, k-1)
           /\ Append(SubSeq(s, 1, k-1), s[Len(s)])[1] = s[1]
           /\ Range(Append(SubSeq(s, 1, k-1), s[Len(s)])) = Range(s) \ From(s, k)
  <1> DEFINE N == Len(s)
             S == From(s, k)
             u == Append(SubSeq(s, 1, k-1), s[N])
  <1>1. /\ s \in Seq(Node) /\ N \in Nat /\ N > 0 /\ \A j \in 1..N : s[j] \in Node
        /\ k \in Nat /\ k > 1 /\ k < N
    BY DEF IsList
  <1>2. /\ u \in Seq(Node) /\ Len(u) = k
        /\ \A j \in 1..k : u[j] = IF j < k THEN s[j] ELSE s[N]
    <2> DEFINE r == SubSeq(s, 1, k-1)
    <2>1. \A j \in 1..k-1 : s[j] \in Node
      BY <1>1
    <2>2. /\ r \in Seq(Node) /\ Len(r) = k - 1 /\ \A j \in 1..k-1 : r[j] = s[j]
      <3>1. 1 \in Int /\ k-1 \in Int
        BY <1>1
      <3>2. /\ r \in Seq(Node) /\ Len(r) = IF 1 <= k-1 THEN (k-1)-1+1 ELSE 0
            /\ \A j \in 1..(k-1)-1+1 : r[j] = s[1+j-1]
        BY <2>1, <3>1, SubSeqProperties
      <3> HIDE DEF r
      <3> QED
        BY <1>1, <3>2
    <2> HIDE DEF r
    <2>3. r \in Seq(Node) /\ s[N] \in Node
      BY <1>1, <2>2
    <2>4. /\ Append(r, s[N]) \in Seq(Node) /\ Len(Append(r, s[N])) = Len(r)+1
          /\ \A j \in 1..Len(r) : Append(r, s[N])[j] = r[j]
          /\ Append(r, s[N])[Len(r)+1] = s[N]
      BY <2>3, AppendProperties
    <2>5. Len(r)+1 = k
      BY <1>1, <2>2
    <2>6. ASSUME NEW j \in 1..k PROVE Append(r, s[N])[j] = IF j < k THEN s[j] ELSE s[N]
      <3>1. CASE j < k
        <4>1. j \in 1..k-1 /\ j \in 1..Len(r)
          BY <1>1, <2>2, <3>1
        <4> QED
          BY <2>2, <2>4, <3>1, <4>1
      <3>2. CASE j = k
        BY <2>4, <2>5, <3>2
      <3>3. j < k \/ j = k
        BY <1>1
      <3> QED
        BY <3>1, <3>2, <3>3
    <2> QED
      BY <2>4, <2>5, <2>6 DEF r
  <1> HIDE DEF u
  <1>4. \A i, j \in 1..N : s[i] = s[j] => i = j
    BY DEF IsList
  <1>5. \A j \in 1..N-1 : nx[s[j]] = s[j+1] /\ pv[s[j+1]] = s[j]
    BY DEF IsList
  <1>6. nx[s[N]] = NULL /\ pv[s[1]] = s[N] /\ dt[s[N]] = Blank
    BY DEF IsList
  <1>7. \A j \in 1..N : s[j] \in S <=> j \in k..N-1
    BY <1>1, <1>4 DEF From
  <1> HIDE DEF S
  <1>8. /\ nx2[s[k-1]] = s[N]
        /\ \A j \in 1..N : j < k-1 \/ j = N => nx2[s[j]] = nx[s[j]]
    <2>1. \A j \in 1..N : j < k-1 \/ j = N => s[j] \notin S /\ s[j] # s[k-1]
      BY <1>1, <1>4, <1>7
    <2>2. s[k-1] \notin S /\ s[k-1] \in Node
      BY <1>1, <1>7
    <2>3. nx2 = [n \in Node |-> IF n \in S THEN NULL
                               ELSE IF n = s[k-1] THEN s[N] ELSE nx[n]]
      BY DEF Truncated, S
    <2> QED
      BY <1>1, <2>1, <2>2, <2>3
  <1>9. /\ pv2[s[N]] = s[k-1]
        /\ \A j \in 1..N : j < k => pv2[s[j]] = pv[s[j]]
    <2>1. \A j \in 1..N : j < k => s[j] \notin S /\ s[j] # s[N]
      BY <1>1, <1>4, <1>7
    <2>2. s[N] \notin S /\ s[N] \in Node
      BY <1>1, <1>7
    <2>3. pv2 = [n \in Node |-> IF n \in S THEN NULL
                               ELSE IF n = s[N] THEN s[k-1] ELSE pv[n]]
      BY DEF Truncated, S
    <2> QED
      BY <1>1, <2>1, <2>2, <2>3
  <1>10. \A j \in 1..N : j < k \/ j = N => dt2[s[j]] = dt[s[j]]
    <2>1. \A j \in 1..N : j < k \/ j = N => s[j] \notin S
      BY <1>1, <1>7
    <2>2. dt2 = [n \in Node |-> IF n \in S THEN Blank ELSE dt[n]]
      BY DEF Truncated, S
    <2> QED
      BY <1>1, <2>1, <2>2
  <1>11. u[k] = s[N] /\ \A j \in 1..k-1 : u[j] = s[j]
    BY <1>1, <1>2
  <1>12. \A i, j \in 1..k : u[i] = u[j] => i = j
    <2> SUFFICES ASSUME NEW i \in 1..k, NEW j \in 1..k, i < j PROVE u[i] # u[j]
      BY <1>1
    <2>1. i \in 1..N /\ u[i] = s[i] /\ i < k
      BY <1>1, <1>11
    <2>2. CASE j < k
      <3>1. j \in 1..N /\ u[j] = s[j] /\ i # j
        BY <1>1, <1>11, <2>2
      <3> QED
        BY <1>4, <2>1, <3>1
    <2>3. CASE j = k
      <3>1. N \in 1..N /\ u[j] = s[N] /\ i # N
        BY <1>1, <1>11, <2>1, <2>3
      <3> QED
        BY <1>4, <2>1, <3>1
    <2> QED
      BY <1>1, <2>2, <2>3
  <1>13. \A j \in 1..k-1 : nx2[u[j]] = u[j+1] /\ pv2[u[j+1]] = u[j]
    <2> TAKE j \in 1..k-1
    <2>1. CASE j < k-1
      <3>1. j \in 1..N /\ j \in 1..N-1 /\ j+1 \in 1..N /\ j+1 < k /\ j+1 \in 1..k-1
        BY <1>1, <2>1
      <3>2. u[j] = s[j] /\ u[j+1] = s[j+1]
        BY <1>11, <3>1
      <3>3. nx2[s[j]] = nx[s[j]] /\ pv2[s[j+1]] = pv[s[j+1]]
        BY <1>8, <1>9, <2>1, <3>1
      <3> QED
        BY <1>5, <3>1, <3>2, <3>3
    <2>2. CASE j = k-1
      <3>1. u[j] = s[k-1] /\ u[j+1] = s[N]
        BY <1>1, <1>11, <2>2
      <3> QED
        BY <1>8, <1>9, <3>1
    <2> QED
      BY <1>1, <2>1, <2>2
  <1>14. u[1] = s[1] /\ 1 \in 1..N /\ N \in 1..N
    BY <1>1, <1>11
  <1>16. IsList(u, nx2, pv2, dt2)
    <2>1. nx2[s[N]] = NULL /\ pv2[s[1]] = s[N] /\ dt2[s[N]] = Blank
      BY <1>1, <1>6, <1>8, <1>9, <1>10, <1>14
    <2>2. Len(u) > 0
      BY <1>1, <1>2
    <2> QED
      BY <1>2, <1>11, <1>12, <1>13, <1>14, <2>1, <2>2 DEF IsList
  <1>17. Items(u, dt2) = SubSeq(Items(s, dt), 1, k-1)
    <2> DEFINE p == Items(s, dt)
               a == Items(u, dt2)
               b == SubSeq(p, 1, k-1)
    <2>1. /\ p \in Seq(Item) /\ Len(p) = N - 1 /\ \A j \in 1..N-1 : p[j] = dt[s[j]]
      <3>1. \A j \in 1..N-1 : dt[s[j]] \in Item
        BY <1>1
      <3> QED
        BY <1>1, <3>1 DEF Items
    <2>2. a = [j \in 1..k-1 |-> dt2[u[j]]]
      BY <1>2 DEF Items
    <2> HIDE DEF p, a
    <2>3. \A j \in 1..k-1 : dt2[u[j]] = p[j] /\ p[j] \in Item
      <3> TAKE j \in 1..k-1
      <3>1. j \in 1..N /\ j \in 1..N-1 /\ j < k /\ u[j] = s[j]
        BY <1>1, <1>11
      <3>2. p[j] = dt[s[j]] /\ dt[s[j]] \in Item
        BY <1>1, <2>1, <3>1
      <3> QED
        BY <1>10, <3>1, <3>2
    <2>4. /\ b \in Seq(Item) /\ Len(b) = k-1 /\ \A j \in 1..k-1 : b[j] = p[j]
      <3>1. 1 \in Int /\ k-1 \in Int /\ \A j \in 1..k-1 : p[j] \in Item
        BY <1>1, <2>3
      <3>2. /\ b \in Seq(Item) /\ Len(b) = IF 1 <= k-1 THEN (k-1)-1+1 ELSE 0
            /\ \A j \in 1..(k-1)-1+1 : b[j] = p[1+j-1]
        BY <3>1, SubSeqProperties
      <3> HIDE DEF b
      <3> QED
        BY <1>1, <3>2
    <2> HIDE DEF b
    <2>5. b = [j \in 1..k-1 |-> b[j]]
      BY <1>1, <2>4
    <2>6. a = b
      BY <2>2, <2>3, <2>4, <2>5
    <2> QED
      BY <2>6 DEF a, b, p
  <1>18. Range(u) = Range(s) \ S
    <2>1. Range(u) = {u[j] : j \in 1..k} /\ Range(s) = {s[j] : j \in 1..N}
      BY <1>1, <1>2 DEF Range
    <2>2. ASSUME NEW j \in 1..k PROVE u[j] \in Range(s) \ S
      <3>1. CASE j < k
        <4>1. j \in 1..N /\ j \notin k..N-1 /\ u[j] = s[j]
          BY <1>1, <1>11, <3>1
        <4> QED
          BY <1>7, <2>1, <4>1
      <3>2. CASE j = k
        <4>1. N \in 1..N /\ N \notin k..N-1 /\ u[j] = s[N]
          BY <1>1, <1>11, <3>2
        <4> QED
          BY <1>7, <2>1, <4>1
      <3> QED
        BY <1>1, <3>1, <3>2
    <2>3. ASSUME NEW j \in 1..N, s[j] \notin S PROVE s[j] \in Range(u)
      <3>0. j < k \/ j = N
        BY <1>1, <1>7, <2>3
      <3>1. CASE j < k
        <4>1. j \in 1..k /\ u[j] = s[j]
          BY <1>1, <1>11, <3>1
        <4> QED
          BY <2>1, <4>1
      <3>2. CASE j = N
        <4>1. k \in 1..k /\ u[k] = s[j]
          BY <1>1, <1>11, <3>2
        <4> QED
          BY <2>1, <4>1
      <3> QED
        BY <3>0, <3>1, <3>2
    <2>4. Range(u) \subseteq Range(s) \ S
      BY <2>1, <2>2
    <2>5. Range(s) \ S \subseteq Range(u)
      BY <2>1, <2>3
    <2> QED
      BY <2>4, <2>5
  <1> QED
    BY <1>14, <1>16, <1>17, <1>18 DEF u, S
-----------------------------------------------------------------------------
(* The lists of a program.                                                 *)

\* What a handle holds: no list, or one that starts at the node it keeps.
Holds(s, first, nx, pv, dt) ==
    IF first = NULL THEN s = << >> ELSE IsList(s, nx, pv, dt) /\ s[1] = first

\* IInv, with the lists as sets of nodes.
HeapInv ==
    /\ head \in [Handle -> Node \cup {NULL}]
    /\ next \in Links /\ prev \in Links /\ data \in [Node -> Item]
    /\ alive \subseteq Node /\ loose \subseteq Node
    /\ chain \in [Handle -> Seq(Node)]
    /\ \A h \in Handle : Holds(chain[h], head[h], next, prev, data)
    /\ \A g, h \in Handle : g # h => Range(chain[g]) \cap Range(chain[h]) = {}
    /\ \A h \in Handle : Range(chain[h]) \cap loose = {}
    /\ NodesOwned /\ Blanks

\* The two say the same, but for the strings that are the program's.
LEMMA HeapInvIsIInv ==
    ASSUME HeapInv, mine \subseteq Str
    PROVE  IInv
  <1>1. TypeOK
    BY DEF HeapInv, TypeOK, Links
  <1>2. Shape
    BY DEF HeapInv, Holds, IsList, Shape, ShapeOf
  <1>3. \A h \in Handle : chain[h] \in Seq(Node) /\ Len(chain[h]) \in Nat
    BY <1>1 DEF TypeOK
  <1>4. ASSUME NEW g \in Handle, NEW h \in Handle,
               NEW j \in 1..Len(chain[g]), NEW k \in 1..Len(chain[h]),
               chain[g][j] = chain[h][k]
        PROVE  g = h /\ j = k
    <2>1. chain[g][j] \in Range(chain[g]) /\ chain[h][k] \in Range(chain[h])
      BY <1>3 DEF Range
    <2>2. g = h
      BY <1>4, <2>1 DEF HeapInv
    <2>3. CASE head[h] = NULL
      <3>1. Len(chain[h]) = 0
        BY <2>3 DEF HeapInv, Holds
      <3> QED
        BY <3>1
    <2>4. CASE head[h] # NULL
      <3>1. \A i, l \in 1..Len(chain[h]) : chain[h][i] = chain[h][l] => i = l
        BY <2>4 DEF HeapInv, Holds, IsList
      <3> QED
        BY <1>4, <2>2, <3>1
    <2> QED
      BY <2>3, <2>4
  <1>5. ASSUME NEW h \in Handle, NEW k \in 1..Len(chain[h])
        PROVE  chain[h][k] \notin loose
    <2>1. chain[h][k] \in Range(chain[h])
      BY <1>3 DEF Range
    <2> QED
      BY <2>1 DEF HeapInv
  <1> QED
    BY <1>1, <1>2, <1>4, <1>5 DEF IInv, Apart, HeapInv

\* The nodes of the lists of the handles in H, before and after a step.
Old(H) == UNION {Range(chain[h]) : h \in H}
New(H) == UNION {Range(chain'[h]) : h \in H}

\* A step that changes the lists of the handles in H only, takes new nodes only
\* from what is not allocated, and hands the nodes of L to the caller.
Moves(H, L) ==
    /\ head' \in [Handle -> Node \cup {NULL}]
    /\ next' \in Links /\ prev' \in Links /\ data' \in [Node -> Item]
    /\ chain' \in [Handle -> Seq(Node)]
    /\ \A h \in Handle \ H : head'[h] = head[h] /\ chain'[h] = chain[h]
    /\ \A h \in H : Holds(chain'[h], head'[h], next', prev', data')
    /\ \A g, h \in H : g # h => Range(chain'[g]) \cap Range(chain'[h]) = {}
    /\ New(H) \subseteq Old(H) \cup (Node \ alive)
    /\ L \subseteq Old(H) \ New(H)
    /\ loose' = loose \cup L
    /\ alive' = (alive \ Old(H)) \cup New(H) \cup L
    /\ \A n \in alive \ Old(H) :
          next'[n] = next[n] /\ prev'[n] = prev[n] /\ data'[n] = data[n]
    /\ \A n \in L : next'[n] = NULL /\ prev'[n] = NULL
    /\ \A n \in Node \ alive' : next'[n] = NULL /\ prev'[n] = NULL /\ data'[n] = Blank

\* Such a step leaves the other lists, and what was taken out before, alone.
LEMMA MovesKeepsHeap ==
    ASSUME HeapInv, NEW H \in SUBSET Handle, NEW L, Moves(H, L)
    PROVE  HeapInv'
  <1>1. \A h \in Handle : Range(chain[h]) \subseteq alive
    BY DEF HeapInv, NodesOwned
  <1>2. \A h \in Handle : chain[h] \in Seq(Node) /\ chain'[h] \in Seq(Node)
    BY DEF HeapInv, Moves
  <1>3. \A h \in Handle \ H : Range(chain[h]) \cap Old(H) = {}
    BY SMTT(60) DEF HeapInv, Old
  <1>4. Old(H) \subseteq alive /\ loose \cap Old(H) = {} /\ loose \subseteq alive
    BY <1>1 DEF HeapInv, Old, NodesOwned
  <1>5. \A h \in Handle \ H : Range(chain[h]) \cap New(H) = {}
    BY <1>1, <1>3 DEF Moves
  <1>6. \A h \in H : Range(chain'[h]) \subseteq New(H)
    BY DEF New
  <1>7. ASSUME NEW h \in Handle
        PROVE  Holds(chain'[h], head'[h], next', prev', data')
    <2>1. CASE h \in H
      BY <2>1 DEF Moves
    <2>2. CASE h \notin H
      <3>1. head'[h] = head[h] /\ chain'[h] = chain[h]
        BY <2>2 DEF Moves
      <3>2. Holds(chain[h], head[h], next, prev, data)
        BY DEF HeapInv
      <3>3. CASE head[h] = NULL
        BY <3>1, <3>2, <3>3 DEF Holds
      <3>4. CASE head[h] # NULL
        <4> DEFINE s == chain[h]
        <4>1. IsList(s, next, prev, data) /\ s[1] = head[h]
          BY <3>2, <3>4 DEF Holds
        <4>2. \A k \in 1..Len(s) : s[k] \in alive \ Old(H)
          <5>1. \A k \in 1..Len(s) : s[k] \in Range(s)
            BY <1>2 DEF Range
          <5> QED
            BY <1>1, <1>3, <2>2, <5>1
        <4>3. \A k \in 1..Len(s) : /\ next'[s[k]] = next[s[k]] /\ prev'[s[k]] = prev[s[k]]
                                   /\ data'[s[k]] = data[s[k]]
          BY <4>2 DEF Moves
        <4> HIDE DEF s
        <4>4. IsList(s, next', prev', data')
          BY <4>1, <4>3, ListFrame
        <4> QED
          BY <3>1, <3>4, <4>1, <4>4 DEF Holds, s
      <3> QED
        BY <3>3, <3>4
    <2> QED
      BY <2>1, <2>2
  <1>8. ASSUME NEW g \in Handle, NEW h \in Handle, g # h
        PROVE  Range(chain'[g]) \cap Range(chain'[h]) = {}
    <2>1. CASE g \in H /\ h \in H
      BY <1>8, <2>1 DEF Moves
    <2>2. CASE g \in H /\ h \notin H
      <3>1. chain'[h] = chain[h]
        BY <2>2 DEF Moves
      <3> QED
        BY <1>5, <1>6, <2>2, <3>1
    <2>3. CASE g \notin H /\ h \in H
      <3>1. chain'[g] = chain[g]
        BY <2>3 DEF Moves
      <3> QED
        BY <1>5, <1>6, <2>3, <3>1
    <2>4. CASE g \notin H /\ h \notin H
      <3>1. chain'[g] = chain[g] /\ chain'[h] = chain[h]
        BY <2>4 DEF Moves
      <3> QED
        BY <1>8, <3>1 DEF HeapInv
    <2> QED
      BY <2>1, <2>2, <2>3, <2>4
  <1>9. ASSUME NEW h \in Handle
        PROVE  Range(chain'[h]) \cap loose' = {}
    <2>1. CASE h \in H
      <3>1. New(H) \cap loose = {} /\ New(H) \cap L = {}
        BY <1>4 DEF Moves
      <3> QED
        BY <1>6, <2>1, <3>1 DEF Moves
    <2>2. CASE h \notin H
      <3>1. chain'[h] = chain[h]
        BY <2>2 DEF Moves
      <3> QED
        BY <1>3, <2>2, <3>1 DEF Moves, HeapInv
    <2> QED
      BY <2>1, <2>2
  <1>10. alive' = loose' \cup UNION {Range(chain'[h]) : h \in Handle}
    <2>1. ASSUME NEW n \in alive' PROVE n \in loose' \/ \E h \in Handle : n \in Range(chain'[h])
      <3>1. CASE n \in alive \ Old(H)
        <4>1. n \in loose \/ \E h \in Handle : n \in Range(chain[h])
          BY <3>1 DEF HeapInv, NodesOwned
        <4>2. \A h \in H : n \notin Range(chain[h])
          BY <3>1 DEF Old
        <4> QED
          BY <4>1, <4>2 DEF Moves
      <3>2. CASE n \in New(H)
        BY <3>2 DEF New
      <3>3. CASE n \in L
        BY <3>3 DEF Moves
      <3> QED
        BY <3>1, <3>2, <3>3 DEF Moves
    <2>2. loose' \subseteq alive'
      BY <1>4 DEF Moves
    <2>3. ASSUME NEW h \in Handle PROVE Range(chain'[h]) \subseteq alive'
      <3>1. CASE h \in H
        BY <1>6, <3>1 DEF Moves
      <3>2. CASE h \notin H
        <4>1. chain'[h] = chain[h]
          BY <3>2 DEF Moves
        <4> QED
          BY <1>1, <1>3, <3>2, <4>1 DEF Moves
      <3> QED
        BY <3>1, <3>2
    <2> QED
      BY <2>1, <2>2, <2>3
  <1>11. alive' \subseteq Node /\ loose' \subseteq Node
    <2>1. Old(H) \subseteq Node /\ alive \subseteq Node /\ loose \subseteq Node
      BY <1>4 DEF HeapInv
    <2> QED
      BY <2>1 DEF Moves
  <1>12. Blanks'
    <2>1. ASSUME NEW n \in loose' PROVE next'[n] = NULL /\ prev'[n] = NULL
      <3>1. CASE n \in L
        BY <3>1 DEF Moves
      <3>2. CASE n \in loose
        <4>1. n \in alive \ Old(H) /\ next[n] = NULL /\ prev[n] = NULL
          BY <1>4, <3>2 DEF HeapInv, Blanks
        <4> QED
          BY <4>1 DEF Moves
      <3> QED
        BY <3>1, <3>2 DEF Moves
    <2> QED
      BY <2>1 DEF Moves, Blanks
  <1> QED
    BY <1>7, <1>8, <1>9, <1>10, <1>11, <1>12 DEF HeapInv, Moves, NodesOwned
\* The other lists keep their items, and what was taken out before keeps its
\* item and stays its taker's.
LEMMA MovesKeepsItems ==
    ASSUME HeapInv, NEW H \in SUBSET Handle, NEW L, Moves(H, L)
    PROVE  /\ \A h \in Handle \ H : head'[h] = head[h] /\ ItemsOf(h)' = ItemsOf(h)
           /\ \A n \in loose : data'[n] = data[n]
  <1>1. \A h \in Handle : Range(chain[h]) \subseteq alive /\ chain[h] \in Seq(Node)
    BY DEF HeapInv, NodesOwned
  <1>2. \A h \in Handle \ H : Range(chain[h]) \cap Old(H) = {}
    BY SMTT(60) DEF HeapInv, Old
  <1>3. loose \cap Old(H) = {} /\ loose \subseteq alive
    BY DEF HeapInv, Old, NodesOwned
  <1>4. ASSUME NEW h \in Handle \ H
        PROVE  head'[h] = head[h] /\ ItemsOf(h)' = ItemsOf(h)
    <2>1. head'[h] = head[h] /\ chain'[h] = chain[h]
      BY DEF Moves
    <2>2. \A k \in 1..Len(chain[h]) - 1 : chain[h][k] \in Range(chain[h])
      BY <1>1 DEF Range
    <2>3. \A k \in 1..Len(chain[h]) - 1 : data'[chain[h][k]] = data[chain[h][k]]
      BY <1>1, <1>2, <2>2 DEF Moves
    <2> QED
      BY <2>1, <2>3 DEF ItemsOf
  <1>5. \A n \in loose : data'[n] = data[n]
    BY <1>3 DEF Moves
  <1> QED
    BY <1>4, <1>5

\* Moves, of one list that becomes t.
MovesOne(h, t, L) ==
    /\ head' \in [Handle -> Node \cup {NULL}]
    /\ next' \in Links /\ prev' \in Links /\ data' \in [Node -> Item]
    /\ t \in Seq(Node) /\ chain' = [chain EXCEPT ![h] = t]
    /\ \A g \in Handle \ {h} : head'[g] = head[g]
    /\ Holds(t, head'[h], next', prev', data')
    /\ Range(t) \subseteq Range(chain[h]) \cup (Node \ alive)
    /\ L \subseteq Range(chain[h]) \ Range(t)
    /\ loose' = loose \cup L
    /\ alive' = (alive \ Range(chain[h])) \cup Range(t) \cup L
    /\ \A n \in alive \ Range(chain[h]) :
          next'[n] = next[n] /\ prev'[n] = prev[n] /\ data'[n] = data[n]
    /\ \A n \in L : next'[n] = NULL /\ prev'[n] = NULL
    /\ \A n \in Node \ alive' : next'[n] = NULL /\ prev'[n] = NULL /\ data'[n] = Blank

LEMMA OneMoves ==
    ASSUME HeapInv, NEW h \in Handle, NEW t, NEW L, MovesOne(h, t, L)
    PROVE  Moves({h}, L)
  <1>1. chain'[h] = t /\ chain' \in [Handle -> Seq(Node)]
        /\ \A g \in Handle \ {h} : chain'[g] = chain[g]
    BY DEF MovesOne, HeapInv
  <1>2. Old({h}) = Range(chain[h]) /\ New({h}) = Range(t)
    BY <1>1 DEF Old, New
  <1>3. \A g \in {h} : Holds(chain'[g], head'[g], next', prev', data')
    BY <1>1 DEF MovesOne
  <1>4. \A f, g \in {h} : f # g => Range(chain'[f]) \cap Range(chain'[g]) = {}
    OBVIOUS
  <1> QED
    BY <1>1, <1>2, <1>3, <1>4 DEF MovesOne, Moves

\* What the invariant says of a list that a handle has.
LEMMA HeldList ==
    ASSUME HeapInv, NEW h \in Handle, head[h] # NULL
    PROVE  /\ IsList(chain[h], next, prev, data)
           /\ chain[h] \in Seq(Node) /\ Len(chain[h]) \in Nat \ {0}
           /\ \A k \in 1..Len(chain[h]) : chain[h][k] \in Node
           /\ chain[h][1] = head[h] /\ head[h] \in Range(chain[h])
           /\ prev[head[h]] = chain[h][Len(chain[h])]
           /\ Range(chain[h]) \subseteq alive /\ head[h] \in Node
           /\ ItemsOf(h) = Items(chain[h], data)
  <1>1. IsList(chain[h], next, prev, data) /\ chain[h][1] = head[h]
    BY DEF HeapInv, Holds
  <1>2. chain[h] \in Seq(Node) /\ Len(chain[h]) \in Nat \ {0}
    BY <1>1 DEF IsList
  <1>3. \A k \in 1..Len(chain[h]) : chain[h][k] \in Node /\ chain[h][k] \in Range(chain[h])
    BY <1>2 DEF Range
  <1>4. 1 \in 1..Len(chain[h])
    BY <1>2
  <1>5. prev[head[h]] = chain[h][Len(chain[h])]
    BY <1>1 DEF IsList
  <1>6. Range(chain[h]) \subseteq alive
    BY DEF HeapInv, NodesOwned
  <1>7. ItemsOf(h) = Items(chain[h], data)
    BY DEF ItemsOf, Items
  <1> QED
    BY <1>1, <1>2, <1>3, <1>4, <1>5, <1>6, <1>7

-----------------------------------------------------------------------------
(* The calls, and the list.                                                *)

\* A new list (xlist_init).
LEMMA InitMoves ==
    ASSUME HeapInv, NEW h \in Handle, NEW n \in Node, xlist_init(h, n)
    PROVE  Moves({h}, {}) /\ head'[h] # NULL /\ ItemsOf(h)' = << >>
  <1>1. chain[h] = << >> /\ Range(chain[h]) = {}
    BY DEF HeapInv, Holds, xlist_init, Range
  <1>2. next[n] = NULL /\ data[n] = Blank
    BY DEF HeapInv, Blanks, xlist_init
  <1>3. prev'[n] = n /\ next' = next /\ data' = data /\ head'[h] = n
    BY DEF HeapInv, xlist_init, Links
  <1> DEFINE t == <<n>>
  <1>4. t \in Seq(Node) /\ Len(t) = 1 /\ t[1] = n /\ Range(t) = {n}
    BY DEF Range
  <1> HIDE DEF t
  <1>5. IsList(t, next', prev', data')
    BY <1>2, <1>3, <1>4 DEF IsList
  <1>6. Holds(t, head'[h], next', prev', data')
    BY <1>3, <1>4, <1>5 DEF Holds
  <1>7. /\ head' \in [Handle -> Node \cup {NULL}] /\ next' \in Links /\ prev' \in Links
        /\ data' \in [Node -> Item]
        /\ \A g \in Handle \ {h} : head'[g] = head[g]
        /\ \A m \in Node \ {n} : prev'[m] = prev[m]
    BY DEF HeapInv, xlist_init, Links
  <1>8. MovesOne(h, t, {})
    <2>1. chain' = [chain EXCEPT ![h] = t] /\ alive' = alive \cup {n} /\ loose' = loose
      BY DEF xlist_init, t
    <2>2. \A m \in alive : prev'[m] = prev[m]
      BY <1>7 DEF HeapInv, xlist_init
    <2>3. \A m \in Node \ alive' : next[m] = NULL /\ prev'[m] = NULL /\ data[m] = Blank
      BY <1>7, <2>1 DEF HeapInv, Blanks
    <2>4. n \in Node \ alive
      BY DEF xlist_init
    <2> QED
      BY <1>1, <1>3, <1>4, <1>6, <1>7, <2>1, <2>2, <2>3, <2>4 DEF MovesOne
  <1>9. ItemsOf(h)' = << >>
    <2>1. chain'[h] = t
      BY DEF HeapInv, xlist_init, t
    <2>2. head'[h] # NULL
      BY <1>3
    <2>3. ItemsOf(h)' = [k \in 1..Len(chain'[h]) - 1 |-> data'[chain'[h][k]]]
      BY <2>2 DEF ItemsOf
    <2>4. Len(chain'[h]) - 1 = 0
      BY <1>4, <2>1
    <2>5. ItemsOf(h)' = [k \in 1..0 |-> data'[chain'[h][k]]]
      BY <2>3, <2>4
    <2> QED
      BY <2>5
  <1> QED
    BY <1>3, <1>8, <1>9, OneMoves

\* An item at index k, with a new node behind it (xlist_insert, xlist_push,
\* xlist_cat).
PutStep(h, k, n, item) ==
    /\ Spliced(chain[h], k, n, item, next, prev, data, next', prev', data')
    /\ alive' = alive \cup {n}
    /\ chain' = [chain EXCEPT ![h] = InsertAt(chain[h], k + 1, n)]
    /\ UNCHANGED <<head, loose>>

LEMMA PutMoves ==
    ASSUME HeapInv, NEW h \in Handle, head[h] # NULL, NEW k \in 1..Len(chain[h]),
           NEW n \in Node, n \notin alive, NEW item \in Item, PutStep(h, k, n, item)
    PROVE  Moves({h}, {}) /\ ItemsOf(h)' = InsertAt(ItemsOf(h), k, item)
  <1> DEFINE s == chain[h]
             t == InsertAt(s, k + 1, n)
  <1>1. /\ IsList(s, next, prev, data) /\ s \in Seq(Node) /\ Len(s) \in Nat \ {0}
        /\ \A j \in 1..Len(s) : s[j] \in Node /\ s[j] \in Range(s)
        /\ s[1] = head[h] /\ Range(s) \subseteq alive /\ ItemsOf(h) = Items(s, data)
    <2>1. \A j \in 1..Len(s) : s[j] \in Range(s)
      BY HeldList DEF Range
    <2> QED
      BY <2>1, HeldList
  <1>2. next \in Links /\ prev \in Links /\ data \in [Node -> Item]
    BY DEF HeapInv
  <1>3. k \in 1..Len(s) /\ n \notin Range(s)
    BY <1>1
  <1>4. Spliced(s, k, n, item, next, prev, data, next', prev', data')
    BY DEF PutStep
  <1> HIDE DEF s
  <1>5. /\ IsList(t, next', prev', data') /\ Items(t, data') = InsertAt(Items(s, data), k, item)
        /\ t[1] = s[1] /\ Range(t) = Range(s) \cup {n}
    BY <1>1, <1>2, <1>3, <1>4, InsertList
  <1> HIDE DEF t
  <1>6. /\ chain' = [chain EXCEPT ![h] = t] /\ head' = head /\ loose' = loose
        /\ alive' = alive \cup {n}
    BY DEF PutStep, s, t
  <1>7. t \in Seq(Node) /\ Len(t) \in Nat
    BY <1>5 DEF IsList
  <1>8. next[s[k]] # NULL => next[s[k]] \in Range(s)
    <2>1. CASE k = Len(s)
      BY <1>1, <2>1 DEF IsList
    <2>2. CASE k < Len(s)
      <3>1. next[s[k]] = s[k+1] /\ k+1 \in 1..Len(s)
        BY <1>1, <1>3, <2>2 DEF IsList
      <3> QED
        BY <1>1, <3>1
    <2>3. k = Len(s) \/ k < Len(s)
      BY <1>1, <1>3
    <2> QED
      BY <2>1, <2>2, <2>3
  <1>9. s[k] \in Range(s) /\ s[1] \in Range(s) /\ s[k] \in Node /\ s[1] \in Node
        /\ data[s[k]] \in Item /\ next[s[k]] \in Node \cup {NULL}
    <2>1. 1 \in 1..Len(s)
      BY <1>1
    <2> QED
      BY <1>1, <1>2, <1>3, <2>1 DEF Links
  <1>10. next' \in Links /\ prev' \in Links /\ data' \in [Node -> Item]
    BY <1>2, <1>4, <1>9 DEF Links, Spliced
  <1>11. \A m \in Node \ (Range(s) \cup {n}) :
            next'[m] = next[m] /\ prev'[m] = prev[m] /\ data'[m] = data[m]
    BY <1>2, <1>4, <1>8, <1>9 DEF Links, Spliced
  <1>12. MovesOne(h, t, {})
    <2>1. Holds(t, head'[h], next', prev', data')
      BY <1>1, <1>5, <1>6 DEF Holds
    <2>2. \A m \in alive \ Range(s) : m \in Node \ (Range(s) \cup {n})
      BY DEF HeapInv
    <2>3. \A m \in Node \ alive' : m \in Node \ (Range(s) \cup {n}) /\ m \notin alive
      BY <1>1, <1>6
    <2>4. \A m \in Node \ alive : next[m] = NULL /\ prev[m] = NULL /\ data[m] = Blank
      BY DEF HeapInv, Blanks
    <2>5. head \in [Handle -> Node \cup {NULL}]
      BY DEF HeapInv
    <2> QED
      BY <1>1, <1>5, <1>6, <1>7, <1>10, <1>11, <2>1, <2>2, <2>3, <2>4, <2>5 DEF MovesOne, s
  <1>13. ItemsOf(h)' = Items(t, data')
    <2>1. chain'[h] = t /\ head'[h] # NULL
      BY <1>6 DEF HeapInv
    <2> QED
      BY <2>1 DEF ItemsOf, Items
  <1> QED
    BY <1>1, <1>5, <1>12, <1>13, OneMoves

\* The item at index k leaves, and the node p behind it (xlist_break).
BreakStep(h, k, left) ==
    /\ Unspliced(chain[h], k, left, next, prev, data, next', prev', data')
    /\ chain' = [chain EXCEPT ![h] = RemoveAt(chain[h], k + 1)]
    /\ head' = head

LEMMA BreakMoves ==
    ASSUME HeapInv, NEW h \in Handle, head[h] # NULL, NEW k \in 1..Len(chain[h])-1,
           NEW left \in Item, BreakStep(h, k, left)
    PROVE  /\ loose' = loose \cup {chain[h][k+1]} /\ alive' = alive
              => Moves({h}, {chain[h][k+1]})
           /\ loose' = loose /\ alive' = alive \ {chain[h][k+1]} /\ left = Blank
              => Moves({h}, {})
           /\ ItemsOf(h)' = RemoveAt(ItemsOf(h), k)
           /\ chain[h][k+1] \notin loose /\ data'[chain[h][k+1]] = left
  <1> DEFINE s == chain[h]
             p == s[k+1]
             t == RemoveAt(s, k + 1)
  <1>1. /\ IsList(s, next, prev, data) /\ s \in Seq(Node) /\ Len(s) \in Nat \ {0}
        /\ \A j \in 1..Len(s) : s[j] \in Node /\ s[j] \in Range(s)
        /\ s[1] = head[h] /\ Range(s) \subseteq alive /\ ItemsOf(h) = Items(s, data)
    <2>1. \A j \in 1..Len(s) : s[j] \in Range(s)
      BY HeldList DEF Range
    <2> QED
      BY <2>1, HeldList
  <1>2. next \in Links /\ prev \in Links /\ data \in [Node -> Item]
    BY DEF HeapInv
  <1>3. k \in 1..Len(s)-1 /\ k \in 1..Len(s) /\ k+1 \in 1..Len(s) /\ k # k+1
    BY <1>1
  <1>4. Unspliced(s, k, left, next, prev, data, next', prev', data')
    BY DEF BreakStep
  <1> HIDE DEF s
  <1>5. /\ IsList(t, next', prev', data') /\ Items(t, data') = RemoveAt(Items(s, data), k)
        /\ t[1] = s[1] /\ Range(t) = Range(s) \ {p}
    <2>1. k \in 1..Len(s)-1 /\ left \in Item
      BY <1>3
    <2> QED
      BY <1>1, <1>2, <1>4, <2>1, BreakList
  <1> HIDE DEF t
  <1>6. chain' = [chain EXCEPT ![h] = t] /\ head' = head
    BY DEF BreakStep, s, t
  <1>7. t \in Seq(Node) /\ Len(t) \in Nat
    BY <1>5 DEF IsList
  <1>8. /\ p \in Range(s) /\ s[k] \in Range(s) /\ s[1] \in Range(s)
        /\ p \in Node /\ s[k] \in Node /\ s[1] \in Node /\ s[k] # p
        /\ k + 1 < Len(s) => s[k+2] \in Range(s) /\ s[k+2] \in Node /\ s[k+2] # p
    <2>1. 1 \in 1..Len(s) /\ (k + 1 < Len(s) => k+2 \in 1..Len(s) /\ k+2 # k+1)
      BY <1>1, <1>3
    <2>2. \A i, j \in 1..Len(s) : s[i] = s[j] => i = j
      BY <1>1 DEF IsList
    <2> QED
      BY <1>1, <1>3, <2>1, <2>2
  <1> HIDE DEF p
  <1>9. Unspliced(s, k, left, next, prev, data, next', prev', data') =>
           /\ next' = [next EXCEPT ![s[k]] = next[p], ![p] = NULL]
           /\ prev' = IF k + 1 < Len(s) THEN [prev EXCEPT ![s[k+2]] = s[k], ![p] = NULL]
                      ELSE [prev EXCEPT ![s[1]] = s[k], ![p] = NULL]
           /\ data' = [data EXCEPT ![s[k]] = data[p], ![p] = left]
    BY DEF Unspliced, p
  <1>10. next' \in Links /\ prev' \in Links /\ data' \in [Node -> Item]
    BY <1>2, <1>4, <1>8, <1>9 DEF Links
  <1>11. \A m \in Node \ Range(s) :
            next'[m] = next[m] /\ prev'[m] = prev[m] /\ data'[m] = data[m]
    BY <1>2, <1>4, <1>8, <1>9 DEF Links
  <1>12. next'[p] = NULL /\ prev'[p] = NULL /\ data'[p] = left
    BY <1>2, <1>4, <1>8, <1>9 DEF Links
  <1>13. /\ Holds(t, head'[h], next', prev', data')
         /\ \A m \in alive \ Range(s) : m \in Node \ Range(s)
         /\ \A m \in Node \ alive : m \in Node \ Range(s)
         /\ \A m \in Node \ alive : next[m] = NULL /\ prev[m] = NULL /\ data[m] = Blank
         /\ head \in [Handle -> Node \cup {NULL}]
    BY <1>1, <1>5, <1>6 DEF Holds, HeapInv, Blanks
  <1>14. ASSUME loose' = loose \cup {p} /\ alive' = alive
         PROVE  Moves({h}, {p})
    <2>1. alive' = (alive \ Range(s)) \cup Range(t) \cup {p}
      BY <1>1, <1>5, <1>8, <1>14
    <2>2. {p} \subseteq Range(s) \ Range(t) /\ Range(t) \subseteq Range(s)
      BY <1>5, <1>8
    <2>3. /\ \A m \in {p} : next'[m] = NULL /\ prev'[m] = NULL
          /\ \A m \in Node \ alive' : next'[m] = NULL /\ prev'[m] = NULL /\ data'[m] = Blank
      BY <1>11, <1>12, <1>13, <1>14
    <2>4. MovesOne(h, t, {p})
      BY <1>6, <1>7, <1>10, <1>11, <1>13, <1>14, <2>1, <2>2, <2>3 DEF MovesOne, s
    <2> QED
      BY <2>4, OneMoves
  <1>15. ASSUME loose' = loose /\ alive' = alive \ {p} /\ left = Blank
         PROVE  Moves({h}, {})
    <2>1. MovesOne(h, t, {})
      BY <1>1, <1>5, <1>6, <1>7, <1>8, <1>10, <1>11, <1>12, <1>13, <1>15 DEF MovesOne, s
    <2> QED
      BY <2>1, OneMoves
  <1>16. ItemsOf(h)' = Items(t, data')
    <2>1. chain'[h] = t /\ head'[h] # NULL
      BY <1>6 DEF HeapInv
    <2> QED
      BY <2>1 DEF ItemsOf, Items
  <1>17. p \notin loose
    BY <1>8 DEF HeapInv, s
  <1> QED
    BY <1>1, <1>5, <1>12, <1>14, <1>15, <1>16, <1>17 DEF p, s

\* The list of g goes behind that of h, and g has none (xlist_combin).
LEMMA JoinMoves ==
    ASSUME HeapInv, NEW h \in Handle, NEW g \in Handle, xlist_combin(h, g)
    PROVE  /\ Moves({h, g}, {})
           /\ ItemsOf(g) # NULL /\ head'[g] = NULL
           /\ ItemsOf(h)' = ItemsOf(h) \o ItemsOf(g)
           /\ head[g] \in alive
           /\ data' = [data EXCEPT ![chain[h][Len(chain[h])]] = data[head[g]],
                                   ![head[g]] = Blank]
           /\ data[chain[h][Len(chain[h])]] = Blank
           /\ chain[h][Len(chain[h])] \in Node /\ chain[h][Len(chain[h])] # head[g]
  <1> DEFINE s == chain[h]
             t == chain[g]
             u == s \o Tail(t)
  <1>1. h # g /\ head[h] # NULL /\ head[g] # NULL /\ prev[head[g]] # head[g]
    BY DEF xlist_combin, xlist_isempty
  <1>2. /\ IsList(s, next, prev, data) /\ s \in Seq(Node) /\ Len(s) \in Nat \ {0}
        /\ s[1] = head[h] /\ prev[head[h]] = s[Len(s)]
        /\ Range(s) \subseteq alive /\ ItemsOf(h) = Items(s, data)
        /\ \A j \in 1..Len(s) : s[j] \in Node /\ s[j] \in Range(s)
    <2>1. \A j \in 1..Len(s) : s[j] \in Range(s)
      BY <1>1, HeldList DEF Range
    <2> QED
      BY <1>1, <2>1, HeldList
  <1>3. /\ IsList(t, next, prev, data) /\ t \in Seq(Node) /\ Len(t) \in Nat \ {0}
        /\ t[1] = head[g] /\ prev[head[g]] = t[Len(t)]
        /\ Range(t) \subseteq alive /\ ItemsOf(g) = Items(t, data)
        /\ \A j \in 1..Len(t) : t[j] \in Node /\ t[j] \in Range(t)
    <2>1. \A j \in 1..Len(t) : t[j] \in Range(t)
      BY <1>1, HeldList DEF Range
    <2> QED
      BY <1>1, <2>1, HeldList
  <1>4. next \in Links /\ prev \in Links /\ data \in [Node -> Item]
        /\ Range(s) \cap Range(t) = {} /\ alive \subseteq Node
    BY <1>1 DEF HeapInv
  <1> HIDE DEF s, t
  <1>5. Len(t) > 1 /\ 1 \in 1..Len(t) /\ 2 \in 1..Len(t) /\ Len(t) \in 1..Len(t)
        /\ 1 \in 1..Len(s) /\ Len(s) \in 1..Len(s)
    <2>1. Len(t) # 1
      BY <1>1, <1>3
    <2>2. Len(t) \in Nat /\ Len(t) # 0
      BY <1>3
    <2>3. Len(t) > 1 /\ 1 \in 1..Len(t) /\ 2 \in 1..Len(t) /\ Len(t) \in 1..Len(t)
      BY <2>1, <2>2, MoreThanOne
    <2>4. Len(s) \in Nat \ {0}
      BY <1>2
    <2>5. 1 \in 1..Len(s) /\ Len(s) \in 1..Len(s)
      BY <2>4
    <2> QED
      BY <2>3, <2>5
  <1>6. next[head[g]] = t[2]
    <2>1. 1 \in 1..Len(t)-1
      BY <1>3, <1>5
    <2>2. \A j \in 1..Len(t)-1 : next[t[j]] = t[j+1]
      BY <1>3 DEF IsList
    <2>3. next[t[1]] = t[1+1]
      BY <2>1, <2>2
    <2> QED
      BY <1>3, <2>3
  <1>7. /\ next' = [next EXCEPT ![s[Len(s)]] = t[2], ![t[1]] = NULL]
        /\ prev' = [prev EXCEPT ![t[1]] = NULL, ![t[2]] = s[Len(s)], ![s[1]] = t[Len(t)]]
        /\ data' = [data EXCEPT ![s[Len(s)]] = data[t[1]], ![t[1]] = Blank]
    BY <1>2, <1>3, <1>6 DEF xlist_combin, CombinPrev
  <1>8. Joined(s, t, next, prev, data, next', prev', data')
    BY <1>7 DEF Joined
  <1>9. /\ IsList(u, next', prev', data') /\ Items(u, data') = Items(s, data) \o Items(t, data)
        /\ u[1] = s[1] /\ Range(u) = (Range(s) \cup Range(t)) \ {t[1]}
    <2>1. Len(t) > 1 /\ Range(s) \cap Range(t) = {}
      BY <1>4, <1>5
    <2> QED
      BY <1>2, <1>3, <1>4, <1>8, <2>1, JoinList, SMTT(20) DEF u
  <1>10. /\ chain' = [chain EXCEPT ![h] = u, ![g] = << >>]
         /\ head' = [head EXCEPT ![g] = NULL] /\ alive' = alive \ {t[1]} /\ loose' = loose
    BY <1>3 DEF xlist_combin, Freed, s, t, u
  <1> HIDE DEF u
  <1>11. u \in Seq(Node)
    BY <1>9 DEF IsList
  <1>12. /\ s[Len(s)] \in Range(s) /\ t[1] \in Range(t) /\ t[2] \in Range(t) /\ s[1] \in Range(s)
         /\ s[Len(s)] \in Node /\ t[1] \in Node /\ t[2] \in Node /\ s[1] \in Node
         /\ t[Len(t)] \in Node /\ t[1] # t[2] /\ t[1] # s[1]
         /\ data[t[1]] \in Item /\ data[s[Len(s)]] = Blank
    <2>1. t[1] # t[2]
      BY <1>3, <1>5 DEF IsList
    <2>2. data[s[Len(s)]] = Blank
      BY <1>2 DEF IsList
    <2> QED
      BY <1>2, <1>3, <1>4, <1>5, <2>1, <2>2
  <1>13. next' \in Links /\ prev' \in Links /\ data' \in [Node -> Item]
    BY <1>4, <1>7, <1>12 DEF Links, Blank, Item
  <1>14. \A m \in Node \ (Range(s) \cup Range(t)) :
            next'[m] = next[m] /\ prev'[m] = prev[m] /\ data'[m] = data[m]
    BY <1>4, <1>7, <1>12 DEF Links
  <1>15. next'[t[1]] = NULL /\ prev'[t[1]] = NULL /\ data'[t[1]] = Blank
    BY <1>4, <1>7, <1>12 DEF Links
  <1>16. /\ chain'[h] = u /\ chain'[g] = << >> /\ head'[h] = head[h] /\ head'[g] = NULL
         /\ \A f \in Handle \ {h, g} : chain'[f] = chain[f] /\ head'[f] = head[f]
         /\ chain' \in [Handle -> Seq(Node)] /\ head' \in [Handle -> Node \cup {NULL}]
    <2>1. head \in [Handle -> Node \cup {NULL}] /\ chain \in [Handle -> Seq(Node)]
          /\ << >> \in Seq(Node)
      BY DEF HeapInv
    <2> DEFINE e == << >>
    <2>2. chain' = [chain EXCEPT ![h] = u, ![g] = e] /\ e \in Seq(Node) /\ e = << >>
      BY <1>10
    <2> HIDE DEF e
    <2>3. /\ chain'[h] = u /\ chain'[g] = e /\ chain' \in [Handle -> Seq(Node)]
          /\ \A f \in Handle \ {h, g} : chain'[f] = chain[f]
      BY <1>1, <1>11, <2>1, <2>2
    <2>4. /\ head'[h] = head[h] /\ head'[g] = NULL /\ head' \in [Handle -> Node \cup {NULL}]
          /\ \A f \in Handle \ {h, g} : head'[f] = head[f]
      BY <1>1, <1>10, <2>1
    <2> QED
      BY <2>2, <2>3, <2>4
  <1>17. Old({h, g}) = Range(s) \cup Range(t) /\ New({h, g}) = Range(u)
    <2>1. Range(<< >>) = {}
      BY DEF Range
    <2>2. New({h, g}) = Range(u) \cup Range(<< >>)
      BY <1>16 DEF New
    <2> QED
      BY <2>1, <2>2 DEF Old, s, t
  <1>18. Moves({h, g}, {})
    <2>1. \A f \in {h, g} : Holds(chain'[f], head'[f], next', prev', data')
      BY <1>1, <1>2, <1>9, <1>16 DEF Holds
    <2>2. \A e, f \in {h, g} : e # f => Range(chain'[e]) \cap Range(chain'[f]) = {}
      BY <1>16 DEF Range
    <2>3. alive' = (alive \ Old({h, g})) \cup New({h, g}) \cup {}
      BY <1>2, <1>3, <1>9, <1>10, <1>12, <1>17
    <2>4. \A n \in Node \ alive' : next'[n] = NULL /\ prev'[n] = NULL /\ data'[n] = Blank
      <3>1. \A n \in Node \ alive : n \in Node \ (Range(s) \cup Range(t))
        BY <1>2, <1>3
      <3>2. \A n \in Node \ alive : next[n] = NULL /\ prev[n] = NULL /\ data[n] = Blank
        BY DEF HeapInv, Blanks
      <3> QED
        BY <1>10, <1>14, <1>15, <3>1, <3>2
    <2>5. \A n \in alive \ Old({h, g}) :
             next'[n] = next[n] /\ prev'[n] = prev[n] /\ data'[n] = data[n]
      BY <1>4, <1>14, <1>17
    <2> QED
      <3>1. New({h, g}) \subseteq Old({h, g}) \cup (Node \ alive) /\ loose' = loose \cup {}
        BY <1>9, <1>10, <1>17
      <3>2. \A f \in Handle \ {h, g} : head'[f] = head[f] /\ chain'[f] = chain[f]
        BY <1>16
      <3> QED
        BY <1>13, <1>16, <2>1, <2>2, <2>3, <2>4, <2>5, <3>1, <3>2 DEF Moves
  <1>19. ItemsOf(h)' = Items(u, data')
    BY <1>1, <1>16 DEF ItemsOf, Items
  <1>20. ItemsOf(g) # NULL
    <2>1. Items(t, data) \in Seq(Item)
      <3>1. \A j \in 1..Len(t)-1 : data[t[j]] \in Item
        BY <1>3, <1>4
      <3> QED
        BY <1>3, <3>1 DEF Items
    <2> QED
      BY <1>3, <2>1, ListAssumption
  <1> QED
    BY <1>2, <1>3, <1>4, <1>7, <1>9, <1>12, <1>16, <1>18, <1>19, <1>20 DEF s, t

\* The k-th item and those behind it are freed (xlist_terminal).
LEMMA TruncateMoves ==
    ASSUME HeapInv, NEW h \in Handle, NEW k \in 1..Len(chain[h]), xlist_terminal(h, k)
    PROVE  Moves({h}, {}) /\ ItemsOf(h)' = SubSeq(ItemsOf(h), 1, k - 1)
  <1> DEFINE s == chain[h]
             S == From(s, k)
             t == Append(SubSeq(s, 1, k - 1), s[Len(s)])
  <1>1. head[h] # NULL /\ k \in 2..Len(s) - 1
    BY DEF xlist_terminal
  <1>2. /\ IsList(s, next, prev, data) /\ s \in Seq(Node) /\ Len(s) \in Nat \ {0}
        /\ s[1] = head[h] /\ prev[head[h]] = s[Len(s)]
        /\ Range(s) \subseteq alive /\ ItemsOf(h) = Items(s, data)
        /\ \A j \in 1..Len(s) : s[j] \in Node /\ s[j] \in Range(s)
    <2>1. \A j \in 1..Len(s) : s[j] \in Range(s)
      BY <1>1, HeldList DEF Range
    <2> QED
      BY <1>1, <2>1, HeldList
  <1>3. next \in Links /\ prev \in Links /\ data \in [Node -> Item] /\ alive \subseteq Node
    BY DEF HeapInv
  <1> HIDE DEF s
  <1>4. prev[s[k]] = s[k-1]
    <2>1. k-1 \in 1..Len(s)-1 /\ (k-1)+1 = k
      BY <1>1, <1>2
    <2>2. \A j \in 1..Len(s)-1 : prev[s[j+1]] = s[j]
      BY <1>2 DEF IsList
    <2>3. prev[s[(k-1)+1]] = s[k-1]
      BY <2>1, <2>2
    <2> QED
      BY <2>1, <2>3
  <1>5. /\ next' = [n \in Node |-> IF n \in S THEN NULL
                                   ELSE IF n = s[k-1] THEN s[Len(s)] ELSE next[n]]
        /\ prev' = [n \in Node |-> IF n \in S THEN NULL
                                   ELSE IF n = s[Len(s)] THEN s[k-1] ELSE prev[n]]
        /\ data' = [n \in Node |-> IF n \in S THEN Blank ELSE data[n]]
        /\ alive' = alive \ S /\ loose' = loose /\ head' = head
        /\ chain' = [chain EXCEPT ![h] = t]
    <2>1. prev[chain[h][k]] = s[k-1] /\ prev[head[h]] = s[Len(s)]
      BY <1>2, <1>4 DEF s
    <2> QED
      BY <2>1 DEF xlist_terminal, FreedAll, From, s
  <1> HIDE DEF S, t
  <1>6. Truncated(s, k, next, prev, data, next', prev', data')
    BY <1>5 DEF Truncated, S
  <1>7. /\ IsList(t, next', prev', data')
        /\ Items(t, data') = SubSeq(Items(s, data), 1, k-1)
        /\ t[1] = s[1] /\ Range(t) = Range(s) \ S
    <2>1. /\ next \in Links /\ prev \in Links /\ data \in [Node -> Item]
          /\ IsList(s, next, prev, data) /\ k \in 2..Len(s)-1
          /\ Truncated(s, k, next, prev, data, next', prev', data')
      BY <1>1, <1>2, <1>3, <1>6
    <2> QED
      BY <2>1, TruncateList DEF t, S
  <1>8. t \in Seq(Node)
    BY <1>7 DEF IsList
  <1>9. /\ S \subseteq Range(s) /\ s[k-1] \in Range(s) /\ s[Len(s)] \in Range(s)
        /\ s[k-1] \in Node /\ s[Len(s)] \in Node
    <2>1. k-1 \in 1..Len(s) /\ Len(s) \in 1..Len(s) /\ \A j \in k..Len(s)-1 : j \in 1..Len(s)
      BY <1>1, <1>2
    <2> QED
      BY <1>2, <2>1 DEF S, From
  <1>10. next' \in Links /\ prev' \in Links /\ data' \in [Node -> Item]
    BY <1>3, <1>5, <1>9 DEF Links, Blank, Item
  <1>11. \A m \in Node \ Range(s) :
            next'[m] = next[m] /\ prev'[m] = prev[m] /\ data'[m] = data[m]
    BY <1>5, <1>9
  <1>12. \A m \in S : m \in Node /\ next'[m] = NULL /\ prev'[m] = NULL /\ data'[m] = Blank
    BY <1>2, <1>3, <1>5, <1>9
  <1>13. MovesOne(h, t, {})
    <2>1. Holds(t, head'[h], next', prev', data')
      BY <1>1, <1>2, <1>5, <1>7 DEF Holds
    <2>2. \A m \in alive \ Range(s) : m \in Node \ Range(s)
      BY <1>3
    <2>3. \A m \in Node \ alive' : next'[m] = NULL /\ prev'[m] = NULL /\ data'[m] = Blank
      <3>1. \A m \in Node \ alive : next[m] = NULL /\ prev[m] = NULL /\ data[m] = Blank
        BY DEF HeapInv, Blanks
      <3> QED
        BY <1>2, <1>5, <1>11, <1>12, <3>1
    <2>4. alive' = (alive \ Range(s)) \cup Range(t) \cup {}
      BY <1>2, <1>5, <1>7, <1>9
    <2>5. head \in [Handle -> Node \cup {NULL}]
      BY DEF HeapInv
    <2> QED
      BY <1>5, <1>7, <1>8, <1>10, <1>11, <2>1, <2>2, <2>3, <2>4, <2>5 DEF MovesOne, s
  <1>14. ItemsOf(h)' = Items(t, data')
    <2>1. chain'[h] = t /\ head'[h] # NULL
      BY <1>1, <1>5 DEF HeapInv
    <2> QED
      BY <2>1 DEF ItemsOf, Items
  <1> QED
    BY <1>2, <1>7, <1>13, <1>14, OneMoves

\* Every node is freed (xlist_clean).
LEMMA CleanMoves ==
    ASSUME HeapInv, NEW h \in Handle, xlist_clean(h)
    PROVE  Moves({h}, {}) /\ head'[h] = NULL
  <1> DEFINE S == Range(chain[h])
             t == << >>
  <1>1. head[h] # NULL /\ S \subseteq alive /\ alive \subseteq Node
    BY HeldList DEF xlist_clean, HeapInv
  <1>2. /\ next' = [n \in Node |-> IF n \in S THEN NULL ELSE next[n]]
        /\ prev' = [n \in Node |-> IF n \in S THEN NULL ELSE prev[n]]
        /\ data' = [n \in Node |-> IF n \in S THEN Blank ELSE data[n]]
        /\ alive' = alive \ S /\ loose' = loose /\ head' = [head EXCEPT ![h] = NULL]
        /\ chain' = [chain EXCEPT ![h] = t]
    BY DEF xlist_clean, FreedAll
  <1>3. t \in Seq(Node) /\ Range(t) = {} /\ t = << >>
    BY DEF Range
  <1> HIDE DEF S, t
  <1>4. /\ next \in Links /\ prev \in Links /\ data \in [Node -> Item]
        /\ head \in [Handle -> Node \cup {NULL}]
    BY DEF HeapInv
  <1>5. /\ next' \in Links /\ prev' \in Links /\ data' \in [Node -> Item]
        /\ head' \in [Handle -> Node \cup {NULL}] /\ head'[h] = NULL
        /\ \A g \in Handle \ {h} : head'[g] = head[g]
    BY <1>2, <1>4 DEF Links, Blank, Item
  <1>6. \A m \in Node : IF m \in S
                        THEN next'[m] = NULL /\ prev'[m] = NULL /\ data'[m] = Blank
                        ELSE next'[m] = next[m] /\ prev'[m] = prev[m] /\ data'[m] = data[m]
    BY <1>2
  <1>7. MovesOne(h, t, {})
    <2>1. Holds(t, head'[h], next', prev', data')
      BY <1>3, <1>5 DEF Holds
    <2>2. \A m \in Node \ alive' : next'[m] = NULL /\ prev'[m] = NULL /\ data'[m] = Blank
      BY <1>2, <1>6 DEF HeapInv, Blanks
    <2> QED
      BY <1>1, <1>2, <1>3, <1>5, <1>6, <2>1, <2>2 DEF MovesOne, S
  <1> QED
    BY <1>5, <1>7, OneMoves

\* Every node but the first is freed, and that one is the spare node
\* (xlist_reset).
LEMMA ResetMoves ==
    ASSUME HeapInv, NEW h \in Handle, xlist_reset(h)
    PROVE  Moves({h}, {}) /\ head'[h] # NULL /\ ItemsOf(h)' = << >>
  <1> DEFINE S == Range(chain[h])
             t == <<head[h]>>
  <1>1. head[h] # NULL /\ S \subseteq alive /\ alive \subseteq Node /\ head[h] \in S
        /\ head[h] \in Node
    BY HeldList DEF xlist_reset, HeapInv
  <1>2. /\ next' = [n \in Node |-> IF n \in S THEN NULL ELSE next[n]]
        /\ prev' = [n \in Node |-> IF n = head[h] THEN n
                                   ELSE IF n \in S THEN NULL ELSE prev[n]]
        /\ data' = [n \in Node |-> IF n \in S THEN Blank ELSE data[n]]
        /\ alive' = alive \ (S \ {head[h]}) /\ loose' = loose /\ head' = head
        /\ chain' = [chain EXCEPT ![h] = t]
    BY DEF xlist_reset
  <1>3. t \in Seq(Node) /\ Range(t) = {head[h]} /\ Len(t) = 1 /\ t[1] = head[h]
    BY <1>1 DEF Range
  <1> HIDE DEF S, t
  <1>4. /\ next \in Links /\ prev \in Links /\ data \in [Node -> Item]
        /\ head \in [Handle -> Node \cup {NULL}] /\ chain \in [Handle -> Seq(Node)]
    BY DEF HeapInv
  <1>5. next' \in Links /\ prev' \in Links /\ data' \in [Node -> Item]
    BY <1>2, <1>4 DEF Links, Blank, Item
  <1>6. \A m \in Node \ {head[h]} :
           IF m \in S THEN next'[m] = NULL /\ prev'[m] = NULL /\ data'[m] = Blank
           ELSE next'[m] = next[m] /\ prev'[m] = prev[m] /\ data'[m] = data[m]
    BY <1>2
  <1>7. next'[head[h]] = NULL /\ prev'[head[h]] = head[h] /\ data'[head[h]] = Blank
    BY <1>1, <1>2
  <1>8. MovesOne(h, t, {})
    <2>1. IsList(t, next', prev', data')
      BY <1>3, <1>7 DEF IsList
    <2>2. Holds(t, head'[h], next', prev', data')
      BY <1>2, <1>3, <2>1 DEF Holds
    <2>3. \A m \in Node \ alive' : next'[m] = NULL /\ prev'[m] = NULL /\ data'[m] = Blank
      BY <1>1, <1>2, <1>6 DEF HeapInv, Blanks
    <2> QED
      BY <1>1, <1>2, <1>3, <1>4, <1>5, <1>6, <2>2, <2>3 DEF MovesOne, S
  <1>9. ItemsOf(h)' = << >>
    <2>1. chain'[h] = t /\ head'[h] # NULL
      BY <1>1, <1>2, <1>4
    <2>2. ItemsOf(h)' = [k \in 1..Len(chain'[h]) - 1 |-> data'[chain'[h][k]]]
      BY <2>1 DEF ItemsOf
    <2>3. ItemsOf(h)' = [k \in 1..0 |-> data'[chain'[h][k]]]
      BY <1>3, <2>1, <2>2
    <2> QED
      BY <2>3
  <1> QED
    BY <1>1, <1>2, <1>8, <1>9, OneMoves

\* The k-th item gets another value (xlist_set).
SetStep(h, k, value) ==
    /\ data' = [data EXCEPT ![chain[h][k]].value = value]
    /\ UNCHANGED <<head, next, prev, alive, loose, chain>>
Changed(q, k, value) == [q EXCEPT ![k].value = value]

LEMMA SetMoves ==
    ASSUME HeapInv, NEW h \in Handle, head[h] # NULL, NEW k \in 1..Len(chain[h])-1,
           NEW value \in Ptr \cup Str, SetStep(h, k, value)
    PROVE  Moves({h}, {}) /\ ItemsOf(h)' = Changed(ItemsOf(h), k, value)
  <1> DEFINE s == chain[h]
  <1>1. /\ IsList(s, next, prev, data) /\ s \in Seq(Node) /\ Len(s) \in Nat \ {0}
        /\ s[1] = head[h] /\ Range(s) \subseteq alive /\ ItemsOf(h) = Items(s, data)
        /\ \A j \in 1..Len(s) : s[j] \in Node /\ s[j] \in Range(s)
    <2>1. \A j \in 1..Len(s) : s[j] \in Range(s)
      BY HeldList DEF Range
    <2> QED
      BY <2>1, HeldList
  <1>2. /\ next \in Links /\ prev \in Links /\ data \in [Node -> Item] /\ alive \subseteq Node
        /\ head \in [Handle -> Node \cup {NULL}] /\ chain \in [Handle -> Seq(Node)]
    BY DEF HeapInv
  <1>3. data' = [data EXCEPT ![s[k]] = [data[s[k]] EXCEPT !.value = value]]
    BY DEF SetStep
  <1>4. head' = head /\ next' = next /\ prev' = prev /\ alive' = alive /\ loose' = loose
        /\ chain' = chain
    BY DEF SetStep
  <1> HIDE DEF s
  <1>5. k \in 1..Len(s)-1 /\ k \in 1..Len(s) /\ Len(s) \in 1..Len(s) /\ k # Len(s)
    <2>1. k \in 1..Len(s)-1
      BY DEF s
    <2> QED
      BY <1>1, <2>1
  <1>6. \A i, j \in 1..Len(s) : s[i] = s[j] => i = j
    BY <1>1 DEF IsList
  <1>7. s[k] \in Node /\ s[k] \in Range(s) /\ s[k] # s[Len(s)] /\ s[Len(s)] \in Node
    BY <1>1, <1>5, <1>6
  <1>8. data' \in [Node -> Item]
    <2>1. [data[s[k]] EXCEPT !.value = value] \in Item
      <3>1. \A i \in Item : [i EXCEPT !.value = value] \in Item
        <4>1. \A i \in Item : [i EXCEPT !.value = value]
                                 = [key |-> i.key, type |-> i.type, value |-> value]
          BY DEF Item
        <4> QED
          BY <4>1 DEF Item
      <3> QED
        BY <1>2, <1>7, <3>1
    <2> QED
      BY <1>2, <1>3, <2>1
  <1>9. \A m \in Node \ {s[k]} : data'[m] = data[m]
    BY <1>2, <1>3
  <1>10. IsList(s, next', prev', data')
    BY <1>1, <1>4, <1>7, <1>9 DEF IsList
  <1>11. MovesOne(h, s, {})
    <2>1. chain' = [chain EXCEPT ![h] = s]
      BY <1>2, <1>4 DEF s
    <2>2. Holds(s, head'[h], next', prev', data')
      BY <1>1, <1>4, <1>10 DEF Holds
    <2>3. \A m \in alive \ Range(s) : m \in Node \ {s[k]}
      BY <1>2, <1>7
    <2>4. \A m \in Node \ alive' : next'[m] = NULL /\ prev'[m] = NULL /\ data'[m] = Blank
      BY <1>1, <1>4, <1>7, <1>9 DEF HeapInv, Blanks
    <2> QED
      <3>1. alive' = (alive \ Range(s)) \cup Range(s) \cup {} /\ loose' = loose \cup {}
        BY <1>1, <1>4
      <3>2. \A m \in alive \ Range(s) :
               next'[m] = next[m] /\ prev'[m] = prev[m] /\ data'[m] = data[m]
        BY <1>4, <1>9, <2>3
      <3>3. /\ head' \in [Handle -> Node \cup {NULL}] /\ next' \in Links /\ prev' \in Links
            /\ \A g \in Handle \ {h} : head'[g] = head[g]
        BY <1>2, <1>4
      <3> QED
        BY <1>1, <1>8, <2>1, <2>2, <2>4, <3>1, <3>2, <3>3 DEF MovesOne, s
  <1>12. ItemsOf(h)' = [ItemsOf(h) EXCEPT ![k].value = value]
    <2>1. ItemsOf(h)' = Items(s, data')
      BY <1>4 DEF ItemsOf, Items, s
    <2>2. Items(s, data') = [j \in 1..Len(s)-1 |-> data'[s[j]]]
      BY DEF Items
    <2>3. ASSUME NEW j \in 1..Len(s)-1
          PROVE  data'[s[j]] = IF j = k THEN [data[s[k]] EXCEPT !.value = value] ELSE data[s[j]]
      <3>1. j \in 1..Len(s) /\ s[j] \in Node
        BY <1>1
      <3>2. CASE j = k
        BY <1>2, <1>3, <1>7, <3>2
      <3>3. CASE j # k
        <4>1. s[j] # s[k]
          BY <1>5, <1>6, <3>1, <3>3
        <4> QED
          BY <1>9, <3>1, <3>3, <4>1
      <3> QED
        BY <3>2, <3>3
    <2>4. Items(s, data) = [j \in 1..Len(s)-1 |-> data[s[j]]]
      BY DEF Items
    <2>5. [Items(s, data) EXCEPT ![k].value = value]
             = [j \in 1..Len(s)-1 |-> IF j = k THEN [data[s[k]] EXCEPT !.value = value]
                                      ELSE data[s[j]]]
      BY <1>5, <2>4
    <2> QED
      <3>1. Items(s, data') = [Items(s, data) EXCEPT ![k].value = value]
        BY <2>2, <2>3, <2>5
      <3> QED
        BY <1>1, <2>1, <3>1
  <1> QED
    BY <1>11, <1>12, OneMoves DEF Changed

\* A node that was taken out is freed (xlist_clean).
LEMMA FreeKeepsHeap ==
    ASSUME HeapInv, NEW n \in Node, clean_taken(n)
    PROVE  /\ HeapInv'
           /\ \A h \in Handle : head'[h] = head[h] /\ ItemsOf(h)' = ItemsOf(h)
           /\ \A m \in loose' : data'[m] = data[m]
  <1>1. /\ head' = head /\ next' = next /\ prev' = prev /\ chain' = chain
        /\ loose' = loose \ {n} /\ alive' = alive \ {n} /\ data' = [data EXCEPT ![n] = Blank]
        /\ n \in loose
    BY DEF clean_taken, Freed
  <1>2. /\ next \in Links /\ prev \in Links /\ data \in [Node -> Item] /\ alive \subseteq Node
        /\ head \in [Handle -> Node \cup {NULL}] /\ chain \in [Handle -> Seq(Node)]
        /\ loose \subseteq Node
    BY DEF HeapInv
  <1>3. \A m \in Node : data'[m] = IF m = n THEN Blank ELSE data[m]
    BY <1>1, <1>2
  <1>4. data' \in [Node -> Item]
    BY <1>1, <1>2 DEF Blank, Item
  <1>5. ASSUME NEW h \in Handle
        PROVE  /\ Holds(chain'[h], head'[h], next', prev', data')
               /\ ItemsOf(h)' = ItemsOf(h)
    <2>1. Holds(chain[h], head[h], next, prev, data)
      BY DEF HeapInv
    <2>2. CASE head[h] = NULL
      BY <1>1, <2>1, <2>2 DEF Holds, ItemsOf
    <2>3. CASE head[h] # NULL
      <3> DEFINE s == chain[h]
      <3>1. IsList(s, next, prev, data) /\ s[1] = head[h] /\ s \in Seq(Node)
        BY <1>2, <2>1, <2>3 DEF Holds
      <3>2. \A k \in 1..Len(s) : s[k] \in Node /\ s[k] # n
        <4>1. \A k \in 1..Len(s) : s[k] \in Range(s)
          BY <3>1 DEF Range
        <4>2. Range(s) \cap loose = {}
          BY DEF HeapInv
        <4> QED
          BY <1>1, <3>1, <4>1, <4>2
      <3> HIDE DEF s
      <3>3. \A k \in 1..Len(s) : /\ next'[s[k]] = next[s[k]] /\ prev'[s[k]] = prev[s[k]]
                                 /\ data'[s[k]] = data[s[k]]
        BY <1>1, <1>3, <3>2
      <3>4. IsList(s, next', prev', data') /\ Items(s, data') = Items(s, data)
        BY <3>1, <3>3, ListFrame
      <3>5. ItemsOf(h)' = Items(s, data') /\ ItemsOf(h) = Items(s, data)
        BY <1>1, <2>3 DEF ItemsOf, Items, s
      <3> QED
        BY <1>1, <2>3, <3>1, <3>4, <3>5 DEF Holds, s
    <2> QED
      BY <2>2, <2>3
  <1>6. NodesOwned'
    <2>1. \A h \in Handle : n \notin Range(chain[h])
      BY <1>1 DEF HeapInv
    <2> QED
      BY <1>1, <2>1 DEF HeapInv, NodesOwned
  <1>7. Blanks'
    BY <1>1, <1>2, <1>3 DEF HeapInv, Blanks
  <1>8. HeapInv'
    BY <1>1, <1>2, <1>4, <1>5, <1>6, <1>7 DEF HeapInv
  <1> QED
    BY <1>1, <1>2, <1>3, <1>5, <1>8

-----------------------------------------------------------------------------
(* Which step of a list a call is.                                         *)

LEMMA AppendIsInsert ==
    ASSUME NEW S, NEW s \in Seq(S), NEW x \in S
    PROVE  Append(s, x) = InsertAt(s, Len(s) + 1, x)
  <1> DEFINE k == Len(s) + 1
             t == InsertAt(s, k, x)
  <1>1. k \in 1..Len(s)+1 /\ Len(s) \in Nat /\ s \in Seq(S) /\ x \in S
    OBVIOUS
  <1>2. /\ t \in Seq(S) /\ Len(t) = Len(s) + 1
        /\ \A j \in 1..Len(s)+1 : t[j] = IF j < k THEN s[j] ELSE IF j = k THEN x ELSE s[j-1]
    <2> HIDE DEF k
    <2> QED
      BY <1>1, InsertAtFacts
  <1>3. /\ Append(s, x) \in Seq(S) /\ Len(Append(s, x)) = Len(s) + 1
        /\ \A j \in 1..Len(s) : Append(s, x)[j] = s[j]
        /\ Append(s, x)[k] = x
    BY AppendProperties
  <1> DEFINE a == Append(s, x)
  <1> HIDE DEF a
  <1> HIDE DEF t
  <1> HIDE DEF k
  <1>4. \A j \in 1..Len(s)+1 : a[j] = t[j]
    BY <1>1, <1>2, <1>3 DEF a, k
  <1>5. a \in Seq(S) /\ t \in Seq(S) /\ Len(a) = Len(t)
    BY <1>2, <1>3 DEF a
  <1>6. a = t
    BY <1>2, <1>4, <1>5, SeqEqual
  <1> QED
    BY <1>6 DEF a, t, k

\* xlist_insert, and xlist_push into a list that has items.
LEMMA LinkedPuts ==
    ASSUME HeapInv, NEW h \in Handle, head[h] # NULL, NEW k \in 1..Len(chain[h]),
           NEW n \in Node, NEW item \in Item, Linked(h, chain[h][k], k, n, item)
    PROVE  /\ PutStep(h, k, n, item)
           /\ data' = [data EXCEPT ![chain[h][k]] = item, ![n] = data[chain[h][k]]]
  <1>1. chain[h][1] = head[h]
    BY HeldList
  <1>2. /\ next' = [next EXCEPT ![n] = next[chain[h][k]], ![chain[h][k]] = n]
        /\ prev' = IF next[chain[h][k]] # NULL
                   THEN [prev EXCEPT ![next[chain[h][k]]] = n, ![n] = chain[h][k]]
                   ELSE [prev EXCEPT ![chain[h][1]] = n, ![n] = chain[h][k]]
        /\ data' = [data EXCEPT ![chain[h][k]] = item, ![n] = data[chain[h][k]]]
    BY <1>1 DEF Linked
  <1>3. alive' = alive \cup {n} /\ UNCHANGED <<head, loose>>
        /\ chain' = [chain EXCEPT ![h] = InsertAt(chain[h], k + 1, n)]
    BY DEF Linked
  <1> QED
    BY <1>2, <1>3 DEF PutStep, Spliced

\* xlist_cat, and xlist_push into a list that has none.
LEMMA CatPuts ==
    ASSUME HeapInv, NEW h \in Handle, NEW n \in Node, NEW item \in Item,
           xlist_cat(h, n, item)
    PROVE  /\ PutStep(h, Len(chain[h]), n, item)
           /\ LET x == chain[h][Len(chain[h])] IN
                 data' = [data EXCEPT ![x] = item, ![n] = data[x]]
  <1> DEFINE s == chain[h]
             N == Len(s)
             x == s[N]
  <1>1. head[h] # NULL /\ n \notin alive
    BY DEF xlist_cat
  <1>2. /\ IsList(s, next, prev, data) /\ s \in Seq(Node) /\ N \in Nat \ {0}
        /\ s[1] = head[h] /\ prev[head[h]] = x /\ Range(s) \subseteq alive
        /\ head[h] \in Range(s) /\ head[h] \in Node /\ x \in Node
    <2>1. N \in 1..N
      BY <1>1, HeldList
    <2> QED
      BY <1>1, <2>1, HeldList
  <1>3. next[x] = NULL /\ data[x] = Blank
    BY <1>2 DEF IsList
  <1>4. next[n] = NULL /\ data[n] = Blank
    BY <1>1 DEF HeapInv, Blanks
  <1>5. next \in Links /\ prev \in Links /\ data \in [Node -> Item]
    BY DEF HeapInv
  <1>6. x \in Range(s)
    <2>1. N \in 1..N
      BY <1>2
    <2> QED
      BY <1>2, <2>1 DEF Range
  <1>7. n # x /\ n # s[1]
    BY <1>1, <1>2, <1>6
  <1>8. /\ next' = [next EXCEPT ![x] = n]
        /\ prev' = [prev EXCEPT ![n] = x, ![s[1]] = n]
        /\ data' = [data EXCEPT ![x] = item]
    BY <1>2 DEF xlist_cat, CatPrev
  <1>9. chain' = [chain EXCEPT ![h] = InsertAt(chain[h], N + 1, n)]
    <2>1. Append(s, n) = InsertAt(s, N + 1, n)
      BY <1>2, AppendIsInsert
    <2>2. chain' = [chain EXCEPT ![h] = Append(s, n)]
      BY DEF xlist_cat
    <2> QED
      BY <2>1, <2>2
  <1>10. alive' = alive \cup {n} /\ UNCHANGED <<head, loose>>
    BY DEF xlist_cat
  <1> HIDE DEF s, N, x
  <1>11. next' = [next EXCEPT ![n] = next[x], ![x] = n]
    BY <1>2, <1>3, <1>4, <1>5, <1>7, <1>8 DEF Links
  <1>12. prev' = [prev EXCEPT ![s[1]] = n, ![n] = x]
    BY <1>2, <1>5, <1>7, <1>8 DEF Links
  <1>13. data' = [data EXCEPT ![x] = item, ![n] = data[x]]
    BY <1>2, <1>3, <1>4, <1>5, <1>7, <1>8
  <1>14. Spliced(s, N, n, item, next, prev, data, next', prev', data')
    BY <1>3, <1>11, <1>12, <1>13 DEF Spliced, x
  <1> QED
    BY <1>9, <1>10, <1>13, <1>14 DEF PutStep, s, N, x

\* All that take an item out.
LEMMA BrokenBreaks ==
    ASSUME HeapInv, NEW h \in Handle, head[h] # NULL, NEW k \in 1..Len(chain[h])-1,
           NEW left \in Item, Broken(h, chain[h][k], k, left)
    PROVE  /\ BreakStep(h, k, left) /\ next[chain[h][k]] = chain[h][k+1]
           /\ data' = [data EXCEPT ![chain[h][k]] = data[chain[h][k+1]],
                                   ![chain[h][k+1]] = left]
           /\ chain[h][k] \in Node /\ chain[h][k+1] \in Node /\ chain[h][k] # chain[h][k+1]
  <1> DEFINE s == chain[h]
             N == Len(s)
             x == s[k]
             p == s[k+1]
  <1>1. /\ IsList(s, next, prev, data) /\ s \in Seq(Node) /\ N \in Nat \ {0}
        /\ s[1] = head[h] /\ \A j \in 1..N : s[j] \in Node
    BY HeldList
  <1>2. /\ next' = [next EXCEPT ![prev[next[x]]] = next[next[x]], ![next[x]] = NULL]
        /\ prev' = BreakPrev(h, x)
        /\ data' = [data EXCEPT ![x] = data[next[x]], ![next[x]] = left]
        /\ chain' = [chain EXCEPT ![h] = RemoveAt(s, k + 1)] /\ head' = head
    BY DEF Broken
  <1>3. next \in Links /\ prev \in Links
    BY DEF HeapInv
  <1> HIDE DEF s
  <1>4. /\ k \in 1..N-1 /\ k \in 1..N /\ k+1 \in 1..N /\ 1 \in 1..N /\ N \in 1..N /\ N > 1
    <2>1. k \in 1..N-1
      BY DEF s
    <2> QED
      BY <1>1, <2>1
  <1>5. \A i, j \in 1..N : s[i] = s[j] => i = j
    BY <1>1 DEF IsList
  <1>6. next[x] = p /\ prev[p] = x
    BY <1>1, <1>4 DEF IsList
  <1>7. prev[s[1]] = s[N] /\ next[s[N]] = NULL
    BY <1>1 DEF IsList
  <1>8. x \in Node /\ p \in Node /\ x # p /\ s[1] \in Node /\ p # s[1]
    <2>1. k # k+1 /\ k+1 # 1
      BY <1>4
    <2> QED
      BY <1>1, <1>4, <1>5, <2>1
  <1> HIDE DEF x, p
  <1>9. prev' = IF k + 1 < N THEN [prev EXCEPT ![s[k+2]] = x, ![p] = NULL]
                ELSE [prev EXCEPT ![s[1]] = x, ![p] = NULL]
    <2>1. CASE k + 1 < N
      <3>1. k+1 \in 1..N-1 /\ (k+1)+1 = k+2 /\ k+2 \in 1..N /\ k+2 # 1 /\ k+1 # N
        BY <1>4, <2>1
      <3>2. next[p] = s[k+2]
        <4>1. \A j \in 1..N-1 : next[s[j]] = s[j+1]
          BY <1>1 DEF IsList
        <4>2. next[s[k+1]] = s[(k+1)+1]
          BY <3>1, <4>1
        <4> QED
          BY <3>1, <4>2 DEF p
      <3>3. s[k+2] \in Node /\ s[k+2] # s[1] /\ s[N] # p
        BY <1>1, <1>4, <1>5, <3>1 DEF p
      <3> DEFINE unlinked == [prev EXCEPT ![s[k+2]] = x]
      <3>4. unlinked[s[1]] = s[N]
        BY <1>3, <1>7, <1>8, <3>3 DEF Links
      <3>5. s[k+2] # NULL
        BY <3>3
      <3>6. BreakPrev(h, x) = [unlinked EXCEPT ![p] = NULL]
        BY <1>1, <1>6, <3>2, <3>3, <3>4, <3>5 DEF BreakPrev
      <3> QED
        BY <1>2, <2>1, <3>6 DEF x
    <2>2. CASE k + 1 = N
      <3>1. next[p] = NULL /\ prev[s[1]] = p
        BY <1>7, <2>2 DEF p
      <3>2. BreakPrev(h, x) = [[prev EXCEPT ![s[1]] = x] EXCEPT ![p] = NULL]
        BY <1>1, <1>6, <3>1 DEF BreakPrev
      <3>3. ~(k + 1 < N)
        BY <1>4, <2>2
      <3> QED
        BY <1>2, <3>2, <3>3 DEF x
    <2>3. k + 1 < N \/ k + 1 = N
      BY <1>4
    <2> QED
      BY <2>1, <2>2, <2>3
  <1>10. /\ next' = [next EXCEPT ![x] = next[p], ![p] = NULL]
         /\ data' = [data EXCEPT ![x] = data[p], ![p] = left]
    BY <1>2, <1>6 DEF x
  <1>11. Unspliced(s, k, left, next, prev, data, next', prev', data')
    BY <1>9, <1>10 DEF Unspliced, x, p
  <1> QED
    BY <1>2, <1>6, <1>8, <1>10, <1>11 DEF BreakStep, s, x, p

-----------------------------------------------------------------------------
(* The strings.                                                            *)

\* StringsOwned, of the items of all nodes, allocated or not, and of a set of
\* strings that are the program's.
Owned(dt, m) ==
    /\ m \subseteq Str
    /\ \A n \in Node : StringOf(dt[n]) \cap m = {} /\ StringOf(dt[n]) \subseteq Str
    /\ \A a, b \in Node : a # b => StringOf(dt[a]) \cap StringOf(dt[b]) = {}
    /\ \A v \in Str \ m : \E n \in Node : v \in StringOf(dt[n])

LEMMA BlankHasNone == StringOf(Blank) = {}
  BY DEF StringOf, Blank

LEMMA OwnedIsStringsOwned ==
    ASSUME HeapInv, Owned(data, mine)
    PROVE  StringsOwned
  <1>1. \A n \in Node \ alive : StringOf(data[n]) = {}
    BY BlankHasNone DEF HeapInv, Blanks
  <1>2. \A v \in Str \ mine : \E n \in alive : v \in StringOf(data[n])
    BY <1>1 DEF Owned
  <1> QED
    BY <1>2 DEF StringsOwned, Owned

\* Two nodes exchange their items (xlist_break, xlist_combin).
LEMMA OwnedExchange ==
    ASSUME NEW dt \in [Node -> Item], NEW m, Owned(dt, m), NEW x \in Node, NEW y \in Node,
           x # y, NEW dt2, dt2 = [dt EXCEPT ![x] = dt[y], ![y] = dt[x]]
    PROVE  Owned(dt2, m)
  <1>1. /\ StringOf(dt2[x]) = StringOf(dt[y]) /\ StringOf(dt2[y]) = StringOf(dt[x])
        /\ \A n \in Node \ {x, y} : StringOf(dt2[n]) = StringOf(dt[n])
    OBVIOUS
  <1> QED
    BY <1>1 DEF Owned

\* One node takes over the other's item, whose own string is given back
\* (xlist_popv, xlist_delete, xlist_kill_remove).
LEMMA OwnedDropped ==
    ASSUME NEW dt \in [Node -> Item], NEW m, Owned(dt, m), NEW x \in Node, NEW y \in Node,
           x # y, NEW dt2, dt2 = [dt EXCEPT ![x] = dt[y], ![y] = Blank]
    PROVE  Owned(dt2, m \cup StringOf(dt[x]))
  <1>1. /\ StringOf(dt2[x]) = StringOf(dt[y]) /\ StringOf(dt2[y]) = {}
        /\ \A n \in Node \ {x, y} : StringOf(dt2[n]) = StringOf(dt[n])
    BY BlankHasNone
  <1> QED
    BY <1>1 DEF Owned

\* A set of nodes is blanked and their strings are given back (xlist_terminal,
\* xlist_clean, xlist_reset).
LEMMA OwnedFreed ==
    ASSUME NEW dt \in [Node -> Item], NEW m, Owned(dt, m), NEW S \in SUBSET Node, NEW dt2,
           dt2 = [n \in Node |-> IF n \in S THEN Blank ELSE dt[n]]
    PROVE  Owned(dt2, m \cup UNION {StringOf(dt[n]) : n \in S})
  <1> DEFINE G == UNION {StringOf(dt[n]) : n \in S}
  <1>1. \A n \in Node : StringOf(dt2[n]) = IF n \in S THEN {} ELSE StringOf(dt[n])
    BY BlankHasNone
  <1>2. /\ \A n \in S : StringOf(dt[n]) \subseteq G
        /\ \A v \in G : \E n \in S : v \in StringOf(dt[n])
    OBVIOUS
  <1> HIDE DEF G
  <1>3. m \cup G \subseteq Str
    BY <1>2 DEF Owned
  <1>4. ASSUME NEW n \in Node
        PROVE  StringOf(dt2[n]) \cap (m \cup G) = {} /\ StringOf(dt2[n]) \subseteq Str
    BY <1>1, <1>2 DEF Owned
  <1>5. \A a, b \in Node : a # b => StringOf(dt2[a]) \cap StringOf(dt2[b]) = {}
    BY <1>1 DEF Owned
  <1>6. ASSUME NEW v \in Str \ (m \cup G)
        PROVE  \E n \in Node : v \in StringOf(dt2[n])
    <2>1. PICK n \in Node : v \in StringOf(dt[n])
      BY DEF Owned
    <2>2. n \notin S
      BY <1>2, <2>1
    <2> QED
      BY <1>1, <2>1, <2>2
  <1>7. Owned(dt2, m \cup G)
    BY <1>3, <1>4, <1>5, <1>6 DEF Owned
  <1> QED
    BY <1>7 DEF G

\* An item that the program hands over, into a node whose own goes to a blank
\* one (xlist_cat, xlist_push, xlist_insert).
LEMMA OwnedPut ==
    ASSUME NEW dt \in [Node -> Item], NEW m, Owned(dt, m), NEW x \in Node, NEW n \in Node,
           x # n, dt[n] = Blank, NEW item \in Item,
           IF item.type = "PTR" THEN item.value \notin Str ELSE item.value \in m,
           NEW dt2, dt2 = [dt EXCEPT ![x] = item, ![n] = dt[x]]
    PROVE  Owned(dt2, m \ {item.value})
  <1>1. item.type \in {"PTR", "STRING"}
    BY DEF Item
  <1>2. CASE item.type = "PTR"
    <2>1. StringOf(item) = {} /\ m \ {item.value} = m
      BY <1>2 DEF StringOf, Owned
    <2>2. /\ StringOf(dt2[x]) = {} /\ StringOf(dt2[n]) = StringOf(dt[x])
          /\ StringOf(dt[n]) = {}
          /\ \A a \in Node \ {x, n} : StringOf(dt2[a]) = StringOf(dt[a])
      BY <2>1, BlankHasNone
    <2>3. Owned(dt2, m)
      BY <2>2 DEF Owned
    <2> QED
      BY <2>1, <2>3
  <1>3. CASE item.type = "STRING"
    <2> DEFINE v == item.value
    <2>1. v \in m /\ v # NULL /\ StringOf(item) = {v}
      BY <1>3 DEF StringOf, Owned
    <2>2. /\ StringOf(dt2[x]) = {v} /\ StringOf(dt2[n]) = StringOf(dt[x])
          /\ StringOf(dt[n]) = {}
          /\ \A a \in Node \ {x, n} : StringOf(dt2[a]) = StringOf(dt[a])
      BY <2>1, BlankHasNone
    <2> HIDE DEF v
    <2>3. \A a \in Node : v \notin StringOf(dt[a])
      BY <2>1 DEF Owned
    <2>4. ASSUME NEW a \in Node
          PROVE  StringOf(dt2[a]) \cap (m \ {v}) = {} /\ StringOf(dt2[a]) \subseteq Str
      BY <2>1, <2>2 DEF Owned
    <2>5. ASSUME NEW a \in Node, NEW b \in Node, a # b
          PROVE  StringOf(dt2[a]) \cap StringOf(dt2[b]) = {}
      BY <2>2, <2>3, <2>5 DEF Owned
    <2>6. ASSUME NEW w \in Str \ (m \ {v})
          PROVE  \E a \in Node : w \in StringOf(dt2[a])
      <3>1. CASE w = v
        BY <2>2, <3>1
      <3>2. CASE w # v
        <4>1. PICK a \in Node : w \in StringOf(dt[a])
          BY <3>2 DEF Owned
        <4> QED
          BY <2>2, <4>1
      <3> QED
        BY <3>1, <3>2
    <2>7. Owned(dt2, m \ {v})
      BY <2>4, <2>5, <2>6 DEF Owned
    <2> QED
      BY <2>7 DEF v
  <1> QED
    BY <1>1, <1>2, <1>3

\* A value for another of the same type, which is given back (xlist_set).
LEMMA OwnedSet ==
    ASSUME NEW dt \in [Node -> Item], NEW m, Owned(dt, m), NEW x \in Node,
           NEW value \in Ptr \cup Str,
           IF dt[x].type = "STRING" THEN value \in m ELSE value \in Ptr,
           NEW dt2, dt2 = [dt EXCEPT ![x].value = value]
    PROVE  Owned(dt2, (m \ {value}) \cup StringOf(dt[x]))
  <1> DEFINE T == StringOf(dt[x])
  <1>1. dt[x].type \in {"PTR", "STRING"} /\ dt[x] \in Item
    BY DEF Item
  <1>2. /\ dt2[x] = [dt[x] EXCEPT !.value = value]
        /\ \A a \in Node \ {x} : StringOf(dt2[a]) = StringOf(dt[a])
    OBVIOUS
  <1>3. dt2[x].type = dt[x].type /\ dt2[x].value = value
    BY <1>1, <1>2 DEF Item
  <1>4. CASE dt[x].type = "PTR"
    <2>1. T = {} /\ StringOf(dt2[x]) = {}
      BY <1>3, <1>4 DEF StringOf
    <2>2. m \ {value} = m
      BY <1>4 DEF Owned
    <2>3. Owned(dt2, m)
      BY <1>2, <2>1 DEF Owned
    <2> QED
      BY <2>1, <2>2, <2>3
  <1>5. CASE dt[x].type = "STRING"
    <2>1. value \in m /\ value # NULL
      BY <1>5 DEF Owned
    <2>2. StringOf(dt2[x]) = {value}
      BY <1>3, <1>5, <2>1 DEF StringOf
    <2>3. \A a \in Node : value \notin StringOf(dt[a])
      BY <2>1 DEF Owned
    <2> DEFINE M == (m \ {value}) \cup T
    <2>4. M \subseteq Str /\ value \notin M
      BY <2>1, <2>3 DEF Owned
    <2>5. T \cap m = {} /\ \A a \in Node \ {x} : StringOf(dt[a]) \cap T = {}
      BY DEF Owned
    <2>6. ASSUME NEW a \in Node
          PROVE  StringOf(dt2[a]) \cap M = {} /\ StringOf(dt2[a]) \subseteq Str
      <3>1. CASE a = x
        BY <2>1, <2>2, <2>4, <3>1 DEF Owned
      <3>2. CASE a # x
        BY <1>2, <2>5, <3>2 DEF Owned
      <3> QED
        BY <3>1, <3>2
    <2>7. ASSUME NEW a \in Node, NEW b \in Node, a # b
          PROVE  StringOf(dt2[a]) \cap StringOf(dt2[b]) = {}
      BY <1>2, <2>2, <2>3, <2>7 DEF Owned
    <2>8. ASSUME NEW w \in Str \ M
          PROVE  \E a \in Node : w \in StringOf(dt2[a])
      <3>1. CASE w = value
        BY <2>2, <3>1
      <3>2. CASE w # value
        <4>1. w \in Str \ m /\ w \notin T
          BY <3>2
        <4>2. PICK a \in Node : w \in StringOf(dt[a])
          BY <4>1 DEF Owned
        <4>3. a # x
          BY <4>1, <4>2
        <4> QED
          BY <1>2, <4>2, <4>3
      <3> QED
        BY <3>1, <3>2
    <2> QED
      BY <2>4, <2>6, <2>7, <2>8 DEF Owned
  <1> QED
    BY <1>1, <1>4, <1>5

-----------------------------------------------------------------------------
(* The calls: each keeps the invariant, and does to the items what it says. *)

\* The least element of a set of naturals: the least position with the key.
LEMMA LeastOfNaturals ==
    ASSUME NEW S \in SUBSET Nat, S # {}
    PROVE  FirstOf(S) \in S /\ \A l \in S : FirstOf(S) <= l
  <1> DEFINE lt == {ss \in Nat \X Nat : ss[1] < ss[2]}
  <1>1. \A x, y \in Nat : <<x, y>> \in lt <=> x < y
    OBVIOUS
  <1>2. IsWellFoundedOn(lt, Nat)
    BY NatLessThanWellFounded DEF OpToRel
  <1> HIDE DEF lt
  <1>3. PICK k \in S : \A j \in S : ~(<<j, k>> \in lt)
    BY <1>2, WFMin
  <1>4. \A j \in S : k <= j
    <2> TAKE j \in S
    <2>1. j \in Nat /\ k \in Nat /\ ~(j < k)
      BY <1>1, <1>3
    <2> QED
      BY <2>1
  <1> QED
    BY <1>4 DEF FirstOf

\* A handle that has the key has a list, and the first position with the key is
\* an item's (xlist_get).
LEMMA HitIsItem ==
    ASSUME HeapInv, NEW h \in Handle, NEW key, Hits(h, key) # {}
    PROVE  head[h] # NULL /\ FirstOf(Hits(h, key)) \in 1..Len(chain[h])-1
  <1>1. Hits(h, key) \subseteq 1..Len(chain[h])-1
    BY DEF Hits
  <1>2. chain[h] \in Seq(Node) /\ Len(chain[h]) \in Nat
    BY DEF HeapInv
  <1>3. Hits(h, key) \in SUBSET Nat
    BY <1>1, <1>2
  <1>4. FirstOf(Hits(h, key)) \in Hits(h, key)
    BY <1>3, LeastOfNaturals
  <1>5. head[h] # NULL
    <2>1. CASE head[h] = NULL
      <3>1. Len(chain[h]) = 0
        BY <2>1 DEF HeapInv, Holds
      <3>2. 1..Len(chain[h])-1 = {}
        BY <3>1
      <3> QED
        BY <1>1, <3>2
    <2> QED
      BY <2>1
  <1> QED
    BY <1>1, <1>4, <1>5

\* A list that is not empty has an item.
LEMMA NotEmpty ==
    ASSUME HeapInv, NEW h \in Handle, ~xlist_isempty(h)
    PROVE  /\ head[h] # NULL /\ Len(chain[h]) > 1
           /\ 1 \in 1..Len(chain[h])-1 /\ Len(chain[h])-1 \in 1..Len(chain[h])-1
           /\ prev[prev[head[h]]] = chain[h][Len(chain[h])-1]
  <1> DEFINE s == chain[h]
             N == Len(s)
  <1>1. head[h] # NULL /\ prev[head[h]] # head[h]
    BY DEF xlist_isempty
  <1>2. /\ IsList(s, next, prev, data) /\ N \in Nat \ {0}
        /\ s[1] = head[h] /\ prev[head[h]] = s[N]
    BY <1>1, HeldList
  <1> HIDE DEF s
  <1>3. N # 1
    BY <1>1, <1>2
  <1>4. N > 1 /\ 1 \in 1..N-1 /\ N-1 \in 1..N-1 /\ (N-1)+1 = N
    <2>0. N \in Nat /\ N # 0
      BY <1>2
    <2> QED
      BY <1>3, <2>0, MoreThanOne
  <1>5. prev[s[N]] = s[N-1]
    <2>1. \A k \in 1..N-1 : prev[s[k+1]] = s[k]
      BY <1>2 DEF IsList
    <2>2. prev[s[(N-1)+1]] = s[N-1]
      BY <1>4, <2>1
    <2> QED
      BY <1>4, <2>2
  <1> QED
    BY <1>1, <1>2, <1>4, <1>5 DEF s

\* The position at which a call puts the item.
PutAt(h, k, n, item) ==
    \/ k = Len(chain[h]) /\ xlist_cat(h, n, item)
    \/ k = 1 /\ xlist_push(h, n, item)
    \/ xlist_insert(h, k, n, item)

LEMMA PutCall ==
    ASSUME HeapInv, Owned(data, mine), NEW h \in Handle, NEW n \in Node, NEW item \in Given,
           NEW k, PutAt(h, k, n, item)
    PROVE  /\ head[h] # NULL /\ k \in 1..Len(chain[h]) /\ Moves({h}, {})
           /\ ItemsOf(h)' = InsertAt(ItemsOf(h), k, item)
           /\ Owned(data', mine')
  <1> DEFINE s == chain[h]
             x == s[k]
  <1>1. item \in Item /\ IF item.type = "PTR" THEN item.value \notin Str ELSE item.value \in mine
    BY DEF Given
  <1>2. head[h] # NULL /\ n \notin alive
    BY DEF PutAt, xlist_cat, xlist_push, xlist_insert
  <1>3. /\ IsList(s, next, prev, data) /\ Len(s) \in Nat \ {0} /\ Range(s) \subseteq alive
        /\ s[1] = head[h] /\ \A j \in 1..Len(s) : s[j] \in Node /\ s[j] \in Range(s)
    <2>1. \A j \in 1..Len(s) : s[j] \in Range(s)
      BY <1>2, HeldList DEF Range
    <2> QED
      BY <1>2, <2>1, HeldList
  <1>4. next[head[h]] = NULL => Len(s) = 1
    <2>1. ASSUME Len(s) # 1 PROVE next[head[h]] # NULL
      <3>0. Len(s) \in Nat /\ Len(s) # 0
        BY <1>3
      <3>2. 1 \in 1..Len(s)-1 /\ 1+1 \in 1..Len(s)
        BY <2>1, <3>0, MoreThanOne
      <3>3. \A j \in 1..Len(s)-1 : next[s[j]] = s[j+1]
        BY <1>3 DEF IsList
      <3>4. next[s[1]] = s[1+1]
        BY <3>2, <3>3
      <3> QED
        BY <1>3, <3>2, <3>4
    <2> QED
      BY <2>1
  <1>5. \/ k = Len(s) /\ xlist_cat(h, n, item)
        \/ k \in 1..Len(s) /\ Linked(h, x, k, n, item)
    <2>1. CASE k = Len(chain[h]) /\ xlist_cat(h, n, item)
      BY <2>1
    <2>2. CASE k = 1 /\ xlist_push(h, n, item)
      <3>1. CASE next[head[h]] = NULL
        BY <1>4, <2>2, <3>1 DEF xlist_push
      <3>2. CASE next[head[h]] # NULL
        BY <1>3, <2>2, <3>2 DEF xlist_push
      <3> QED
        BY <3>1, <3>2
    <2>3. CASE xlist_insert(h, k, n, item)
      BY <2>3 DEF xlist_insert
    <2> QED
      BY <2>1, <2>2, <2>3 DEF PutAt
  <1>6. k \in 1..Len(s)
    BY <1>3, <1>5
  <1>7. mine' = mine \ {item.value}
    BY <1>5 DEF xlist_cat, Linked, HandedOver
  <1>8. PutStep(h, k, n, item) /\ data' = [data EXCEPT ![x] = item, ![n] = data[x]]
    <2>1. CASE k = Len(s) /\ xlist_cat(h, n, item)
      BY <1>1, <2>1, CatPuts
    <2>2. CASE k \in 1..Len(s) /\ Linked(h, x, k, n, item)
      BY <1>1, <1>2, <2>2, LinkedPuts
    <2> QED
      BY <1>5, <2>1, <2>2
  <1>9. Moves({h}, {}) /\ ItemsOf(h)' = InsertAt(ItemsOf(h), k, item)
    <2>1. k \in 1..Len(chain[h])
      BY <1>6
    <2> QED
      BY <1>1, <1>2, <1>8, <2>1, PutMoves
  <1>10. x \in Node /\ x # n /\ data[n] = Blank /\ data \in [Node -> Item]
    BY <1>2, <1>3, <1>6 DEF HeapInv, Blanks
  <1> HIDE DEF x
  <1>11. Owned(data', mine \ {item.value})
    BY <1>1, <1>8, <1>10, OwnedPut
  <1> QED
    BY <1>2, <1>6, <1>7, <1>9, <1>11

\* The k-th item, taken out by its index, as the first or last one, or by its
\* key.
TakeAt(h, k) ==
    \/ xlist_break(h, k)
    \/ k = 1 /\ xlist_pop(h)
    \/ k = Len(chain[h]) - 1 /\ xlist_cut(h)
    \/ \E key \in Key : k = FirstOf(Hits(h, key)) /\ xlist_remove(h, key)

LEMMA TakeCall ==
    ASSUME HeapInv, Owned(data, mine), NEW h \in Handle, NEW k, TakeAt(h, k)
    PROVE  /\ head[h] # NULL /\ k \in 1..Len(chain[h])-1 /\ Moves({h}, {chain[h][k+1]})
           /\ ItemsOf(h)' = RemoveAt(ItemsOf(h), k)
           /\ chain[h][k+1] \in Node \ loose /\ data'[chain[h][k+1]] = data[chain[h][k]]
           /\ Owned(data', mine')
  <1> DEFINE x == chain[h][k]
             p == chain[h][k+1]
  <1>1. head[h] # NULL /\ k \in 1..Len(chain[h])-1 /\ Taken(h, x, k)
    <2>1. CASE xlist_break(h, k)
      BY <2>1 DEF xlist_break
    <2>2. CASE k = 1 /\ xlist_pop(h)
      <3>1. ~xlist_isempty(h) /\ Taken(h, head[h], 1)
        BY <2>2 DEF xlist_pop
      <3>2. head[h] # NULL /\ 1 \in 1..Len(chain[h])-1
        BY <3>1, NotEmpty
      <3>3. chain[h][1] = head[h]
        BY <3>2, HeldList
      <3> QED
        BY <2>2, <3>1, <3>2, <3>3
    <2>3. CASE k = Len(chain[h]) - 1 /\ xlist_cut(h)
      <3>1. ~xlist_isempty(h) /\ Taken(h, prev[prev[head[h]]], Len(chain[h]) - 1)
        BY <2>3 DEF xlist_cut
      <3>2. /\ head[h] # NULL /\ Len(chain[h])-1 \in 1..Len(chain[h])-1
            /\ prev[prev[head[h]]] = chain[h][Len(chain[h])-1]
        BY <3>1, NotEmpty
      <3> QED
        BY <2>3, <3>1, <3>2
    <2>4. ASSUME NEW key \in Key, k = FirstOf(Hits(h, key)), xlist_remove(h, key)
          PROVE  head[h] # NULL /\ k \in 1..Len(chain[h])-1 /\ Taken(h, x, k)
      <3>1. Hits(h, key) # {} /\ Taken(h, chain[h][FirstOf(Hits(h, key))], FirstOf(Hits(h, key)))
        BY <2>4 DEF xlist_remove
      <3>2. head[h] # NULL /\ FirstOf(Hits(h, key)) \in 1..Len(chain[h])-1
        BY <3>1, HitIsItem
      <3> QED
        BY <2>4, <3>1, <3>2
    <2> QED
      BY <2>1, <2>2, <2>3, <2>4 DEF TakeAt
  <1>2. /\ Broken(h, x, k, data[x]) /\ loose' = loose \cup {next[x]}
        /\ alive' = alive /\ mine' = mine
    BY <1>1 DEF Taken
  <1>3. data \in [Node -> Item] /\ x \in Node /\ data[x] \in Item
    <2>1. k \in 1..Len(chain[h])
      BY <1>1, HeldList
    <2>2. x \in Node
      BY <1>1, <2>1, HeldList
    <2> QED
      BY <2>2 DEF HeapInv
  <1>4. /\ BreakStep(h, k, data[x]) /\ next[x] = p
        /\ data' = [data EXCEPT ![x] = data[p], ![p] = data[x]]
        /\ p \in Node /\ x # p
    BY <1>1, <1>2, <1>3, BrokenBreaks
  <1>5. /\ Moves({h}, {p}) /\ ItemsOf(h)' = RemoveAt(ItemsOf(h), k)
        /\ p \notin loose /\ data'[p] = data[x]
    <2>1. loose' = loose \cup {p} /\ alive' = alive
      BY <1>2, <1>4
    <2> QED
      BY <1>1, <1>3, <1>4, <2>1, BreakMoves
  <1> HIDE DEF x, p
  <1>6. Owned(data', mine)
    BY <1>3, <1>4, OwnedExchange
  <1> QED
    BY <1>1, <1>2, <1>4, <1>5, <1>6 DEF x, p

\* The same, and the item is the caller's only string, or nobody's.
DropAt(h, k) ==
    \/ k = 1 /\ xlist_popv(h)
    \/ \E key \in Key :
          k = FirstOf(Hits(h, key)) /\ (xlist_delete(h, key) \/ xlist_kill_remove(h, key))

LEMMA DropCall ==
    ASSUME HeapInv, Owned(data, mine), NEW h \in Handle, NEW k, DropAt(h, k)
    PROVE  /\ head[h] # NULL /\ k \in 1..Len(chain[h])-1 /\ Moves({h}, {})
           /\ ItemsOf(h)' = RemoveAt(ItemsOf(h), k)
           /\ Owned(data', mine')
  <1> DEFINE x == chain[h][k]
             p == chain[h][k+1]
  <1>1. head[h] # NULL /\ k \in 1..Len(chain[h])-1 /\ Dropped(h, x, k)
    <2>1. CASE k = 1 /\ xlist_popv(h)
      <3>1. ~xlist_isempty(h) /\ Dropped(h, head[h], 1)
        BY <2>1 DEF xlist_popv
      <3>2. head[h] # NULL /\ 1 \in 1..Len(chain[h])-1
        BY <3>1, NotEmpty
      <3>3. chain[h][1] = head[h]
        BY <3>2, HeldList
      <3> QED
        BY <2>1, <3>1, <3>2, <3>3
    <2>2. ASSUME NEW key \in Key, k = FirstOf(Hits(h, key)),
                 xlist_delete(h, key) \/ xlist_kill_remove(h, key)
          PROVE  head[h] # NULL /\ k \in 1..Len(chain[h])-1 /\ Dropped(h, x, k)
      <3>1. Hits(h, key) # {} /\ Dropped(h, chain[h][FirstOf(Hits(h, key))], FirstOf(Hits(h, key)))
        BY <2>2 DEF xlist_delete, xlist_kill_remove
      <3>2. head[h] # NULL /\ FirstOf(Hits(h, key)) \in 1..Len(chain[h])-1
        BY <3>1, HitIsItem
      <3> QED
        BY <2>2, <3>1, <3>2
    <2> QED
      BY <2>1, <2>2 DEF DropAt
  <1>2. /\ Broken(h, x, k, Blank) /\ loose' = loose /\ alive' = alive \ {next[x]}
        /\ mine' = mine \cup UNION {StringOf(data[n]) : n \in {x}}
    BY <1>1 DEF Dropped, Freed, GivenBack
  <1>3. data \in [Node -> Item] /\ Blank \in Item
    BY DEF HeapInv, Blank, Item
  <1>4. /\ BreakStep(h, k, Blank) /\ next[x] = p
        /\ data' = [data EXCEPT ![x] = data[p], ![p] = Blank]
        /\ x \in Node /\ p \in Node /\ x # p
    BY <1>1, <1>2, <1>3, BrokenBreaks
  <1>5. Moves({h}, {}) /\ ItemsOf(h)' = RemoveAt(ItemsOf(h), k)
    <2>1. loose' = loose /\ alive' = alive \ {p} /\ Blank = Blank
      BY <1>2, <1>4
    <2> QED
      BY <1>1, <1>3, <1>4, <2>1, BreakMoves
  <1> HIDE DEF x, p
  <1>6. Owned(data', mine \cup StringOf(data[x]))
    BY <1>3, <1>4, OwnedDropped
  <1>7. mine' = mine \cup StringOf(data[x])
    BY <1>2
  <1> QED
    BY <1>1, <1>5, <1>6, <1>7

LEMMA SetCall ==
    ASSUME HeapInv, Owned(data, mine), NEW h \in Handle, NEW key \in Key,
           NEW value \in Ptr \cup Str, xlist_set(h, key, value)
    PROVE  LET k == FirstOf(Hits(h, key)) IN
              /\ head[h] # NULL /\ k \in 1..Len(chain[h])-1 /\ Moves({h}, {})
              /\ ItemsOf(h)' = Changed(ItemsOf(h), k, value)
              /\ Owned(data', mine')
  <1> DEFINE k == FirstOf(Hits(h, key))
             x == chain[h][k]
  <1>1. /\ Hits(h, key) # {}
        /\ IF data[x].type = "STRING" THEN value \in mine ELSE value \in Ptr
        /\ data' = [data EXCEPT ![x].value = value]
        /\ mine' = (mine \ {value}) \cup StringOf(data[x])
        /\ UNCHANGED <<head, next, prev, alive, loose, chain>>
    BY DEF xlist_set
  <1>2. head[h] # NULL /\ k \in 1..Len(chain[h])-1
    BY <1>1, HitIsItem
  <1> HIDE DEF k
  <1>3. x \in Node
    <2>1. k \in 1..Len(chain[h])
      BY <1>2, HeldList
    <2> QED
      BY <1>2, <2>1, HeldList
  <1>4. Moves({h}, {}) /\ ItemsOf(h)' = Changed(ItemsOf(h), k, value)
    <2>1. SetStep(h, k, value)
      BY <1>1 DEF SetStep
    <2> QED
      BY <1>2, <2>1, SetMoves
  <1> HIDE DEF x
  <1>5. Owned(data', mine')
    <2>1. data \in [Node -> Item]
      BY DEF HeapInv
    <2> QED
      BY <1>1, <1>3, <2>1, OwnedSet
  <1> QED
    BY <1>2, <1>4, <1>5 DEF k

LEMMA JoinCall ==
    ASSUME HeapInv, Owned(data, mine), NEW h \in Handle, NEW g \in Handle, xlist_combin(h, g)
    PROVE  Moves({h, g}, {}) /\ Owned(data', mine')
  <1> DEFINE x == chain[h][Len(chain[h])]
             y == head[g]
  <1>1. /\ Moves({h, g}, {}) /\ y \in alive /\ data[x] = Blank /\ x \in Node /\ x # y
        /\ data' = [data EXCEPT ![x] = data[y], ![y] = Blank]
    BY JoinMoves
  <1>2. mine' = mine
    BY DEF xlist_combin
  <1> HIDE DEF x, y
  <1>3. data' = [data EXCEPT ![x] = data[y], ![y] = data[x]]
    BY <1>1
  <1>4. data \in [Node -> Item] /\ y \in Node
    BY <1>1 DEF HeapInv
  <1>5. Owned(data', mine)
    BY <1>1, <1>3, <1>4, OwnedExchange
  <1> QED
    BY <1>1, <1>2, <1>5

\* What frees the nodes of S gives their strings back.
LEMMA FreedCall ==
    ASSUME HeapInv, Owned(data, mine), NEW S \in SUBSET Node, GivenBack(S),
           data' = [n \in Node |-> IF n \in S THEN Blank ELSE data[n]]
    PROVE  Owned(data', mine')
  <1>1. data \in [Node -> Item]
    BY DEF HeapInv
  <1>2. Owned(data', mine \cup UNION {StringOf(data[n]) : n \in S})
    BY <1>1, OwnedFreed
  <1> QED
    BY <1>2 DEF GivenBack

-----------------------------------------------------------------------------
(* The invariants.                                                         *)

\* Inductive: the lists are sound and the strings have one owner each.  The one
\* needs the other: a list that loses a node loses its string, and a string is
\* given back only to whom it was taken from.
ListInv == HeapInv /\ Owned(data, mine)

LEMMA InitListInv == Init => ListInv
  <1> SUFFICES ASSUME Init PROVE ListInv
    OBVIOUS
  <1>1. << >> \in Seq(Node) /\ Range(<< >>) = {}
    BY DEF Range
  <1>2. Blank \in Item
    BY DEF Blank, Item
  <1>3. \A h \in Handle : chain[h] = << >> /\ head[h] = NULL
    BY DEF Init
  <1>4. \A h \in Handle : Holds(chain[h], head[h], next, prev, data)
    BY <1>3 DEF Holds
  <1>5. NodesOwned
    BY <1>1, <1>3 DEF Init, NodesOwned
  <1>6. Blanks
    BY DEF Init, Blanks
  <1>7. HeapInv
    BY <1>1, <1>2, <1>3, <1>4, <1>5, <1>6 DEF Init, HeapInv, Links
  <1>8. Owned(data, mine)
    BY BlankHasNone DEF Init, Owned
  <1> QED
    BY <1>7, <1>8 DEF ListInv

LEMMA StepListInv == ListInv /\ [Next]_vars => ListInv'
  <1> SUFFICES ASSUME HeapInv, Owned(data, mine), [Next]_vars PROVE HeapInv' /\ Owned(data', mine')
    BY DEF ListInv
  <1>1. ASSUME NEW h \in Handle, Adding(h)
        PROVE  HeapInv' /\ Owned(data', mine')
    <2>1. PICK n \in Node, item \in Given :
             \/ xlist_cat(h, n, item) \/ xlist_push(h, n, item)
             \/ \E k \in 1..Len(chain[h]) : xlist_insert(h, k, n, item)
      BY <1>1 DEF Adding
    <2>2. \E k : PutAt(h, k, n, item)
      BY <2>1 DEF PutAt
    <2>3. Moves({h}, {}) /\ Owned(data', mine')
      BY <2>2, PutCall
    <2> QED
      BY <2>3, MovesKeepsHeap
  <1>2. ASSUME NEW h \in Handle, Taking(h)
        PROVE  HeapInv' /\ Owned(data', mine')
    <2>1. (\E k : TakeAt(h, k)) \/ (\E k : DropAt(h, k))
      BY <1>2 DEF Taking, TakeAt, DropAt
    <2>2. CASE \E k : TakeAt(h, k)
      <3>1. (\E L : Moves({h}, L)) /\ Owned(data', mine')
        BY <2>2, TakeCall
      <3> QED
        BY <3>1, MovesKeepsHeap
    <2>3. CASE \E k : DropAt(h, k)
      <3>1. Moves({h}, {}) /\ Owned(data', mine')
        BY <2>3, DropCall
      <3> QED
        BY <3>1, MovesKeepsHeap
    <2> QED
      BY <2>1, <2>2, <2>3
  <1>3. ASSUME NEW h \in Handle, NEW n \in Node, xlist_init(h, n)
        PROVE  HeapInv' /\ Owned(data', mine')
    <2>1. Moves({h}, {})
      BY <1>3, InitMoves
    <2>2. data' = data /\ mine' = mine
      BY <1>3 DEF xlist_init
    <2> QED
      BY <2>1, <2>2, MovesKeepsHeap
  <1>4. ASSUME NEW h \in Handle, NEW g \in Handle, xlist_combin(h, g)
        PROVE  HeapInv' /\ Owned(data', mine')
    <2>1. Moves({h, g}, {}) /\ Owned(data', mine') /\ {h, g} \in SUBSET Handle
      BY <1>4, JoinCall
    <2> QED
      BY <2>1, MovesKeepsHeap
  <1>5. ASSUME NEW h \in Handle, NEW k \in 1..Len(chain[h]), xlist_terminal(h, k)
        PROVE  HeapInv' /\ Owned(data', mine')
    <2>1. Moves({h}, {})
      BY <1>5, TruncateMoves
    <2> DEFINE S == {chain[h][j] : j \in k..Len(chain[h]) - 1}
    <2>2. FreedAll(S)
      BY <1>5 DEF xlist_terminal
    <2>3. S \in SUBSET Node
      <3>1. chain[h] \in Seq(Node) /\ Len(chain[h]) \in Nat
        BY DEF HeapInv
      <3>2. \A j \in k..Len(chain[h]) - 1 : j \in 1..Len(chain[h])
        BY <3>1
      <3> QED
        BY <3>1, <3>2
    <2> HIDE DEF S
    <2>4. GivenBack(S) /\ data' = [n \in Node |-> IF n \in S THEN Blank ELSE data[n]]
      BY <2>2 DEF FreedAll
    <2>5. Owned(data', mine')
      BY <2>3, <2>4, FreedCall
    <2> QED
      BY <2>1, <2>5, MovesKeepsHeap
  <1>6. ASSUME NEW h \in Handle, xlist_clean(h) \/ xlist_reset(h)
        PROVE  HeapInv' /\ Owned(data', mine')
    <2>1. Moves({h}, {})
      BY <1>6, CleanMoves, ResetMoves
    <2> DEFINE S == Range(chain[h])
    <2>2. GivenBack(S) /\ data' = [n \in Node |-> IF n \in S THEN Blank ELSE data[n]]
      BY <1>6 DEF xlist_clean, xlist_reset, FreedAll
    <2>3. S \in SUBSET Node
      <3>1. S \subseteq alive /\ alive \subseteq Node
        BY DEF HeapInv, NodesOwned
      <3> QED
        BY <3>1
    <2> HIDE DEF S
    <2>4. Owned(data', mine')
      BY <2>2, <2>3, FreedCall
    <2> QED
      BY <2>1, <2>4, MovesKeepsHeap
  <1>7. ASSUME NEW h \in Handle, NEW key \in Key, NEW value \in Ptr \cup Str,
               xlist_set(h, key, value)
        PROVE  HeapInv' /\ Owned(data', mine')
    <2>1. Moves({h}, {}) /\ Owned(data', mine')
      BY <1>7, SetCall
    <2> QED
      BY <2>1, MovesKeepsHeap
  <1>8. ASSUME NEW n \in Node, clean_taken(n)
        PROVE  HeapInv' /\ Owned(data', mine')
    <2>1. HeapInv'
      BY <1>8, FreeKeepsHeap
    <2>2. GivenBack({n}) /\ data' = [data EXCEPT ![n] = Blank]
      BY <1>8 DEF clean_taken
    <2>3. data' = [m \in Node |-> IF m \in {n} THEN Blank ELSE data[m]]
      BY <2>2 DEF HeapInv
    <2>4. {n} \in SUBSET Node
      OBVIOUS
    <2>5. Owned(data', mine')
      BY <2>2, <2>3, <2>4, FreedCall
    <2> QED
      BY <2>1, <2>5
  <1>9. CASE UNCHANGED vars
    BY <1>9 DEF vars, pointerVars, HeapInv, NodesOwned, Blanks
  <1> QED
    BY <1>1, <1>2, <1>3, <1>4, <1>5, <1>6, <1>7, <1>8, <1>9 DEF Next, Whole

-----------------------------------------------------------------------------
(* The abstract lists.                                                     *)

\* What Lists calls lists and taken.
AllItems == [h \in Handle |-> ItemsOf(h)]
TakenItems == [n \in loose |-> data[n]]

LEMMA OneListChanges ==
    ASSUME HeapInv, NEW h \in Handle, NEW L, Moves({h}, L)
    PROVE  AllItems' = [AllItems EXCEPT ![h] = ItemsOf(h)']
  <1>1. {h} \in SUBSET Handle
    OBVIOUS
  <1>2. \A g \in Handle \ {h} : ItemsOf(g)' = ItemsOf(g)
    BY <1>1, MovesKeepsItems
  <1> QED
    BY <1>2 DEF AllItems

LEMMA TakenStay ==
    ASSUME HeapInv, NEW H \in SUBSET Handle, Moves(H, {})
    PROVE  TakenItems' = TakenItems
  <1>1. \A n \in loose : data'[n] = data[n]
    BY MovesKeepsItems
  <1>2. loose' = loose
    BY DEF Moves
  <1> QED
    BY <1>1, <1>2 DEF TakenItems

LEMMA ItemsOfList ==
    ASSUME HeapInv, NEW h \in Handle, head[h] # NULL
    PROVE  /\ ItemsOf(h) \in Seq(Item) /\ Len(ItemsOf(h)) = Len(chain[h]) - 1
           /\ \A k \in 1..Len(chain[h])-1 : ItemsOf(h)[k] = data[chain[h][k]]
           /\ ItemsOf(h) # NULL
  <1> DEFINE s == chain[h]
  <1>1. /\ s \in Seq(Node) /\ Len(s) \in Nat \ {0} /\ \A j \in 1..Len(s) : s[j] \in Node
        /\ ItemsOf(h) = Items(s, data)
    BY HeldList
  <1>2. data \in [Node -> Item]
    BY DEF HeapInv
  <1> HIDE DEF s
  <1>3. \A j \in 1..Len(s)-1 : data[s[j]] \in Item
    BY <1>1, <1>2
  <1>4. /\ Items(s, data) \in Seq(Item) /\ Len(Items(s, data)) = Len(s) - 1
        /\ \A k \in 1..Len(s)-1 : Items(s, data)[k] = data[s[k]]
    BY <1>1, <1>3 DEF Items
  <1> QED
    BY <1>1, <1>4, ListAssumption DEF s

\* The keys are found where the sequence has them.
LEMMA SameHits ==
    ASSUME HeapInv, NEW h \in Handle, NEW key
    PROVE  head[h] # NULL => Abstract!Hits(h, key) = Hits(h, key)
  <1> SUFFICES ASSUME head[h] # NULL PROVE Abstract!Hits(h, key) = Hits(h, key)
    OBVIOUS
  <1>1. /\ Len(ItemsOf(h)) = Len(chain[h]) - 1
        /\ \A k \in 1..Len(chain[h])-1 : ItemsOf(h)[k] = data[chain[h][k]]
    BY ItemsOfList
  <1>2. Abstract!Hits(h, key) = {k \in 1..Len(ItemsOf(h)) : ItemsOf(h)[k].key = key}
    BY DEF Abstract!Hits
  <1> QED
    BY <1>1, <1>2 DEF Hits

LEMMA SameFirst ==
    ASSUME NEW S
    PROVE  Abstract!FirstOf(S) = FirstOf(S)
  BY DEF Abstract!FirstOf, FirstOf

LEMMA SameInsertAt ==
    ASSUME NEW s, NEW k, NEW x
    PROVE  Abstract!InsertAt(s, k, x) = InsertAt(s, k, x)
  BY DEF Abstract!InsertAt, InsertAt

LEMMA SameRemoveAt ==
    ASSUME NEW s, NEW k
    PROVE  Abstract!RemoveAt(s, k) = RemoveAt(s, k)
  BY DEF Abstract!RemoveAt, RemoveAt

LEMMA PutIsPut ==
    ASSUME HeapInv, Owned(data, mine), NEW h \in Handle, NEW n \in Node, NEW item \in Given,
           NEW k, PutAt(h, k, n, item)
    PROVE  /\ Abstract!Put(h, k, item) /\ ItemsOf(h) # NULL
           /\ k \in 1..Len(ItemsOf(h))+1 /\ item \in Item
  <1>1. /\ head[h] # NULL /\ k \in 1..Len(chain[h]) /\ Moves({h}, {})
        /\ ItemsOf(h)' = InsertAt(ItemsOf(h), k, item)
    BY PutCall
  <1>2. AllItems' = [AllItems EXCEPT ![h] = InsertAt(AllItems[h], k, item)]
    BY <1>1, OneListChanges DEF AllItems
  <1>3. TakenItems' = TakenItems
    <2>1. {h} \in SUBSET Handle
      OBVIOUS
    <2> QED
      BY <1>1, <2>1, TakenStay
  <1>4. Abstract!Put(h, k, item)
    BY <1>2, <1>3, SameInsertAt DEF Abstract!Put, AllItems, TakenItems
  <1>5. Len(ItemsOf(h)) = Len(chain[h]) - 1 /\ ItemsOf(h) # NULL
    BY <1>1, ItemsOfList
  <1>6. Len(chain[h]) \in Nat
    BY DEF HeapInv
  <1>7. Len(ItemsOf(h)) + 1 = Len(chain[h])
    BY <1>5, <1>6
  <1> QED
    BY <1>1, <1>4, <1>5, <1>7 DEF Given

LEMMA TakeIsTake ==
    ASSUME HeapInv, Owned(data, mine), NEW h \in Handle, NEW k, TakeAt(h, k)
    PROVE  /\ \E p \in Node : Abstract!Take(h, k, p)
           /\ ItemsOf(h) # NULL /\ k \in 1..Len(ItemsOf(h)) /\ head[h] # NULL
  <1>0. PICK p \in Node : p = chain[h][k+1]
    BY TakeCall
  <1>1. /\ head[h] # NULL /\ k \in 1..Len(chain[h])-1 /\ Moves({h}, {p})
        /\ ItemsOf(h)' = RemoveAt(ItemsOf(h), k)
        /\ p \in Node \ loose /\ data'[p] = data[chain[h][k]]
    BY <1>0, TakeCall
  <1>2. AllItems' = [AllItems EXCEPT ![h] = RemoveAt(AllItems[h], k)]
    BY <1>1, OneListChanges DEF AllItems
  <1>3. loose' = loose \cup {p} /\ \A n \in loose : data'[n] = data[n]
    <2>1. {h} \in SUBSET Handle
      OBVIOUS
    <2>2. \A n \in loose : data'[n] = data[n]
      BY <1>1, <2>1, MovesKeepsItems
    <2>3. loose' = loose \cup {p}
      BY <1>1 DEF Moves
    <2> QED
      BY <2>2, <2>3
  <1>4. ItemsOf(h)[k] = data[chain[h][k]] /\ ItemsOf(h) # NULL
        /\ Len(ItemsOf(h)) = Len(chain[h]) - 1
    BY <1>1, ItemsOfList
  <1>5. TakenItems' = [m \in loose \cup {p} |-> IF m = p THEN AllItems[h][k]
                                                ELSE TakenItems[m]]
    BY <1>1, <1>3, <1>4 DEF TakenItems, AllItems
  <1>6. DOMAIN TakenItems = loose
    BY DEF TakenItems
  <1>7. Abstract!Take(h, k, p)
    <2>1. /\ p \notin DOMAIN TakenItems
          /\ AllItems' = [AllItems EXCEPT ![h] = Abstract!RemoveAt(AllItems[h], k)]
          /\ TakenItems' = [m \in DOMAIN TakenItems \cup {p} |->
                               IF m = p THEN AllItems[h][k] ELSE TakenItems[m]]
      BY <1>1, <1>2, <1>5, <1>6, SameRemoveAt
    <2> QED
      BY <2>1 DEF Abstract!Take, AllItems, TakenItems
  <1> QED
    BY <1>1, <1>4, <1>7

LEMMA DropIsDrop ==
    ASSUME HeapInv, Owned(data, mine), NEW h \in Handle, NEW k, DropAt(h, k)
    PROVE  /\ Abstract!Drop(h, k) /\ ItemsOf(h) # NULL /\ k \in 1..Len(ItemsOf(h))
           /\ head[h] # NULL
  <1>1. /\ head[h] # NULL /\ k \in 1..Len(chain[h])-1 /\ Moves({h}, {})
        /\ ItemsOf(h)' = RemoveAt(ItemsOf(h), k)
    BY DropCall
  <1>2. AllItems' = [AllItems EXCEPT ![h] = RemoveAt(AllItems[h], k)]
    BY <1>1, OneListChanges DEF AllItems
  <1>3. TakenItems' = TakenItems
    <2>1. {h} \in SUBSET Handle
      OBVIOUS
    <2> QED
      BY <1>1, <2>1, TakenStay
  <1>4. Abstract!Drop(h, k)
    BY <1>2, <1>3, SameRemoveAt DEF Abstract!Drop, AllItems, TakenItems
  <1> QED
    BY <1>1, <1>4, ItemsOfList

LEMMA SetIsChange ==
    ASSUME HeapInv, Owned(data, mine), NEW h \in Handle, NEW key \in Key,
           NEW value \in Ptr \cup Str, xlist_set(h, key, value)
    PROVE  Abstract!Change(h, key, value) /\ ItemsOf(h) # NULL
  <1> DEFINE k == FirstOf(Hits(h, key))
  <1>1. /\ head[h] # NULL /\ Moves({h}, {})
        /\ ItemsOf(h)' = Changed(ItemsOf(h), k, value)
    BY SetCall
  <1>2. Hits(h, key) # {}
    BY DEF xlist_set
  <1>3. Abstract!Hits(h, key) # {} /\ Abstract!FirstOf(Abstract!Hits(h, key)) = k
    BY <1>1, <1>2, SameHits, SameFirst
  <1> HIDE DEF k
  <1>4. AllItems' = [AllItems EXCEPT ![h] = Changed(AllItems[h], k, value)]
    BY <1>1, OneListChanges DEF AllItems
  <1>5. TakenItems' = TakenItems
    <2>1. {h} \in SUBSET Handle
      OBVIOUS
    <2> QED
      BY <1>1, <2>1, TakenStay
  <1>6. AllItems' = [AllItems EXCEPT ![h][k].value = value]
    BY <1>4 DEF Changed
  <1>7. Abstract!Change(h, key, value)
    BY <1>3, <1>5, <1>6 DEF Abstract!Change, AllItems, TakenItems
  <1> QED
    BY <1>1, <1>7, ItemsOfList

LEMMA CombinIsJoin ==
    ASSUME HeapInv, NEW h \in Handle, NEW g \in Handle, xlist_combin(h, g)
    PROVE  Abstract!Join(h, g) /\ ItemsOf(h) # NULL
  <1>1. /\ Moves({h, g}, {}) /\ ItemsOf(g) # NULL /\ head'[g] = NULL
        /\ ItemsOf(h)' = ItemsOf(h) \o ItemsOf(g)
    BY JoinMoves
  <1>2. h # g /\ head[h] # NULL /\ {h, g} \in SUBSET Handle
    BY DEF xlist_combin
  <1>3. \A f \in Handle \ {h, g} : ItemsOf(f)' = ItemsOf(f)
    BY <1>1, <1>2, MovesKeepsItems
  <1>4. ItemsOf(g)' = NULL
    BY <1>1 DEF ItemsOf
  <1>5. AllItems' = [AllItems EXCEPT ![h] = ItemsOf(h) \o ItemsOf(g), ![g] = NULL]
    BY <1>1, <1>2, <1>3, <1>4 DEF AllItems
  <1>6. TakenItems' = TakenItems
    BY <1>1, <1>2, TakenStay
  <1>7. /\ AllItems' = [AllItems EXCEPT ![h] = AllItems[h] \o AllItems[g], ![g] = NULL]
        /\ AllItems[g] # NULL
    BY <1>1, <1>5 DEF AllItems
  <1>8. Abstract!Join(h, g)
    BY <1>2, <1>6, <1>7 DEF Abstract!Join, AllItems, TakenItems
  <1> QED
    BY <1>2, <1>8, ItemsOfList

LEMMA TerminalIsTruncate ==
    ASSUME HeapInv, NEW h \in Handle, NEW k \in 1..Len(chain[h]), xlist_terminal(h, k)
    PROVE  /\ Abstract!Truncate(h, k) /\ ItemsOf(h) # NULL
           /\ k \in 1..Len(ItemsOf(h))
  <1>1. Moves({h}, {}) /\ ItemsOf(h)' = SubSeq(ItemsOf(h), 1, k - 1)
    BY TruncateMoves
  <1>2. head[h] # NULL /\ k \in 2..Len(chain[h]) - 1
    BY DEF xlist_terminal
  <1>3. AllItems' = [AllItems EXCEPT ![h] = SubSeq(AllItems[h], 1, k - 1)]
    BY <1>1, OneListChanges DEF AllItems
  <1>4. TakenItems' = TakenItems
    <2>1. {h} \in SUBSET Handle
      OBVIOUS
    <2> QED
      BY <1>1, <2>1, TakenStay
  <1>5. Abstract!Truncate(h, k)
    BY <1>3, <1>4 DEF Abstract!Truncate, AllItems, TakenItems
  <1>6. ItemsOf(h) # NULL /\ Len(ItemsOf(h)) = Len(chain[h]) - 1
    BY <1>2, ItemsOfList
  <1>7. k \in 1..Len(chain[h])-1
    BY <1>2
  <1> QED
    BY <1>5, <1>6, <1>7

\* A list without items, made or emptied, and no list.
LEMMA InitIsNew ==
    ASSUME HeapInv, NEW h \in Handle, NEW n \in Node, xlist_init(h, n)
    PROVE  Abstract!New(h)
  <1>1. Moves({h}, {}) /\ ItemsOf(h)' = << >>
    BY InitMoves
  <1>2. AllItems' = [AllItems EXCEPT ![h] = << >>]
    BY <1>1, OneListChanges
  <1>3. TakenItems' = TakenItems
    <2>1. {h} \in SUBSET Handle
      OBVIOUS
    <2> QED
      BY <1>1, <2>1, TakenStay
  <1>4. AllItems[h] = NULL
    BY DEF xlist_init, AllItems, ItemsOf
  <1> QED
    BY <1>2, <1>3, <1>4 DEF Abstract!New, AllItems, TakenItems

LEMMA ResetIsClear ==
    ASSUME HeapInv, NEW h \in Handle, xlist_reset(h)
    PROVE  Abstract!Clear(h) /\ ItemsOf(h) # NULL
  <1>1. Moves({h}, {}) /\ ItemsOf(h)' = << >>
    BY ResetMoves
  <1>2. AllItems' = [AllItems EXCEPT ![h] = << >>]
    BY <1>1, OneListChanges
  <1>3. TakenItems' = TakenItems
    <2>1. {h} \in SUBSET Handle
      OBVIOUS
    <2> QED
      BY <1>1, <2>1, TakenStay
  <1>4. head[h] # NULL
    BY DEF xlist_reset
  <1>5. Abstract!Clear(h)
    BY <1>2, <1>3 DEF Abstract!Clear, AllItems, TakenItems
  <1> QED
    BY <1>4, <1>5, ItemsOfList

LEMMA CleanIsDelete ==
    ASSUME HeapInv, NEW h \in Handle, xlist_clean(h)
    PROVE  Abstract!Delete(h) /\ ItemsOf(h) # NULL
  <1>1. Moves({h}, {}) /\ ItemsOf(h)' = NULL
    BY CleanMoves DEF ItemsOf
  <1>2. AllItems' = [AllItems EXCEPT ![h] = NULL]
    BY <1>1, OneListChanges
  <1>3. TakenItems' = TakenItems
    <2>1. {h} \in SUBSET Handle
      OBVIOUS
    <2> QED
      BY <1>1, <2>1, TakenStay
  <1>4. head[h] # NULL
    BY DEF xlist_clean
  <1>5. Abstract!Delete(h)
    BY <1>2, <1>3 DEF Abstract!Delete, AllItems, TakenItems
  <1> QED
    BY <1>4, <1>5, ItemsOfList

LEMMA FreeIsForget ==
    ASSUME HeapInv, NEW n \in Node, clean_taken(n)
    PROVE  Abstract!Forget(n)
  <1>1. /\ \A h \in Handle : ItemsOf(h)' = ItemsOf(h)
        /\ \A m \in loose' : data'[m] = data[m]
    BY FreeKeepsHeap
  <1>2. n \in loose /\ loose' = loose \ {n}
    BY DEF clean_taken
  <1>3. AllItems' = AllItems
    BY <1>1 DEF AllItems
  <1>4. TakenItems' = [m \in loose \ {n} |-> TakenItems[m]]
    BY <1>1, <1>2 DEF TakenItems
  <1>5. DOMAIN TakenItems = loose
    BY DEF TakenItems
  <1>6. n \in DOMAIN TakenItems /\ TakenItems' = [m \in DOMAIN TakenItems \ {n} |-> TakenItems[m]]
    BY <1>2, <1>4, <1>5
  <1> QED
    BY <1>3, <1>6 DEF Abstract!Forget, AllItems, TakenItems

LEMMA RemoveIsTakeKey ==
    ASSUME HeapInv, Owned(data, mine), NEW h \in Handle, NEW key \in Key, xlist_remove(h, key)
    PROVE  /\ \E n \in Node : Abstract!TakeKey(h, key, n)
           /\ ItemsOf(h) # NULL
  <1> DEFINE k == FirstOf(Hits(h, key))
  <1>1. TakeAt(h, k)
    BY DEF TakeAt
  <1> HIDE DEF k
  <1>2. /\ \E p \in Node : Abstract!Take(h, k, p)
        /\ ItemsOf(h) # NULL /\ head[h] # NULL
    BY <1>1, TakeIsTake
  <1>3. Hits(h, key) # {}
    BY DEF xlist_remove
  <1>4. Abstract!Hits(h, key) # {} /\ Abstract!FirstOf(Abstract!Hits(h, key)) = k
    BY <1>2, <1>3, SameHits, SameFirst DEF k
  <1>5. PICK p \in Node : Abstract!Take(h, k, p)
    BY <1>2
  <1>6. Abstract!TakeKey(h, key, p)
    BY <1>4, <1>5 DEF Abstract!TakeKey
  <1> QED
    BY <1>2, <1>6

LEMMA DeleteIsDropKey ==
    ASSUME HeapInv, Owned(data, mine), NEW h \in Handle, NEW key \in Key,
           xlist_delete(h, key) \/ xlist_kill_remove(h, key)
    PROVE  Abstract!DropKey(h, key) /\ ItemsOf(h) # NULL
  <1> DEFINE k == FirstOf(Hits(h, key))
  <1>1. DropAt(h, k)
    BY DEF DropAt
  <1> HIDE DEF k
  <1>2. Abstract!Drop(h, k) /\ ItemsOf(h) # NULL /\ head[h] # NULL
    BY <1>1, DropIsDrop
  <1>3. Hits(h, key) # {}
    BY DEF xlist_delete, xlist_kill_remove
  <1>4. Abstract!Hits(h, key) # {} /\ Abstract!FirstOf(Abstract!Hits(h, key)) = k
    BY <1>2, <1>3, SameHits, SameFirst DEF k
  <1> QED
    BY <1>2, <1>4 DEF Abstract!DropKey

LEMMA StepCalls ==
    ASSUME HeapInv, Owned(data, mine), NEW h \in Handle
    PROVE  Calls(h)
  <1> DEFINE len == Len(chain[h]) - 1
  <1>1. len + 1 = Len(chain[h]) /\ len \in Int
    BY DEF HeapInv
  <1>2. ASSUME NEW n \in Node, NEW item \in Given
        PROVE  /\ xlist_cat(h, n, item) => Abstract!Put(h, len + 1, item)
               /\ xlist_push(h, n, item) => Abstract!Put(h, 1, item)
               /\ \A k \in 1..len + 1 :
                     xlist_insert(h, k, n, item) => Abstract!Put(h, k, item)
    <2>1. ASSUME xlist_cat(h, n, item) PROVE Abstract!Put(h, len + 1, item)
      <3>1. PutAt(h, Len(chain[h]), n, item)
        BY <2>1 DEF PutAt
      <3>2. Abstract!Put(h, Len(chain[h]), item)
        BY <3>1, PutIsPut
      <3> QED
        BY <1>1, <3>2
    <2>2. ASSUME xlist_push(h, n, item) PROVE Abstract!Put(h, 1, item)
      <3>1. PutAt(h, 1, n, item)
        BY <2>2 DEF PutAt
      <3> QED
        BY <3>1, PutIsPut
    <2>3. ASSUME NEW k, xlist_insert(h, k, n, item) PROVE Abstract!Put(h, k, item)
      <3>1. PutAt(h, k, n, item)
        BY <2>3 DEF PutAt
      <3> QED
        BY <3>1, PutIsPut
    <2> QED
      BY <2>1, <2>2, <2>3
  <1>3. ASSUME NEW k, TakeAt(h, k) PROVE \E n \in Node : Abstract!Take(h, k, n)
    BY <1>3, TakeIsTake
  <1>4. xlist_pop(h) => \E n \in Node : Abstract!Take(h, 1, n)
    BY <1>3 DEF TakeAt
  <1>5. xlist_cut(h) => \E n \in Node : Abstract!Take(h, len, n)
    BY <1>3 DEF TakeAt
  <1>6. \A k \in 1..len : xlist_break(h, k) => \E n \in Node : Abstract!Take(h, k, n)
    BY <1>3 DEF TakeAt
  <1>7. xlist_popv(h) => Abstract!Drop(h, 1)
    <2>1. ASSUME xlist_popv(h) PROVE Abstract!Drop(h, 1)
      <3>1. DropAt(h, 1)
        BY <2>1 DEF DropAt
      <3> QED
        BY <3>1, DropIsDrop
    <2> QED
      BY <2>1
  <1>8. ASSUME NEW key \in Key
        PROVE  /\ xlist_remove(h, key) => \E n \in Node : Abstract!TakeKey(h, key, n)
               /\ xlist_delete(h, key) \/ xlist_kill_remove(h, key) => Abstract!DropKey(h, key)
               /\ \A value \in Ptr \cup Str :
                     xlist_set(h, key, value) => Abstract!Change(h, key, value)
    BY RemoveIsTakeKey, DeleteIsDropKey, SetIsChange
  <1>9. \A g \in Handle : xlist_combin(h, g) => Abstract!Join(h, g)
    BY CombinIsJoin
  <1>10. \A k \in 1..len + 1 : xlist_terminal(h, k) => Abstract!Truncate(h, k)
    BY <1>1, TerminalIsTruncate
  <1> HIDE DEF len
  <1> QED
    BY <1>2, <1>4, <1>5, <1>6, <1>7, <1>8, <1>9, <1>10 DEF Calls, len

\* An operation of one list is a step of Lists.
LEMMA AbstractOne ==
    ASSUME NEW h \in Handle, ItemsOf(h) # NULL, Abstract!OfList(h)
    PROVE  Abstract!Next
  <1>1. AllItems[h] # NULL
    BY DEF AllItems
  <1> QED
    BY <1>1 DEF Abstract!Next, AllItems

LEMMA InitAbstract == Init => Abstract!Init
  <1> SUFFICES ASSUME Init PROVE Abstract!Init
    OBVIOUS
  <1>1. AllItems = [h \in Handle |-> NULL]
    BY DEF Init, AllItems, ItemsOf
  <1>2. TakenItems = [n \in {} |-> NULL]
    BY DEF Init, TakenItems
  <1> QED
    BY <1>1, <1>2 DEF Abstract!Init, AllItems, TakenItems

LEMMA StepAbstract == ListInv /\ [Next]_vars => [Abstract!Next]_(Abstract!vars)
  <1> SUFFICES ASSUME HeapInv, Owned(data, mine), [Next]_vars
               PROVE  [Abstract!Next]_(Abstract!vars)
    BY DEF ListInv
  <1>1. ASSUME NEW h \in Handle, Adding(h) PROVE Abstract!Next
    <2>1. PICK n \in Node, item \in Given :
             \/ xlist_cat(h, n, item) \/ xlist_push(h, n, item)
             \/ \E k \in 1..Len(chain[h]) : xlist_insert(h, k, n, item)
      BY <1>1 DEF Adding
    <2>2. PICK k : PutAt(h, k, n, item)
      BY <2>1 DEF PutAt
    <2>3. /\ Abstract!Put(h, k, item) /\ ItemsOf(h) # NULL
          /\ k \in 1..Len(ItemsOf(h))+1 /\ item \in Item
      BY <2>2, PutIsPut
    <2>4. AllItems[h] = ItemsOf(h)
      BY DEF AllItems
    <2>5. Abstract!OfList(h)
      BY <2>3, <2>4 DEF Abstract!OfList, AllItems
    <2> QED
      BY <2>3, <2>5, AbstractOne
  <1>2. ASSUME NEW h \in Handle, Taking(h) PROVE Abstract!Next
    <2>1. (\E k : TakeAt(h, k)) \/ (\E k : DropAt(h, k))
      BY <1>2 DEF Taking, TakeAt, DropAt
    <2>2. ASSUME NEW k, TakeAt(h, k) PROVE Abstract!OfList(h) /\ ItemsOf(h) # NULL
      <3>1. /\ \E p \in Node : Abstract!Take(h, k, p)
            /\ ItemsOf(h) # NULL /\ k \in 1..Len(ItemsOf(h))
        BY <2>2, TakeIsTake
      <3>2. AllItems[h] = ItemsOf(h)
        BY DEF AllItems
      <3>3. \E j \in 1..Len(AllItems[h]) : \E n \in Node : Abstract!Take(h, j, n)
        BY <3>1, <3>2
      <3>4. \E j \in 1..Len(AllItems[h]) :
               \/ Abstract!Drop(h, j) \/ Abstract!Truncate(h, j) \/ Abstract!Skip(h, j)
               \/ \E n \in Node : Abstract!Take(h, j, n)
        BY <3>3
      <3> QED
        BY <3>1, <3>4 DEF Abstract!OfList, AllItems
    <2>3. ASSUME NEW k, DropAt(h, k) PROVE Abstract!OfList(h) /\ ItemsOf(h) # NULL
      <3>1. Abstract!Drop(h, k) /\ ItemsOf(h) # NULL /\ k \in 1..Len(ItemsOf(h))
        BY <2>3, DropIsDrop
      <3>2. AllItems[h] = ItemsOf(h)
        BY DEF AllItems
      <3> QED
        BY <3>1, <3>2 DEF Abstract!OfList, AllItems
    <2> QED
      BY <2>1, <2>2, <2>3, AbstractOne
  <1>3. ASSUME NEW h \in Handle, NEW n \in Node, xlist_init(h, n) PROVE Abstract!Next
    BY <1>3, InitIsNew DEF Abstract!Next
  <1>4. ASSUME NEW h \in Handle, NEW g \in Handle, xlist_combin(h, g) PROVE Abstract!Next
    <2>1. Abstract!Join(h, g) /\ ItemsOf(h) # NULL
      BY <1>4, CombinIsJoin
    <2>2. Abstract!OfList(h)
      BY <2>1 DEF Abstract!OfList
    <2> QED
      BY <2>1, <2>2, AbstractOne
  <1>5. ASSUME NEW h \in Handle, NEW k \in 1..Len(chain[h]), xlist_terminal(h, k)
        PROVE  Abstract!Next
    <2>1. Abstract!Truncate(h, k) /\ ItemsOf(h) # NULL /\ k \in 1..Len(ItemsOf(h))
      BY <1>5, TerminalIsTruncate
    <2>2. AllItems[h] = ItemsOf(h)
      BY DEF AllItems
    <2>3. Abstract!OfList(h)
      BY <2>1, <2>2 DEF Abstract!OfList, AllItems
    <2> QED
      BY <2>1, <2>3, AbstractOne
  <1>6. ASSUME NEW h \in Handle, xlist_clean(h) \/ xlist_reset(h) PROVE Abstract!Next
    <2>1. ItemsOf(h) # NULL /\ (Abstract!Clear(h) \/ Abstract!Delete(h))
      BY <1>6, CleanIsDelete, ResetIsClear
    <2>2. Abstract!OfList(h)
      BY <2>1 DEF Abstract!OfList
    <2> QED
      BY <2>1, <2>2, AbstractOne
  <1>7. ASSUME NEW h \in Handle, NEW key \in Key, NEW value \in Ptr \cup Str,
               xlist_set(h, key, value)
        PROVE  Abstract!Next
    <2> DEFINE item == [key |-> key, type |-> "PTR", value |-> value]
    <2>1. item \in Item /\ item.key = key /\ item.value = value
      BY DEF Item
    <2>2. Abstract!Change(h, key, value) /\ ItemsOf(h) # NULL
      BY <1>7, SetIsChange
    <2> HIDE DEF item
    <2>3. Abstract!Change(h, item.key, item.value)
      BY <2>1, <2>2
    <2>4. Abstract!OfList(h)
      BY <2>1, <2>3 DEF Abstract!OfList
    <2> QED
      BY <2>2, <2>4, AbstractOne
  <1>8. ASSUME NEW n \in Node, clean_taken(n) PROVE Abstract!Next
    BY <1>8, FreeIsForget DEF Abstract!Next
  <1>9. CASE UNCHANGED vars
    <2>1. AllItems' = AllItems /\ TakenItems' = TakenItems
      BY <1>9 DEF vars, pointerVars, AllItems, TakenItems, ItemsOf
    <2> QED
      BY <2>1 DEF Abstract!vars, AllItems, TakenItems
  <1> QED
    BY <1>1, <1>2, <1>3, <1>4, <1>5, <1>6, <1>7, <1>8, <1>9 DEF Next, Whole

-----------------------------------------------------------------------------
(* Recursion along the natural numbers.                                    *)

\* A set of natural numbers that has no least element is empty; so what holds of a number
\* whenever it holds of those below holds of all.
LEMMA LeastOne ==
    ASSUME NEW P \in SUBSET Nat,
           \A k \in Nat : (\A j \in Nat : j < k => j \in P) => k \in P
    PROVE  P = Nat
  <1> DEFINE lt == {ss \in Nat \X Nat : ss[1] < ss[2]}
             S == Nat \ P
  <1>1. \A x, y \in Nat : <<x, y>> \in lt <=> x < y
    OBVIOUS
  <1>2. IsWellFoundedOn(lt, Nat)
    BY NatLessThanWellFounded DEF OpToRel
  <1> HIDE DEF lt
  <1>3. CASE S # {}
    <2>1. PICK k \in S : \A j \in S : ~(<<j, k>> \in lt)
      BY <1>2, <1>3, WFMin
    <2>2. k \in Nat /\ \A j \in Nat : j < k => j \in P
      BY <1>1, <2>1
    <2> QED
      BY <2>1, <2>2
  <1> QED
    BY <1>3

\* Step by step, up to n.
LEMMA StepByStep ==
    ASSUME NEW n \in Nat, NEW P \in SUBSET Nat, 0 \in P,
           \A k \in 1..n : k - 1 \in P => k \in P
    PROVE  \A k \in 0..n : k \in P
  <1> DEFINE Q == {k \in Nat : k <= n => k \in P}
  <1>1. ASSUME NEW k \in Nat, \A j \in Nat : j < k => j \in Q PROVE k \in Q
    <2>1. CASE k = 0
      BY <2>1
    <2>2. CASE k # 0 /\ k <= n
      <3>1. k - 1 \in Nat /\ k - 1 < k /\ k - 1 <= n /\ k \in 1..n
        BY <2>2
      <3> QED
        BY <1>1, <3>1
    <2> QED
      BY <2>1, <2>2
  <1>2. Q = Nat
    <2>1. Q \in SUBSET Nat
      OBVIOUS
    <2> HIDE DEF Q
    <2> QED
      BY <1>1, <2>1, LeastOne
  <1> QED
    BY <1>2

\* A function defined from x0 by steps g along 0..n exists.
Steps(n, S) == [1..n -> [S -> S]]
Follows(f, n, x0, g) == f[0] = x0 /\ \A k \in 1..n : f[k] = g[k][f[k-1]]

LEMMA StepsExist ==
    ASSUME NEW n \in Nat, NEW S, NEW x0 \in S, NEW g \in Steps(n, S)
    PROVE  \E f \in [0..n -> S] : Follows(f, n, x0, g)
  <1> DEFINE Good(m) == \E f \in [0..m -> S] :
                           \A k \in 0..m : f[k] = IF k = 0 THEN x0 ELSE g[k][f[k-1]]
             P == {m \in Nat : m <= n => Good(m)}
  <1>0. g \in [1..n -> [S -> S]]
    BY DEF Steps
  <1>1. 0 \in P
    <2> DEFINE f == [k \in 0..0 |-> x0]
    <2>1. f \in [0..0 -> S] /\ \A k \in 0..0 : f[k] = IF k = 0 THEN x0 ELSE g[k][f[k-1]]
      OBVIOUS
    <2> QED
      BY <2>1
  <1>2. ASSUME NEW m \in 1..n, m - 1 \in P PROVE m \in P
    <2>1. m \in Nat /\ m - 1 \in Nat /\ m # 0
      OBVIOUS
    <2>2. Good(m - 1)
      BY <1>2, <2>1
    <2>3. PICK f \in [0..m-1 -> S] :
               \A k \in 0..m-1 : f[k] = IF k = 0 THEN x0 ELSE g[k][f[k-1]]
      BY <2>2
    <2> DEFINE h == [k \in 0..m |-> IF k = m THEN g[m][f[m-1]] ELSE f[k]]
    <2>4. f[m-1] \in S
      BY <2>1
    <2>5. g[m][f[m-1]] \in S
      BY <1>0, <2>4
    <2>6. h \in [0..m -> S]
      BY <2>1, <2>5
    <2>7. ASSUME NEW k \in 0..m PROVE h[k] = IF k = 0 THEN x0 ELSE g[k][h[k-1]]
      <3>1. CASE k = m
        <4>1. h[k] = g[m][f[m-1]] /\ h[m-1] = f[m-1]
          BY <2>1, <3>1
        <4> QED
          BY <2>1, <3>1, <4>1
      <3>2. CASE k # m
        <4>1. k \in 0..m-1 /\ h[k] = f[k]
          BY <2>1, <3>2
        <4>2. CASE k = 0
          BY <2>3, <4>1, <4>2
        <4>3. CASE k # 0
          <5>1. k - 1 \in 0..m /\ k - 1 # m
            BY <2>1, <3>2, <4>3
          <5>2. h[k-1] = f[k-1]
            BY <5>1
          <5> QED
            BY <2>3, <4>1, <4>3, <5>2
        <4> QED
          BY <4>2, <4>3
      <3> QED
        BY <3>1, <3>2
    <2> HIDE DEF h
    <2>8. Good(m)
      BY <2>6, <2>7
    <2> QED
      BY <2>1, <2>8
  <1>3. P \in SUBSET Nat
    OBVIOUS
  <1>4. n \in P
    <2> HIDE DEF P
    <2>1. \A k \in 0..n : k \in P
      BY <1>1, <1>2, <1>3, StepByStep
    <2> QED
      BY <2>1
  <1>5. PICK f \in [0..n -> S] : \A k \in 0..n : f[k] = IF k = 0 THEN x0 ELSE g[k][f[k-1]]
    BY <1>4
  <1>6. f[0] = x0 /\ \A k \in 1..n : f[k] = g[k][f[k-1]]
    <2>1. 0 \in 0..n /\ \A k \in 1..n : k \in 0..n /\ k # 0
      OBVIOUS
    <2> QED
      BY <1>5, <2>1
  <1> QED
    BY <1>6 DEF Follows

-----------------------------------------------------------------------------
(* The calls that loop (XListMore).                                        *)

\* A path along next: its nodes, and the end.
Path(hp, u) ==
    /\ Len(u) \in Nat \ {0} /\ u = [k \in 1..Len(u) |-> u[k]]
    /\ \A k \in 1..Len(u) - 1 : hp.next[u[k]] = u[k+1] /\ u[k+1] # NULL
    /\ hp.next[u[Len(u)]] = NULL

LEMMA WalkIs ==
    ASSUME NEW hp, NEW u, Path(hp, u), NEW max \in Nat, Len(u) <= max
    PROVE  Walk(hp, u[1], max) = u
  <1> DEFINE n == Len(u)
             at(k) == IF k <= n THEN u[k] ELSE u[n]
             D(w) == [k \in 1..max |-> IF k = 1 THEN u[1] ELSE After(hp, w[k-1])]
             f == [k \in 1..max |-> at(k)]
             c == CHOOSE w : w = D(w)
             S(w) == {k \in 1..max : hp.next[w[k]] = NULL}
  <1>1. /\ n \in Nat /\ n >= 1 /\ n <= max
        /\ \A k \in 1..n-1 : hp.next[u[k]] = u[k+1] /\ u[k+1] # NULL
        /\ hp.next[u[n]] = NULL
    BY DEF Path
  <1> HIDE DEF n
  <1>2. ASSUME NEW k \in 2..max PROVE at(k) = After(hp, at(k-1))
    <2>1. CASE k <= n
      <3>1. k - 1 \in 1..n-1 /\ (k - 1) + 1 = k
        BY <1>1, <2>1
      <3> QED
        BY <1>1, <2>1, <3>1 DEF After
    <2>2. CASE k > n
      <3>1. at(k) = u[n] /\ at(k-1) = u[n]
        <4>1. k - 1 = n \/ ~ (k - 1 <= n)
          BY <1>1, <2>2
        <4> QED
          BY <1>1, <2>2, <4>1
      <3> QED
        BY <1>1, <3>1 DEF After
    <2> QED
      BY <1>1, <2>1, <2>2
  <1>3. at(1) = u[1]
    BY <1>1
  <1> HIDE DEF at
  <1>4. f = D(f)
    <2>1. ASSUME NEW k \in 1..max PROVE f[k] = IF k = 1 THEN u[1] ELSE After(hp, f[k-1])
      <3>1. CASE k = 1
        BY <1>3, <3>1
      <3>2. CASE k # 1
        <4>1. k \in 2..max /\ k - 1 \in 1..max
          BY <3>2
        <4> QED
          BY <1>2, <3>2, <4>1
      <3> QED
        BY <3>1, <3>2
    <2> QED
      BY <2>1
  <1>5. c = D(c)
    <2> HIDE DEF D, f
    <2> QED
      BY <1>4
  <1> HIDE DEF c
  <1>6. \A k \in 1..max : c[k] = at(k)
    <2> DEFINE P == {k \in Nat : c[k+1] = at(k+1)}
    <2>1. P \in SUBSET Nat
      OBVIOUS
    <2>2. \A k \in 1..max : c[k] = IF k = 1 THEN u[1] ELSE After(hp, c[k-1])
      <3>1. \A k \in 1..max : c[k] = D(c)[k]
        BY <1>5
      <3> QED
        BY <3>1
    <2>3. 0 \in P
      BY <1>1, <1>3, <2>2
    <2>4. ASSUME NEW k \in 1..max-1, k - 1 \in P PROVE k \in P
      <3>1. k + 1 \in 2..max /\ k + 1 \in 1..max /\ k + 1 # 1 /\ (k + 1) - 1 = k /\ (k - 1) + 1 = k
        BY <1>1
      <3>2. c[k] = at(k)
        BY <2>4, <3>1
      <3>3. c[k+1] = After(hp, c[k])
        BY <2>2, <3>1
      <3>4. at(k+1) = After(hp, at(k))
        BY <1>2, <3>1
      <3> QED
        BY <3>2, <3>3, <3>4
    <2> HIDE DEF P
    <2>5. max - 1 \in Nat
      BY <1>1
    <2>6. \A k \in 0..max-1 : k \in P
      BY <2>1, <2>3, <2>4, <2>5, StepByStep
    <2>7. ASSUME NEW k \in 1..max PROVE c[k] = at(k)
      <3>1. k - 1 \in 0..max-1 /\ (k - 1) + 1 = k
        BY <1>1
      <3> QED
        BY <2>6, <3>1 DEF P
    <2> QED
      BY <2>7
  <1>7. n \in S(c) /\ \A k \in S(c) : n <= k
    <2>1. c[n] = u[n] /\ n \in 1..max
      BY <1>1, <1>6 DEF at
    <2>2. ASSUME NEW k \in 1..max, k < n PROVE hp.next[c[k]] # NULL
      <3>1. c[k] = u[k] /\ k \in 1..n-1
        BY <1>1, <1>6, <2>2 DEF at
      <3> QED
        BY <1>1, <3>1
    <2> QED
      BY <1>1, <2>1, <2>2
  <1>8. FirstOf(S(c)) = n
    <2>1. S(c) \in SUBSET Nat
      BY <1>1
    <2> DEFINE T == S(c)
    <2> HIDE DEF T, S
    <2>2. n \in T /\ T \in SUBSET Nat /\ \A k \in T : n <= k
      BY <1>7, <2>1 DEF T
    <2>3. \A k \in T : (\A l \in T : k <= l) => k = n
      BY <1>1, <2>2
    <2>4. FirstOf(T) = n
      BY <2>2, <2>3 DEF FirstOf
    <2> QED
      BY <2>4 DEF T
  <1>9. Walk(hp, u[1], max) = [k \in 1..FirstOf(S(c)) |-> c[k]]
    BY DEF Walk, c
  <1>10. [k \in 1..n |-> c[k]] = [k \in 1..n |-> u[k]]
    <2>1. \A k \in 1..n : c[k] = u[k]
      BY <1>1, <1>6 DEF at
    <2> QED
      BY <2>1
  <1>11. u = [k \in 1..n |-> u[k]]
    BY DEF Path, n
  <1> QED
    BY <1>8, <1>9, <1>10, <1>11

\* A loop whose rounds stay in S.
Rounds(f, max, S, s0, step) ==
    /\ f \in [0..max -> S]
    /\ f = [k \in 0..max |-> IF k = 0 THEN s0 ELSE step[f[k-1]]]
LEMMA LoopRuns ==
    ASSUME NEW max \in Nat, NEW S, NEW s0 \in S, NEW step \in [S -> S]
    PROVE  \E f : Rounds(f, max, S, s0, step)
  <1> DEFINE g == [k \in 1..max |-> step]
  <1>1. g \in Steps(max, S)
    BY DEF Steps
  <1>2. PICK f \in [0..max -> S] : Follows(f, max, s0, g)
    BY <1>1, StepsExist
  <1>3. \A k \in 0..max : f[k] = IF k = 0 THEN s0 ELSE step[f[k-1]]
    <2> TAKE k \in 0..max
    <2>1. CASE k = 0
      BY <1>2, <2>1 DEF Follows
    <2>2. CASE k # 0
      <3>1. k \in 1..max
        BY <2>2
      <3> QED
        BY <1>2, <2>2, <3>1 DEF Follows
    <2> QED
      BY <2>1, <2>2
  <1>4. f = [k \in 0..max |-> IF k = 0 THEN s0 ELSE step[f[k-1]]]
    BY <1>3
  <1> QED
    BY <1>4 DEF Rounds

-----------------------------------------------------------------------------
(* xlist_reverse.                                                          *)

\* After m rounds: the first m items and the last m ones have changed places.
Mirror(n, m, j) == IF j <= m \/ j > n - m THEN n + 1 - j ELSE j
Half(c, s, m) ==
    LET n == Len(c) - 1 IN
    /\ m \in Nat /\ m + m <= n
    /\ s.a = c[m+1] /\ s.b = IF n = 0 THEN c[1] ELSE c[n-m]
    /\ s.heap.next = next /\ s.heap.prev = prev
    /\ Owned(s.heap.data, mine)
    /\ \A j \in 1..n : s.heap.data[c[j]] = data[c[Mirror(n, m, j)]]
    /\ \A x \in Node : (\A j \in 1..n : x # c[j]) => s.heap.data[x] = data[x]

Heaps == [next : Links, prev : Links, data : [Node -> Item]]
Swaps == [heap : Heaps, a : Node, b : Node]

LEMMA HeapIs ==
    ASSUME HeapInv
    PROVE  Heap \in Heaps /\ Heap.next = next /\ Heap.prev = prev /\ Heap.data = data
  <1>1. next \in Links /\ prev \in Links /\ data \in [Node -> Item]
    BY DEF HeapInv
  <1> DEFINE nx == [n \in Node |-> IF n \in Node THEN next[n] ELSE NULL]
             pv == [n \in Node |-> IF n \in Node THEN prev[n] ELSE NULL]
             dt == [n \in Node |-> IF n \in Node THEN data[n] ELSE Blank]
  <1>2. nx = next /\ pv = prev /\ dt = data
    BY <1>1 DEF Links
  <1>3. Heap = [next |-> nx, prev |-> pv, data |-> dt]
    BY DEF Heap, HeapOf
  <1> HIDE DEF nx, pv, dt
  <1> QED
    BY <1>1, <1>2, <1>3 DEF Heaps

\* One round.
LEMMA RoundSwaps ==
    ASSUME HeapInv, NEW c, IsList(c, next, prev, data),
           NEW s \in Swaps, NEW m, Half(c, s, m)
    PROVE  /\ Swapping(s) \in Swaps
           /\ Passed(s) <=> Len(c) - 1 \in {m + m, m + m + 1}
           /\ Half(c, Swapping(s), IF Passed(s) THEN m ELSE m + 1)
  <1> DEFINE n == Len(c) - 1
             dt == s.heap.data
             r == Swapping(s)
  <1>1. n \in Nat /\ n + 1 = Len(c) /\ \A j \in 1..n+1 : c[j] \in Node
    BY DEF IsList
  <1>2. \A j, k \in 1..n+1 : c[j] = c[k] => j = k
    BY <1>1 DEF IsList
  <1>3. \A j \in 1..n : next[c[j]] = c[j+1] /\ prev[c[j+1]] = c[j]
    BY <1>1 DEF IsList
  <1>4. next[c[n+1]] = NULL /\ prev[c[1]] = c[n+1]
    BY <1>1 DEF IsList
  <1>5. /\ m \in Nat /\ m + m <= n
        /\ s.a = c[m+1] /\ s.b = (IF n = 0 THEN c[1] ELSE c[n-m])
        /\ s.heap.next = next /\ s.heap.prev = prev
        /\ Owned(dt, mine)
        /\ \A j \in 1..n : dt[c[j]] = data[c[Mirror(n, m, j)]]
        /\ \A x \in Node : (\A j \in 1..n : x # c[j]) => dt[x] = data[x]
    BY DEF Half
  <1>6. dt \in [Node -> Item] /\ s.heap \in Heaps /\ s.a \in Node /\ s.b \in Node
    BY DEF Swaps, Heaps
  <1> HIDE DEF n, dt
  <1>7. Passed(s) <=> n \in {m + m, m + m + 1}
    <2>1. CASE n = 0
      <3>1. m = 0 /\ s.a = s.b
        BY <1>5, <2>1
      <3> QED
        BY <2>1, <3>1 DEF Passed
    <2>2. CASE n # 0
      <3>1. m + 1 \in 1..n+1 /\ n - m \in 1..n /\ n - m \in 1..n+1 /\ (n - m) + 1 \in 1..n+1
        BY <1>1, <1>5, <2>2
      <3>2. s.a = c[m+1] /\ s.b = c[n-m] /\ next[s.b] = c[(n-m)+1]
        BY <1>3, <1>5, <2>2, <3>1
      <3>3. s.a = s.b <=> m + 1 = n - m
        BY <1>2, <3>1, <3>2
      <3>4. next[s.b] = s.a <=> (n - m) + 1 = m + 1
        BY <1>2, <3>1, <3>2
      <3>5. Passed(s) <=> (m + 1 = n - m \/ (n - m) + 1 = m + 1)
        BY <1>5, <3>3, <3>4 DEF Passed
      <3> QED
        BY <1>1, <1>5, <3>5
    <2> QED
      BY <2>1, <2>2
  <1>8. CASE Passed(s)
    BY <1>7, <1>8 DEF Swapping, n
  <1>9. CASE ~Passed(s)
    <2>1. n >= m + m + 2
      BY <1>1, <1>5, <1>7, <1>9
    <2>2. /\ m + 1 \in 1..n /\ n - m \in 1..n /\ m + 1 # n - m /\ n # 0
          /\ (m + 1) + 1 \in 1..n+1 /\ (n - m) - 1 \in 1..n
      BY <1>1, <1>5, <2>1
    <2> DEFINE a == c[m+1]
               b == c[n-m]
               d2 == [dt EXCEPT ![a] = dt[b], ![b] = dt[a]]
    <2>3. s.a = a /\ s.b = b /\ a \in Node /\ b \in Node /\ a # b
      BY <1>1, <1>2, <1>5, <2>2
    <2>4. next[a] = c[(m+1)+1] /\ prev[b] = c[(n-m)-1]
      <3>1. ((n-m)-1)+1 = n-m
        BY <1>1, <1>5
      <3> QED
        BY <1>3, <2>2, <3>1
    <2> HIDE DEF a, b
    <2>5. /\ r = [heap |-> Exchange(s.heap, a, b), a |-> next[a], b |-> prev[b]]
      BY <1>5, <1>9, <2>3 DEF Swapping
    <2>6. /\ Exchange(s.heap, a, b) \in Heaps
          /\ Exchange(s.heap, a, b).next = next /\ Exchange(s.heap, a, b).prev = prev
          /\ Exchange(s.heap, a, b).data = d2
      BY <1>5, <1>6, <2>3 DEF Exchange, Heaps, dt
    <2>7. /\ r.heap \in Heaps /\ r.heap.next = next /\ r.heap.prev = prev
          /\ r.heap.data = d2 /\ r.a = c[(m+1)+1] /\ r.b = c[(n-m)-1]
      BY <2>4, <2>5, <2>6
    <2>8. r \in Swaps
      <3>1. next[a] \in Node /\ prev[b] \in Node
        BY <1>1, <2>2, <2>4
      <3> QED
        BY <2>5, <2>6, <3>1 DEF Swaps
    <2>9. Owned(d2, mine)
      BY <1>5, <1>6, <2>3, OwnedExchange
    <2>10. d2[a] = dt[b] /\ d2[b] = dt[a] /\ \A x \in Node : x # a /\ x # b => d2[x] = dt[x]
      BY <1>6, <2>3
    <2> HIDE DEF r, d2
    <2>11. ASSUME NEW j \in 1..n PROVE d2[c[j]] = data[c[Mirror(n, m+1, j)]]
      <3>0. j \in 1..n+1 /\ m + 1 \in 1..n+1 /\ n - m \in 1..n+1
        BY <1>1, <2>2
      <3>1. CASE j = m + 1
        <4>1. Mirror(n, m+1, j) = n - m /\ Mirror(n, m, n-m) = n - m
          BY <1>1, <1>5, <2>1, <3>1 DEF Mirror
        <4> QED
          BY <1>5, <2>2, <2>10, <3>1, <4>1 DEF a, b
      <3>2. CASE j = n - m
        <4>1. Mirror(n, m+1, j) = m + 1 /\ Mirror(n, m, m+1) = m + 1
          BY <1>1, <1>5, <2>1, <3>2 DEF Mirror
        <4> QED
          BY <1>5, <2>2, <2>10, <3>2, <4>1 DEF a, b
      <3>3. CASE j # m + 1 /\ j # n - m
        <4>1. Mirror(n, m+1, j) = Mirror(n, m, j)
          BY <1>1, <1>5, <2>1, <3>3 DEF Mirror
        <4>2. c[j] # a /\ c[j] # b /\ c[j] \in Node
          BY <1>1, <1>2, <3>0, <3>3 DEF a, b
        <4> QED
          BY <1>5, <2>10, <4>1, <4>2
      <3> QED
        BY <3>1, <3>2, <3>3
    <2>12. ASSUME NEW x \in Node, \A j \in 1..n : x # c[j] PROVE d2[x] = data[x]
      <3>1. x # a /\ x # b
        BY <2>2, <2>12 DEF a, b
      <3> QED
        BY <1>5, <2>10, <2>12, <3>1
    <2>13. Half(c, r, m + 1)
      <3>1. m + 1 \in Nat /\ (m + 1) + (m + 1) <= n
        BY <1>5, <2>1
      <3>2. r.b = IF n = 0 THEN c[1] ELSE c[n-(m+1)]
        <4>1. (n - m) - 1 = n - (m + 1)
          BY <1>1, <1>5
        <4> QED
          BY <2>2, <2>7, <4>1
      <3>3. \A j \in 1..n : r.heap.data[c[j]] = data[c[Mirror(n, m+1, j)]]
        BY <2>7, <2>11
      <3>4. \A x \in Node : (\A j \in 1..n : x # c[j]) => r.heap.data[x] = data[x]
        BY <2>7, <2>12
      <3>5. Owned(r.heap.data, mine)
        BY <2>7, <2>9
      <3> QED
        BY <2>7, <3>1, <3>2, <3>3, <3>4, <3>5 DEF Half, n
    <2> QED
      BY <1>7, <1>9, <2>8, <2>13 DEF r, n
  <1> QED
    BY <1>8, <1>9

\* The whole loop: at most one round for every node.
LEMMA SwappedIsHalf ==
    ASSUME HeapInv, NEW c, IsList(c, next, prev, data), NEW s \in Swaps, Half(c, s, 0)
    PROVE  \E t \in Swaps : \E m : /\ Half(c, t, m) /\ Passed(t)
                                  /\ Swapped(s, Len(c)) = t.heap
  <1> DEFINE S == {t \in Swaps : \E m : Half(c, t, m)}
             max == Len(c)
             step == [t \in S |-> Swapping(t)]
             D(f) == [k \in 0..max |-> IF k = 0 THEN s ELSE Swapping(f[k-1])]
             w == CHOOSE f : f = D(f)
  <1>1. max \in Nat /\ max # 0
    BY DEF IsList
  <1>2. s \in S /\ step \in [S -> S]
    <2>1. ASSUME NEW t \in S PROVE Swapping(t) \in S
      <3>1. PICK m : Half(c, t, m)
        OBVIOUS
      <3>2. Swapping(t) \in Swaps /\ Half(c, Swapping(t), IF Passed(t) THEN m ELSE m + 1)
        BY <3>1, RoundSwaps
      <3> QED
        BY <3>2
    <2>2. s \in S
      OBVIOUS
    <2> HIDE DEF S
    <2> QED
      BY <2>1, <2>2
  <1>3. \E f : f = D(f)
    <2> HIDE DEF S, max
    <2>0. PICK f : Rounds(f, max, S, s, step)
      <3> HIDE DEF step
      <3> QED
        BY <1>1, <1>2, LoopRuns
    <2>1. /\ f \in [0..max -> S]
          /\ f = [k \in 0..max |-> IF k = 0 THEN s ELSE step[f[k-1]]]
      <3> HIDE DEF step
      <3> QED
        BY <2>0 DEF Rounds
    <2>2. ASSUME NEW k \in 0..max
          PROVE  (IF k = 0 THEN s ELSE step[f[k-1]]) = (IF k = 0 THEN s ELSE Swapping(f[k-1]))
      <3>1. CASE k # 0
        <4>1. k - 1 \in 0..max
          BY <1>1, <3>1
        <4>2. f[k-1] \in S
          BY <2>1, <4>1
        <4> QED
          BY <3>1, <4>2
      <3> QED
        BY <3>1
    <2>3. D(f) = [k \in 0..max |-> IF k = 0 THEN s ELSE step[f[k-1]]]
      <3> HIDE DEF step
      <3> QED
        BY <2>2
    <2>4. f = D(f)
      <3> HIDE DEF D, step
      <3> QED
        BY <2>1, <2>3
    <2> QED
      BY <2>4
  <1>4. w = D(w)
    <2> HIDE DEF D
    <2> QED
      BY <1>3
  <1> HIDE DEF w
  <1>5. w[0] = s /\ \A k \in 1..max : w[k] = Swapping(w[k-1])
    <2>1. \A k \in 0..max : w[k] = IF k = 0 THEN s ELSE Swapping(w[k-1])
      BY <1>4
    <2> QED
      BY <2>1, <1>1
  <1> DEFINE P == {k \in Nat : /\ w[k] \in Swaps
                               /\ \E m : Half(c, w[k], m) /\ (m = k \/ Passed(w[k]))}
  <1>6. 0 \in P
    BY <1>5
  <1>7. ASSUME NEW k \in 1..max, k - 1 \in P PROVE k \in P
    <2>1. PICK m : Half(c, w[k-1], m) /\ (m = k - 1 \/ Passed(w[k-1]))
      BY <1>7
    <2>2. w[k-1] \in Swaps /\ w[k] = Swapping(w[k-1])
      BY <1>5, <1>7
    <2>3. /\ w[k] \in Swaps
          /\ Half(c, w[k], IF Passed(w[k-1]) THEN m ELSE m + 1)
      BY <2>1, <2>2, RoundSwaps
    <2>4. CASE Passed(w[k-1])
      <3>1. w[k] = w[k-1]
        BY <2>2, <2>4 DEF Swapping
      <3> QED
        BY <2>1, <2>2, <2>4, <3>1
    <2>5. CASE ~Passed(w[k-1])
      <3>1. m + 1 = k
        BY <2>1, <2>5
      <3> QED
        BY <2>3, <2>5, <3>1
    <2> QED
      BY <2>4, <2>5
  <1>8. max \in P
    <2>1. P \in SUBSET Nat /\ max \in 0..max
      BY <1>1
    <2> HIDE DEF P
    <2> QED
      BY <1>1, <1>6, <1>7, <2>1, StepByStep
  <1>9. PICK m : Half(c, w[max], m) /\ (m = max \/ Passed(w[max]))
    BY <1>8
  <1>10. m # max
    <2>1. m \in Nat /\ m + m <= Len(c) - 1
      BY <1>9 DEF Half
    <2> QED
      BY <1>1, <2>1
  <1>11. Swapped(s, max) = w[max].heap
    BY DEF Swapped, w
  <1> QED
    BY <1>8, <1>9, <1>10, <1>11

\* What a reversal leaves: the same nodes, with the items the other way round.
Turned(h) ==
    /\ ItemsOf(h)' = Reverse(ItemsOf(h)) /\ head[h] # NULL
    /\ Moves({h}, {}) /\ Owned(data', mine')

LEMMA ReverseCall ==
    ASSUME HeapInv, Owned(data, mine), NEW h \in Handle, xlist_reverse(h)
    PROVE  Turned(h)
  <1> DEFINE c == chain[h]
             n == Len(c) - 1
             s == [heap |-> Heap, a |-> head[h], b |-> prev[prev[head[h]]]]
             hp == Swapped(s, Len(c))
  <1>1. head[h] # NULL /\ UNCHANGED <<head, alive, loose, mine, chain>> /\ Becomes(hp)
    BY DEF xlist_reverse
  <1>2. /\ IsList(c, next, prev, data) /\ c \in Seq(Node) /\ Len(c) \in Nat \ {0}
        /\ \A k \in 1..Len(c) : c[k] \in Node
        /\ c[1] = head[h] /\ prev[head[h]] = c[Len(c)] /\ Range(c) \subseteq alive
        /\ head[h] \in Node
    BY <1>1, HeldList
  <1>3. n \in Nat /\ n + 1 = Len(c)
    BY <1>2
  <1>4. \A j \in 1..n : next[c[j]] = c[j+1] /\ prev[c[j+1]] = c[j]
    BY <1>2 DEF IsList
  <1> HIDE DEF c
  <1>5. prev[prev[head[h]]] = IF n = 0 THEN c[1] ELSE c[n]
    <2>1. prev[head[h]] = c[n+1]
      BY <1>2, <1>3
    <2>2. CASE n = 0
      <3>0. Len(c) = 1
        BY <1>2, <2>2
      <3>1. prev[head[h]] = c[1] /\ c[1] = head[h]
        BY <1>2, <3>0
      <3>2. prev[prev[head[h]]] = c[1]
        BY <3>1
      <3> QED
        BY <2>2, <3>2
    <2>3. CASE n # 0
      <3>1. n \in 1..n
        BY <1>3, <2>3
      <3> QED
        BY <1>4, <2>1, <2>3, <3>1
    <2> QED
      BY <2>2, <2>3
  <1> HIDE DEF n
  <1>6. Heap \in Heaps /\ Heap.next = next /\ Heap.prev = prev /\ Heap.data = data
    BY HeapIs
  <1>7. s \in Swaps
    <2>1. prev[prev[head[h]]] \in Node
      <3>1. 1 \in 1..Len(c) /\ (n # 0 => n \in 1..Len(c))
        BY <1>2, <1>3
      <3> QED
        BY <1>2, <1>5, <3>1
    <2> QED
      BY <1>2, <1>6, <2>1 DEF Swaps
  <1>8. Half(c, s, 0)
    <2>1. \A j \in 1..n : Mirror(n, 0, j) = j
      BY <1>3 DEF Mirror
    <2>2. s.a = c[0+1] /\ s.b = IF n = 0 THEN c[1] ELSE c[n-0]
      BY <1>2, <1>3, <1>5
    <2>3. s.heap = Heap
      OBVIOUS
    <2> HIDE DEF s
    <2> QED
      BY <1>3, <1>6, <2>1, <2>2, <2>3 DEF Half, n
  <1> HIDE DEF s
  <1>0. PICK t \in Swaps : \E m : Half(c, t, m) /\ Passed(t) /\ hp = t.heap
    BY <1>2, <1>7, <1>8, SwappedIsHalf
  <1>9. PICK m : Half(c, t, m) /\ Passed(t) /\ hp = t.heap
    BY <1>0
  <1> HIDE DEF hp
  <1>10. n = m + m \/ n = m + m + 1
    BY <1>2, <1>9, RoundSwaps DEF n
  <1>11. /\ m \in Nat /\ t.heap.next = next /\ t.heap.prev = prev
         /\ Owned(t.heap.data, mine)
         /\ \A j \in 1..n : t.heap.data[c[j]] = data[c[Mirror(n, m, j)]]
         /\ \A x \in Node : (\A j \in 1..n : x # c[j]) => t.heap.data[x] = data[x]
    BY <1>9 DEF Half, n
  <1>12. next' = next /\ prev' = prev /\ data' = t.heap.data /\ data' \in [Node -> Item]
    <2>1. t.heap \in Heaps
      BY DEF Swaps
    <2>2. t.heap.data \in [Node -> Item] /\ t.heap.next \in Links /\ t.heap.prev \in Links
      BY <2>1 DEF Heaps
    <2> QED
      BY <1>1, <1>9, <1>11, <2>2 DEF Becomes, Links
  <1>13. \A j \in 1..n : data'[c[j]] = data[c[n+1-j]]
    <2>1. ASSUME NEW j \in 1..n PROVE c[Mirror(n, m, j)] = c[n+1-j]
      <3>1. CASE j <= m \/ j > n - m
        BY <3>1 DEF Mirror
      <3>2. CASE ~(j <= m \/ j > n - m)
        <4>1. j = n + 1 - j
          BY <1>3, <1>10, <1>11, <3>2
        <4> QED
          BY <3>2, <4>1 DEF Mirror
      <3> QED
        BY <3>1, <3>2
    <2> QED
      BY <1>11, <1>12, <2>1
  <1>14. \A x \in Node : (\A j \in 1..n : x # c[j]) => data'[x] = data[x]
    BY <1>11, <1>12
  <1>15. IsList(c, next', prev', data')
    <2>1. data'[c[n+1]] = Blank
      <3>1. n + 1 \in 1..Len(c) /\ \A j \in 1..n : j \in 1..Len(c) /\ j # n + 1
        BY <1>3
      <3>2. \A j \in 1..n : c[n+1] # c[j]
        BY <1>2, <3>1 DEF IsList
      <3>3. data[c[n+1]] = Blank
        BY <1>2, <1>3 DEF IsList
      <3> QED
        BY <1>2, <1>14, <3>1, <3>2, <3>3
    <2> QED
      BY <1>2, <1>3, <1>12, <2>1 DEF IsList
  <1>16. MovesOne(h, c, {})
    <2>1. \A x \in Node \ Range(c) : data'[x] = data[x]
      <3>1. \A j \in 1..n : c[j] \in Range(c)
        BY <1>2, <1>3 DEF Range
      <3> QED
        BY <1>14, <3>1
    <2>2. alive \subseteq Node /\ next \in Links /\ prev \in Links
          /\ head \in [Handle -> Node \cup {NULL}]
          /\ \A x \in Node \ alive : next[x] = NULL /\ prev[x] = NULL /\ data[x] = Blank
      BY DEF HeapInv, Blanks
    <2>3. Holds(c, head'[h], next', prev', data')
      BY <1>1, <1>2, <1>15 DEF Holds
    <2>4. chain' = [chain EXCEPT ![h] = c]
      BY <1>1 DEF HeapInv, c
    <2>5. alive' = (alive \ Range(chain[h])) \cup Range(c) \cup {}
      BY <1>1, <1>2 DEF c
    <2> QED
      BY <1>1, <1>2, <1>12, <2>1, <2>2, <2>3, <2>4, <2>5 DEF MovesOne, c
  <1>17. Moves({h}, {})
    BY <1>16, OneMoves
  <1>18. Owned(data', mine')
    BY <1>1, <1>11, <1>12
  <1>19. ItemsOf(h)' = Reverse(ItemsOf(h))
    <2>1. /\ ItemsOf(h) \in Seq(Item) /\ Len(ItemsOf(h)) = n
          /\ \A k \in 1..n : ItemsOf(h)[k] = data[c[k]]
      BY <1>1, ItemsOfList DEF c, n
    <2>2. ItemsOf(h)' = [k \in 1..n |-> data'[c[k]]]
      BY <1>1 DEF ItemsOf, c, n
    <2>3. Reverse(ItemsOf(h)) = [k \in 1..n |-> ItemsOf(h)[(n-k)+1]]
      BY <2>1 DEF Reverse
    <2>4. \A k \in 1..n : (n-k)+1 \in 1..n /\ (n-k)+1 = n+1-k
      BY <1>3
    <2>5. ASSUME NEW k \in 1..n PROVE data'[c[k]] = ItemsOf(h)[(n-k)+1]
      <3>1. (n-k)+1 \in 1..n /\ (n-k)+1 = n+1-k
        BY <2>4
      <3>2. ItemsOf(h)[(n-k)+1] = data[c[(n-k)+1]]
        BY <2>1, <3>1
      <3> QED
        BY <1>13, <3>1, <3>2
    <2> QED
      BY <2>2, <2>3, <2>5
  <1> QED
    BY <1>1, <1>17, <1>18, <1>19 DEF Turned

\* In Lists: the items in another order.
LEMMA ReverseIsArrange ==
    ASSUME HeapInv, Owned(data, mine), NEW h \in Handle, xlist_reverse(h)
    PROVE  Abstract!Arrange(h) /\ ItemsOf(h) # NULL
  <1>1. /\ ItemsOf(h)' = Reverse(ItemsOf(h)) /\ head[h] # NULL /\ Moves({h}, {})
    BY ReverseCall DEF Turned
  <1>2. AllItems' = [AllItems EXCEPT ![h] = Reverse(AllItems[h])]
    BY <1>1, OneListChanges DEF AllItems
  <1>3. TakenItems' = TakenItems
    <2>1. {h} \in SUBSET Handle
      OBVIOUS
    <2> QED
      BY <1>1, <2>1, TakenStay
  <1>4. ItemsOf(h) \in Seq(Item) /\ ItemsOf(h) # NULL /\ Len(ItemsOf(h)) \in Nat
    BY <1>1, ItemsOfList
  <1> DEFINE n == Len(ItemsOf(h))
             p == [k \in 1..n |-> n + 1 - k]
  <1>5. p \in [1..n -> 1..n] /\ IsInjective(p)
    <2>1. \A k \in 1..n : n + 1 - k \in 1..n
      BY <1>4
    <2>2. \A j, k \in 1..n : n + 1 - j = n + 1 - k => j = k
      BY <1>4
    <2> HIDE DEF n
    <2> QED
      BY <2>1, <2>2 DEF IsInjective
  <1>6. Reverse(ItemsOf(h)) = [k \in 1..n |-> ItemsOf(h)[p[k]]]
    <2>1. \A k \in 1..n : (n - k) + 1 = p[k]
      BY <1>4
    <2> HIDE DEF p
    <2> QED
      BY <2>1 DEF Reverse
  <1>7. AllItems[h] = ItemsOf(h)
    BY DEF AllItems
  <1>8. Abstract!Arrange(h)
    <2>1. AllItems' = [AllItems EXCEPT ![h] = [k \in 1..Len(AllItems[h]) |-> AllItems[h][p[k]]]]
      BY <1>2, <1>6, <1>7
    <2>2. p \in [1..Len(AllItems[h]) -> 1..Len(AllItems[h])]
      BY <1>5, <1>7
    <2>3. Abstract!IsInjective(p)
      BY <1>5 DEF Abstract!IsInjective, IsInjective
    <2> HIDE DEF p
    <2> QED
      BY <1>3, <2>1, <2>2, <2>3 DEF Abstract!Arrange, AllItems, TakenItems
  <1> QED
    BY <1>4, <1>8

-----------------------------------------------------------------------------
(* xlist_popv_notzero.                                                     *)

Drains == [heap : Heaps, freed : SUBSET Node, item : Item]

\* The items of all nodes once those of freed are blanked.
Cleared(s) == [x \in Node |-> IF x \in s.freed THEN Blank ELSE s.heap.data[x]]

\* After j rounds: j items are gone, the last of them is in item, those before had no
\* value; the first node is linked to the node after the next.
Gone(c, s, j) ==
    LET n == Len(c) - 1 IN
    /\ j \in 0..n
    /\ s.freed = {c[i] : i \in 2..j+1}
    /\ s.item = IF j = 0 THEN Blank ELSE data[c[j]]
    /\ \A i \in 1..j-1 : data[c[i]].value = NULL
    /\ s.heap.next[c[1]] = next[c[j+1]] /\ s.heap.data[c[1]] = data[c[j+1]]
    /\ \A x \in Node : x # c[1] => s.heap.next[x] = next[x] /\ s.heap.data[x] = data[x]
    /\ s.heap.prev[c[1]] = IF j = n THEN c[1] ELSE c[n+1]
    /\ j < n => s.heap.prev[c[j+2]] = c[1]
    /\ \A x \in Node : (\A i \in 1..n+1 : x = c[i] => i > j + 2) => s.heap.prev[x] = prev[x]
    /\ Owned(Cleared(s), mine \cup StringOf(s.item))

\* One round, while some item that is left has a value.
LEMMA RoundDrains ==
    ASSUME HeapInv, NEW c, IsList(c, next, prev, data),
           \E i \in 1..Len(c) : data[c[i]].value # NULL,
           NEW s \in Drains, NEW j, Gone(c, s, j)
    PROVE  /\ Draining(s, c[1]) \in Drains
           /\ Gone(c, Draining(s, c[1]), IF s.item.value # NULL THEN j ELSE j + 1)
  <1> DEFINE n == Len(c) - 1
             r == Draining(s, c[1])
             nx == s.heap.next
             pv == s.heap.prev
             dt == s.heap.data
  <1>1. n \in Nat /\ n + 1 = Len(c) /\ \A i \in 1..n+1 : c[i] \in Node
    BY DEF IsList
  <1>2. \A i, k \in 1..n+1 : c[i] = c[k] => i = k
    BY <1>1 DEF IsList
  <1>3. \A i \in 1..n : next[c[i]] = c[i+1] /\ prev[c[i+1]] = c[i]
    BY <1>1 DEF IsList
  <1>4. next[c[n+1]] = NULL /\ prev[c[1]] = c[n+1] /\ data[c[n+1]] = Blank
    BY <1>1 DEF IsList
  <1>5. PICK v \in 1..n+1 : data[c[v]].value # NULL
    BY <1>1
  <1>6. /\ j \in 0..n
        /\ s.freed = {c[i] : i \in 2..j+1}
        /\ s.item = IF j = 0 THEN Blank ELSE data[c[j]]
        /\ \A i \in 1..j-1 : data[c[i]].value = NULL
    BY DEF Gone
  <1>7. /\ nx[c[1]] = next[c[j+1]] /\ dt[c[1]] = data[c[j+1]]
        /\ \A x \in Node : x # c[1] => nx[x] = next[x] /\ dt[x] = data[x]
        /\ pv[c[1]] = IF j = n THEN c[1] ELSE c[n+1]
        /\ j < n => pv[c[j+2]] = c[1]
        /\ \A x \in Node : (\A i \in 1..n+1 : x = c[i] => i > j + 2) => pv[x] = prev[x]
    BY DEF Gone
  <1>8. Owned(Cleared(s), mine \cup StringOf(s.item))
    BY DEF Gone
  <1>9. /\ s.heap \in Heaps /\ nx \in Links /\ pv \in Links /\ dt \in [Node -> Item]
        /\ s.freed \in SUBSET Node /\ s.item \in Item
    BY DEF Drains, Heaps
  <1> HIDE DEF n
  <1>10. CASE s.item.value # NULL
    BY <1>10 DEF Draining
  <1>11. CASE s.item.value = NULL
    <2>1. \A i \in 1..j : data[c[i]].value = NULL
      <3>1. j # 0 => data[c[j]].value = NULL
        BY <1>6, <1>11
      <3>2. \A i \in 1..j : i = j \/ i \in 1..j-1
        BY <1>6
      <3> QED
        BY <1>6, <3>1, <3>2
    <2>2. v # n + 1
      BY <1>4, <1>5 DEF Blank
    <2>3. j < n
      BY <1>1, <1>5, <1>6, <2>1, <2>2
    <2>4. /\ j + 1 \in 1..n /\ j + 2 \in 1..n+1 /\ j + 2 # 1 /\ 1 \in 1..n+1 /\ j \in Nat
          /\ (j + 1) + 1 = j + 2
      BY <1>1, <1>6, <2>3
    <2> DEFINE x1 == c[1]
               pivot == c[j+2]
               after == next[pivot]
               back == IF after = NULL THEN x1 ELSE after
               nx2 == [nx EXCEPT ![x1] = after]
               pv2 == [pv EXCEPT ![back] = x1]
               dt2 == [dt EXCEPT ![x1] = dt[pivot]]
    <2>5. x1 \in Node /\ pivot \in Node /\ x1 # pivot
      BY <1>1, <1>2, <2>4
    <2>6. nx[x1] = pivot /\ nx[pivot] = after /\ dt[pivot] = data[pivot]
      BY <1>3, <1>7, <2>4, <2>5
    <2>7. IF j + 2 = n + 1 THEN after = NULL /\ back = x1 ELSE after = c[j+3] /\ back = c[j+3]
      <3>1. CASE j + 2 = n + 1
        BY <1>4, <3>1
      <3>2. CASE j + 2 # n + 1
        <4>1. j + 2 \in 1..n /\ (j + 2) + 1 = j + 3 /\ j + 3 \in 1..n+1
          BY <2>4, <3>2, <1>1
        <4>2. after = c[j+3] /\ c[j+3] \in Node
          BY <1>1, <1>3, <4>1
        <4> QED
          BY <3>2, <4>2
      <3> QED
        BY <3>1, <3>2
    <2>8. back \in Node
      <3>1. j + 2 # n + 1 => j + 3 \in 1..n+1
        BY <1>1, <2>4
      <3> QED
        BY <1>1, <2>5, <2>7, <3>1
    <2> HIDE DEF x1, pivot, after, back
    <2>9. Draining(s, x1) =
            [heap |-> [s.heap EXCEPT !.next[x1] = after, !.data[x1] = dt[pivot],
                                     !.prev[back] = x1],
             freed |-> s.freed \cup {pivot}, item |-> dt[x1]]
      <3>1. s.heap.next[x1] = pivot /\ s.heap.next[pivot] = after
        BY <2>6
      <3> QED
        BY <1>11, <3>1 DEF Draining, back
    <2> DEFINE h2 == [s.heap EXCEPT !.next[x1] = after, !.data[x1] = dt[pivot], !.prev[back] = x1]
    <2>10. h2 \in Heaps /\ h2.next = nx2 /\ h2.prev = pv2 /\ h2.data = dt2
      <3>1. after \in Node \cup {NULL}
        BY <2>8 DEF back
      <3> QED
        BY <1>9, <2>5, <2>8, <3>1 DEF Heaps, Links
    <2> HIDE DEF h2
    <2>11. /\ r.heap = h2 /\ r.freed = s.freed \cup {pivot} /\ r.item = dt[x1]
           /\ r.heap.next = nx2 /\ r.heap.prev = pv2 /\ r.heap.data = dt2
           /\ r = [heap |-> h2, freed |-> s.freed \cup {pivot}, item |-> dt[x1]]
      <3> DEFINE r1 == [heap |-> h2, freed |-> s.freed \cup {pivot}, item |-> dt[x1]]
      <3>1. r = r1
        BY <2>9, Zenon DEF h2, x1
      <3>2. r1.heap = h2 /\ r1.freed = s.freed \cup {pivot} /\ r1.item = dt[x1]
        OBVIOUS
      <3> HIDE DEF r, r1
      <3>3. /\ r.heap = h2 /\ r.freed = s.freed \cup {pivot} /\ r.item = dt[x1]
            /\ r.heap.next = nx2 /\ r.heap.prev = pv2 /\ r.heap.data = dt2
        BY <2>10, <3>1, <3>2
      <3> QED
        BY <3>1, <3>3 DEF r1
    <2>12. r \in Drains
      BY <1>9, <2>5, <2>10, <2>11 DEF Drains
    <2> HIDE DEF r
    <2>13. /\ nx2[x1] = after /\ \A x \in Node : x # x1 => nx2[x] = nx[x]
           /\ dt2[x1] = dt[pivot] /\ \A x \in Node : x # x1 => dt2[x] = dt[x]
           /\ pv2[back] = x1 /\ \A x \in Node : x # back => pv2[x] = pv[x]
      BY <1>9, <2>5, <2>8 DEF Links
    <2> HIDE DEF nx2, pv2, dt2
    <2>14. r.freed = {c[i] : i \in 2..(j+1)+1}
      <3>1. \A i : i \in 2..(j+1)+1 <=> i \in 2..j+1 \/ i = j + 2
        BY <2>4
      <3> QED
        BY <1>6, <2>11, <3>1 DEF pivot
    <2>15. r.item = data[c[j+1]] /\ j + 1 # 0
      BY <1>7, <2>4, <2>11 DEF x1
    <2>16. \A i \in 1..(j+1)-1 : data[c[i]].value = NULL
      <3>1. \A i \in 1..(j+1)-1 : i \in 1..j
        BY <2>4
      <3> QED
        BY <2>1, <3>1
    <2>17. r.heap.next[c[1]] = next[c[(j+1)+1]] /\ r.heap.data[c[1]] = data[c[(j+1)+1]]
      BY <2>4, <2>6, <2>11, <2>13 DEF x1, pivot, after
    <2>18. \A x \in Node : x # c[1] => r.heap.next[x] = next[x] /\ r.heap.data[x] = data[x]
      BY <1>7, <2>11, <2>13 DEF x1
    <2>19. r.heap.prev[c[1]] = IF j + 1 = n THEN c[1] ELSE c[n+1]
      <3>1. CASE j + 1 = n
        <4>1. back = x1
          BY <2>7, <3>1, <1>1, <2>4
        <4> QED
          BY <2>11, <2>13, <3>1, <4>1 DEF x1
      <3>2. CASE j + 1 # n
        <4>1. j + 2 # n + 1 /\ j + 3 \in 1..n+1 /\ j + 3 # 1 /\ j # n
          BY <1>1, <2>3, <2>4, <3>2
        <4>2. back = c[j+3] /\ back # x1
          BY <1>2, <2>4, <2>7, <4>1 DEF x1
        <4> QED
          BY <1>7, <2>5, <2>11, <2>13, <3>2, <4>1, <4>2 DEF x1
      <3> QED
        BY <3>1, <3>2
    <2>20. j + 1 < n => r.heap.prev[c[(j+1)+2]] = c[1]
      <3> SUFFICES ASSUME j + 1 < n PROVE r.heap.prev[c[(j+1)+2]] = c[1]
        OBVIOUS
      <3>1. j + 2 # n + 1 /\ (j + 1) + 2 = j + 3
        BY <1>1, <2>4
      <3> QED
        BY <2>7, <2>11, <2>13, <3>1 DEF x1
    <2>21. ASSUME NEW x \in Node, \A i \in 1..n+1 : x = c[i] => i > (j+1) + 2
           PROVE  r.heap.prev[x] = prev[x]
      <3>1. \A i \in 1..n+1 : x = c[i] => i > j + 2
        BY <2>4, <2>21
      <3>2. x # back
        <4>1. x # c[1]
          BY <2>4, <2>21
        <4>2. j + 2 # n + 1 => x # c[j+3]
          <5>1. j + 2 # n + 1 => j + 3 \in 1..n+1 /\ ~(j + 3 > (j+1) + 2)
            BY <1>1, <2>4
          <5> QED
            BY <2>21, <5>1
        <4> QED
          BY <2>7, <4>1, <4>2 DEF x1
      <3> QED
        BY <1>7, <2>11, <2>13, <3>1, <3>2
    <2>22. Owned(Cleared(r), mine \cup StringOf(r.item))
      <3> DEFINE d == Cleared(s)
      <3>1. d \in [Node -> Item]
        <4>1. Blank \in Item
          BY DEF Blank, Item
        <4> QED
          BY <1>9, <4>1 DEF Cleared
      <3>2. x1 \notin s.freed
        <4>1. \A i \in 2..j+1 : i \in 1..n+1 /\ i # 1
          BY <1>1, <2>4
        <4> QED
          BY <1>2, <1>6, <2>4, <4>1 DEF x1
      <3>3. pivot \notin s.freed
        <4>1. \A i \in 2..j+1 : i \in 1..n+1 /\ i # j + 2
          BY <1>1, <2>4
        <4> QED
          BY <1>2, <1>6, <2>4, <4>1 DEF pivot
      <3>4. d[x1] = dt[x1] /\ d[pivot] = dt[pivot]
        BY <2>5, <3>2, <3>3 DEF Cleared
      <3>5. Cleared(r) = [d EXCEPT ![x1] = d[pivot], ![pivot] = Blank]
        <4>1. ASSUME NEW x \in Node
              PROVE  Cleared(r)[x] = [d EXCEPT ![x1] = d[pivot], ![pivot] = Blank][x]
          <5>1. Cleared(r)[x] = IF x \in s.freed \cup {pivot} THEN Blank ELSE dt2[x]
            BY <2>11 DEF Cleared
          <5>2. CASE x = pivot
            BY <2>5, <3>1, <5>1, <5>2
          <5>3. CASE x = x1
            BY <2>5, <2>13, <3>1, <3>2, <3>4, <5>1, <5>3
          <5>4. CASE x # pivot /\ x # x1
            <6>1. d[x] = IF x \in s.freed THEN Blank ELSE dt[x]
              BY DEF Cleared
            <6> QED
              BY <2>5, <2>13, <3>1, <5>1, <5>4, <6>1
          <5> QED
            BY <5>2, <5>3, <5>4
        <4>2. Cleared(r) = [x \in Node |-> Cleared(r)[x]]
          BY DEF Cleared
        <4>3. [d EXCEPT ![x1] = d[pivot], ![pivot] = Blank] =
                [x \in Node |-> [d EXCEPT ![x1] = d[pivot], ![pivot] = Blank][x]]
          BY <3>1
        <4> HIDE DEF d
        <4> QED
          BY <4>1, <4>2, <4>3
      <3>6. mine \cup StringOf(s.item) = mine
        BY <1>11 DEF StringOf
      <3> HIDE DEF d
      <3>7. Owned(d, mine)
        BY <1>8, <3>6 DEF d
      <3>8. Owned(Cleared(r), mine \cup StringOf(d[x1]))
        BY <2>5, <3>1, <3>5, <3>7, OwnedDropped
      <3> QED
        BY <2>11, <3>4, <3>8
    <2>23. Gone(c, r, j + 1)
      <3>1. j + 1 \in 0..n
        BY <2>4
      <3> HIDE DEF Cleared
      <3> QED
        BY <2>14, <2>15, <2>16, <2>17, <2>18, <2>19, <2>20, <2>21, <2>22, <3>1 DEF Gone, n
    <2> QED
      BY <1>11, <2>12, <2>23 DEF r
  <1> QED
    BY <1>10, <1>11

\* The whole loop ends at the first item with a value.
LEMMA DrainedIsGone ==
    ASSUME HeapInv, NEW c, IsList(c, next, prev, data),
           \E i \in 1..Len(c) : data[c[i]].value # NULL,
           NEW s \in Drains, Gone(c, s, 0)
    PROVE  \E t \in Drains : \E j : /\ Gone(c, t, j) /\ t.item.value # NULL
                                   /\ Drained(s, c[1], Len(c)) = t
  <1> DEFINE S == {t \in Drains : \E j : Gone(c, t, j)}
             max == Len(c)
             step == [t \in S |-> Draining(t, c[1])]
             D(f) == [k \in 0..max |-> IF k = 0 THEN s ELSE Draining(f[k-1], c[1])]
             w == CHOOSE f : f = D(f)
  <1>1. max \in Nat /\ max # 0
    BY DEF IsList
  <1>2. s \in S /\ step \in [S -> S]
    <2>1. ASSUME NEW t \in S PROVE Draining(t, c[1]) \in S
      <3>1. PICK j : Gone(c, t, j)
        OBVIOUS
      <3>2. /\ Draining(t, c[1]) \in Drains
            /\ Gone(c, Draining(t, c[1]), IF t.item.value # NULL THEN j ELSE j + 1)
        BY <3>1, RoundDrains
      <3> QED
        BY <3>2
    <2>2. s \in S
      OBVIOUS
    <2> HIDE DEF S
    <2> QED
      BY <2>1, <2>2
  <1>3. \E f : f = D(f)
    <2> HIDE DEF S, max
    <2>0. PICK f : Rounds(f, max, S, s, step)
      <3> HIDE DEF step
      <3> QED
        BY <1>1, <1>2, LoopRuns
    <2>1. /\ f \in [0..max -> S]
          /\ f = [k \in 0..max |-> IF k = 0 THEN s ELSE step[f[k-1]]]
      <3> HIDE DEF step
      <3> QED
        BY <2>0 DEF Rounds
    <2>2. ASSUME NEW k \in 0..max
          PROVE  (IF k = 0 THEN s ELSE step[f[k-1]])
                   = (IF k = 0 THEN s ELSE Draining(f[k-1], c[1]))
      <3>1. CASE k # 0
        <4>1. k - 1 \in 0..max
          BY <1>1, <3>1
        <4>2. f[k-1] \in S
          BY <2>1, <4>1
        <4> QED
          BY <3>1, <4>2
      <3> QED
        BY <3>1
    <2>3. D(f) = [k \in 0..max |-> IF k = 0 THEN s ELSE step[f[k-1]]]
      <3> HIDE DEF step
      <3> QED
        BY <2>2
    <2>4. f = D(f)
      <3> HIDE DEF D, step
      <3> QED
        BY <2>1, <2>3
    <2> QED
      BY <2>4
  <1>4. w = D(w)
    <2> HIDE DEF D
    <2> QED
      BY <1>3
  <1> HIDE DEF w
  <1>5. w[0] = s /\ \A k \in 1..max : w[k] = Draining(w[k-1], c[1])
    <2>1. \A k \in 0..max : w[k] = IF k = 0 THEN s ELSE Draining(w[k-1], c[1])
      BY <1>4
    <2> QED
      BY <2>1, <1>1
  <1> DEFINE P == {k \in Nat : /\ w[k] \in Drains
                               /\ \E j : Gone(c, w[k], j) /\ (j = k \/ w[k].item.value # NULL)}
  <1>6. 0 \in P
    BY <1>5
  <1>7. ASSUME NEW k \in 1..max, k - 1 \in P PROVE k \in P
    <2>1. PICK j : Gone(c, w[k-1], j) /\ (j = k - 1 \/ w[k-1].item.value # NULL)
      BY <1>7
    <2>2. w[k-1] \in Drains /\ w[k] = Draining(w[k-1], c[1])
      BY <1>5, <1>7
    <2>3. /\ w[k] \in Drains
          /\ Gone(c, w[k], IF w[k-1].item.value # NULL THEN j ELSE j + 1)
      BY <2>1, <2>2, RoundDrains
    <2>4. CASE w[k-1].item.value # NULL
      <3>1. w[k] = w[k-1]
        BY <2>2, <2>4 DEF Draining
      <3> QED
        BY <2>1, <2>2, <2>4, <3>1
    <2>5. CASE w[k-1].item.value = NULL
      <3>1. j + 1 = k
        BY <2>1, <2>5
      <3> QED
        BY <2>3, <2>5, <3>1
    <2> QED
      BY <2>4, <2>5
  <1>8. max \in P
    <2>1. P \in SUBSET Nat /\ max \in 0..max
      BY <1>1
    <2> HIDE DEF P
    <2> QED
      BY <1>1, <1>6, <1>7, <2>1, StepByStep
  <1>9. PICK j : Gone(c, w[max], j) /\ (j = max \/ w[max].item.value # NULL)
    BY <1>8
  <1>10. j # max
    <2>1. j \in 0..Len(c) - 1
      BY <1>9 DEF Gone
    <2> QED
      BY <1>1, <2>1
  <1>11. Drained(s, c[1], max) = w[max]
    BY DEF Drained, w
  <1> QED
    BY <1>8, <1>9, <1>10, <1>11

\* What a call that drains leaves: what follows the k-th item, the first with a value.
Skipped(h) ==
    /\ head[h] # NULL /\ Moves({h}, {}) /\ Owned(data', mine')
    /\ \E k \in 1..Len(ItemsOf(h)) :
          /\ ItemsOf(h)[k].value # NULL /\ \A j \in 1..k-1 : ItemsOf(h)[j].value = NULL
          /\ ItemsOf(h)' = SubSeq(ItemsOf(h), k + 1, Len(ItemsOf(h)))

LEMMA NotZeroCall ==
    ASSUME HeapInv, Owned(data, mine), NEW h \in Handle, xlist_popv_notzero(h)
    PROVE  Skipped(h)
  <1> DEFINE c == chain[h]
             n == Len(c) - 1
             s == [heap |-> Heap, freed |-> {}, item |-> Blank]
             t == Drained(s, c[1], Len(c))
             hp == Blanked(t.heap, t.freed)
  <1>1. /\ IsList(c, next, prev, data) /\ c \in Seq(Node) /\ Len(c) \in Nat \ {0}
        /\ \A k \in 1..Len(c) : c[k] \in Node
        /\ c[1] = head[h] /\ prev[head[h]] = c[Len(c)] /\ Range(c) \subseteq alive
        /\ head[h] \in Node /\ head[h] # NULL
    BY HeldList DEF xlist_popv_notzero
  <1>2. /\ \E i \in 1..Len(c) : data[c[i]].value # NULL
        /\ Becomes(hp)
        /\ alive' = alive \ t.freed
        /\ mine' = mine \cup StringOf(t.item)
        /\ chain' = [chain EXCEPT ![h] = Walk(hp, c[1], Len(c))]
        /\ UNCHANGED <<head, loose>>
    BY <1>1 DEF xlist_popv_notzero
  <1> HIDE DEF c
  <1>3. n \in Nat /\ n + 1 = Len(c) /\ \A i \in 1..n+1 : c[i] \in Node
    BY <1>1
  <1>4. \A i, k \in 1..n+1 : c[i] = c[k] => i = k
    BY <1>1, <1>3 DEF IsList
  <1>5. \A i \in 1..n : next[c[i]] = c[i+1] /\ prev[c[i+1]] = c[i]
    BY <1>1 DEF IsList
  <1>6. next[c[n+1]] = NULL /\ prev[c[1]] = c[n+1] /\ data[c[n+1]] = Blank
    BY <1>1, <1>3 DEF IsList
  <1>7. Heap \in Heaps /\ Heap.next = next /\ Heap.prev = prev /\ Heap.data = data
    BY HeapIs
  <1>8. s \in Drains /\ s.heap = Heap /\ s.freed = {} /\ s.item = Blank
    <2>1. Blank \in Item
      BY DEF Blank, Item
    <2> QED
      BY <1>7, <2>1 DEF Drains
  <1> HIDE DEF n
  <1>9. Gone(c, s, 0)
    <2>1. {c[i] : i \in 2..0+1} = {}
      OBVIOUS
    <2>2. Owned(Cleared(s), mine \cup StringOf(s.item))
      <3>1. Cleared(s) = data
        <4>1. data \in [Node -> Item]
          BY DEF HeapInv
        <4> HIDE DEF s
        <4> QED
          BY <1>7, <1>8, <4>1 DEF Cleared
      <3>2. mine \cup StringOf(s.item) = mine
        BY <1>8, BlankHasNone
      <3> QED
        BY <3>1, <3>2
    <2>3. s.heap.prev[c[1]] = IF 0 = n THEN c[1] ELSE c[n+1]
      <3>1. 0 = n => n + 1 = 1
        BY <1>3
      <3>2. prev[c[1]] = IF 0 = n THEN c[1] ELSE c[n+1]
        BY <1>6, <3>1
      <3> HIDE DEF s
      <3> QED
        BY <1>7, <1>8, <3>2
    <2>4. 0 < n => s.heap.prev[c[0+2]] = c[1]
      <3>1. 0 < n => 1 \in 1..n /\ 1 + 1 = 2
        BY <1>3
      <3>2. 0 < n => prev[c[2]] = c[1]
        BY <1>5, <3>1
      <3> HIDE DEF s
      <3> QED
        BY <1>7, <1>8, <3>2
    <2> HIDE DEF s
    <2>5. 0 \in 0..n /\ \A i \in 1..0-1 : data[c[i]].value = NULL
      BY <1>3
    <2> QED
      BY <1>7, <1>8, <2>1, <2>2, <2>3, <2>4, <2>5 DEF Gone, n
  <1> HIDE DEF s
  <1>10. PICK j : t \in Drains /\ Gone(c, t, j) /\ t.item.value # NULL
    BY <1>1, <1>2, <1>8, <1>9, DrainedIsGone
  <1> HIDE DEF t
  <1>11. /\ j \in 0..n
         /\ t.freed = {c[i] : i \in 2..j+1}
         /\ t.item = IF j = 0 THEN Blank ELSE data[c[j]]
         /\ \A i \in 1..j-1 : data[c[i]].value = NULL
    BY <1>10 DEF Gone, n
  <1>12. /\ t.heap.next[c[1]] = next[c[j+1]] /\ t.heap.data[c[1]] = data[c[j+1]]
         /\ \A x \in Node : x # c[1] => t.heap.next[x] = next[x] /\ t.heap.data[x] = data[x]
         /\ t.heap.prev[c[1]] = IF j = n THEN c[1] ELSE c[n+1]
         /\ j < n => t.heap.prev[c[j+2]] = c[1]
         /\ \A x \in Node : (\A i \in 1..n+1 : x = c[i] => i > j + 2) => t.heap.prev[x] = prev[x]
    BY <1>10 DEF Gone, n
  <1>13. Owned(Cleared(t), mine \cup StringOf(t.item))
    BY <1>10 DEF Gone
  <1>14. /\ t.heap \in Heaps /\ t.heap.next \in Links /\ t.heap.prev \in Links
         /\ t.heap.data \in [Node -> Item] /\ t.freed \in SUBSET Node /\ t.item \in Item
    BY <1>10 DEF Drains, Heaps
  <1>15. j \in 1..n /\ data[c[j]].value # NULL
    <2>1. j # 0
      BY <1>10, <1>11 DEF Blank
    <2> QED
      BY <1>10, <1>11, <2>1
  <1>16. /\ next' = [x \in Node |-> IF x \in t.freed THEN NULL ELSE t.heap.next[x]]
         /\ prev' = [x \in Node |-> IF x \in t.freed THEN NULL ELSE t.heap.prev[x]]
         /\ data' = Cleared(t)
         /\ hp.next = next'
    BY <1>2 DEF Becomes, Blanked, Cleared
  <1> HIDE DEF hp
  <1> DEFINE at(i) == IF i = 1 THEN 1 ELSE i + j
             u == [i \in 1..n+1-j |-> c[at(i)]]
  <1>17. /\ n + 1 - j \in Nat \ {0} /\ \A i \in 1..n+1-j : at(i) \in 1..n+1 /\ c[at(i)] \in Node
         /\ at(1) = 1 /\ 1 \in 1..n+1-j /\ 1 \in 1..n+1 /\ n+1-j \in 1..n+1-j
    BY <1>3, <1>15
  <1>18. u \in Seq(Node) /\ Len(u) = n + 1 - j /\ \A i \in 1..n+1-j : u[i] = c[at(i)]
    <2> HIDE DEF at
    <2> QED
      BY <1>17
  <1>19. \A i \in 1..n+1-j : u[i] \notin t.freed
    <2> TAKE i \in 1..n+1-j
    <2>1. \A k \in 2..j+1 : k \in 1..n+1 /\ k # at(i)
      BY <1>3, <1>15
    <2>2. \A k \in 2..j+1 : c[k] # c[at(i)]
      BY <1>4, <1>17, <2>1
    <2> QED
      BY <1>11, <1>18, <2>2
  <1>20. \A i, k \in 1..n+1-j : u[i] = u[k] => i = k
    <2> TAKE i, k \in 1..n+1-j
    <2>1. at(i) = at(k) => i = k
      BY <1>3, <1>15
    <2> QED
      BY <1>4, <1>17, <1>18, <2>1
  <1>21. ASSUME NEW i \in 1..(n+1-j)-1
         PROVE  next'[u[i]] = u[i+1] /\ prev'[u[i+1]] = u[i] /\ u[i+1] # NULL
    <2>1. /\ i \in 1..n+1-j /\ i + 1 \in 1..n+1-j /\ at(i+1) = i + 1 + j /\ j < n
          /\ i + j \in 1..n /\ i # n + 1 - j
      BY <1>3, <1>15, <1>17
    <2>2. u[i] \in Node /\ u[i+1] \in Node /\ u[i+1] = c[i+1+j]
      BY <1>17, <1>18, <2>1
    <2>3. next'[u[i]] = t.heap.next[u[i]] /\ prev'[u[i+1]] = t.heap.prev[u[i+1]]
      BY <1>16, <1>19, <2>1, <2>2
    <2>4. CASE i = 1
      <3>1. u[i] = c[1] /\ u[i+1] = c[j+2] /\ j + 1 \in 1..n /\ (j+1)+1 = j+2
        BY <1>3, <1>15, <1>17, <1>18, <2>1, <2>2, <2>4
      <3>2. next[c[j+1]] = c[j+2]
        BY <1>5, <3>1
      <3> QED
        BY <1>12, <2>1, <2>2, <2>3, <3>1, <3>2
    <2>5. CASE i # 1
      <3>1. u[i] = c[i+j] /\ u[i+1] = c[(i+j)+1]
        <4>1. at(i) = i + j /\ i + 1 + j = (i + j) + 1
          BY <1>3, <1>15, <2>5
        <4> QED
          BY <1>18, <2>1, <2>2, <4>1
      <3>2. next[c[i+j]] = c[(i+j)+1] /\ prev[c[(i+j)+1]] = c[i+j]
        BY <1>5, <2>1
      <3>3. u[i] # c[1]
        BY <1>17, <1>18, <1>20, <2>1, <2>5
      <3>4. \A k \in 1..n+1 : u[i+1] = c[k] => k > j + 2
        <4> TAKE k \in 1..n+1
        <4>1. (i+j)+1 \in 1..n+1 /\ (i+j)+1 > j + 2
          BY <1>3, <1>15, <2>1, <2>5
        <4> QED
          BY <1>4, <3>1, <4>1
      <3> QED
        <4>1. t.heap.next[u[i]] = next[u[i]]
          BY <1>12, <2>2, <3>3
        <4>2. t.heap.prev[u[i+1]] = prev[u[i+1]]
          BY <1>12, <2>2, <3>4
        <4> QED
          BY <2>2, <2>3, <3>1, <3>2, <4>1, <4>2, ListAssumption
    <2> QED
      BY <2>4, <2>5
  <1>22. next'[u[n+1-j]] = NULL /\ prev'[u[1]] = u[n+1-j] /\ data'[u[n+1-j]] = Blank
    <2>1. /\ u[n+1-j] \in Node /\ u[1] = c[1] /\ c[1] \in Node
      BY <1>17, <1>18
    <2>2. /\ next'[u[n+1-j]] = t.heap.next[u[n+1-j]] /\ prev'[u[1]] = t.heap.prev[c[1]]
          /\ data'[u[n+1-j]] = t.heap.data[u[n+1-j]]
      BY <1>16, <1>17, <1>19, <2>1 DEF Cleared
    <2>3. CASE j = n
      <3>1. u[n+1-j] = c[1] /\ next[c[j+1]] = NULL /\ data[c[j+1]] = Blank
        <4>1. n + 1 - j = 1
          BY <1>3, <2>3
        <4> QED
          BY <1>6, <2>1, <2>3, <4>1
      <3> QED
        <4>1. /\ t.heap.next[c[1]] = NULL /\ t.heap.data[c[1]] = Blank
              /\ t.heap.prev[c[1]] = c[1]
          BY <1>12, <2>3, <3>1
        <4> QED
          BY <2>1, <2>2, <3>1, <4>1
    <2>4. CASE j # n
      <3>1. n + 1 - j # 1 /\ at(n+1-j) = n + 1
        BY <1>3, <1>15, <2>4
      <3>2. u[n+1-j] = c[n+1] /\ c[n+1] # c[1]
        BY <1>17, <1>18, <1>20, <2>1, <3>1
      <3> QED
        <4>1. /\ t.heap.next[c[n+1]] = next[c[n+1]] /\ t.heap.data[c[n+1]] = data[c[n+1]]
          BY <1>12, <2>1, <3>2
        <4>2. t.heap.prev[c[1]] = c[n+1]
          BY <1>12, <2>4
        <4> QED
          BY <1>6, <2>1, <2>2, <3>2, <4>1, <4>2
    <2> QED
      BY <2>3, <2>4
  <1> HIDE DEF u
  <1>23. IsList(u, next', prev', data')
    BY <1>17, <1>18, <1>20, <1>21, <1>22 DEF IsList
  <1>24. Walk(hp, c[1], Len(c)) = u
    <2>1. Path(hp, u)
      <3>1. u = [k \in 1..Len(u) |-> u[k]]
        BY <1>18
      <3> QED
        BY <1>16, <1>17, <1>18, <1>21, <1>22, <3>1 DEF Path
    <2>2. Len(u) <= Len(c) /\ u[1] = c[1]
      BY <1>3, <1>15, <1>17, <1>18
    <2> QED
      BY <1>1, <2>1, <2>2, WalkIs
  <1>25. \A x \in Node : x \in Range(c) <=> x \in Range(u) \/ x \in t.freed
    <2>1. Range(c) = {c[k] : k \in 1..n+1} /\ Range(u) = {u[k] : k \in 1..n+1-j}
      BY <1>1, <1>3, <1>18, RangeIs, SMTT(20)
    <2>2. \A k \in 1..n+1-j : u[k] \in Range(c)
      BY <1>17, <1>18, <2>1
    <2>3. \A k \in 2..j+1 : c[k] \in Range(c)
      BY <1>3, <1>15, <2>1
    <2>4. ASSUME NEW k \in 1..n+1 PROVE c[k] \in Range(u) \/ c[k] \in t.freed
      <3>1. CASE k = 1
        BY <1>17, <1>18, <2>1, <3>1
      <3>2. CASE k \in 2..j+1
        BY <1>11, <3>2
      <3>3. CASE k > j + 1
        <4>1. k - j \in 1..n+1-j /\ at(k-j) = k
          BY <1>3, <1>15, <3>3
        <4> QED
          BY <1>18, <2>1, <4>1
      <3> QED
        BY <3>1, <3>2, <3>3, <1>3, <1>15
    <2> QED
      BY <1>11, <2>1, <2>2, <2>3, <2>4
  <1>26. \A i \in 1..n+1-j : u[i] \in Range(u)
    BY <1>18 DEF Range
  <1>27. Range(u) \cap t.freed = {}
    <2>1. Range(u) = {u[k] : k \in 1..n+1-j}
      BY <1>18, RangeIs
    <2> QED
      BY <1>19, <2>1
  <1>28. MovesOne(h, u, {})
    <2>1. /\ alive \subseteq Node /\ next \in Links /\ prev \in Links
          /\ head \in [Handle -> Node \cup {NULL}]
          /\ \A x \in Node \ alive : next[x] = NULL /\ prev[x] = NULL /\ data[x] = Blank
      BY DEF HeapInv, Blanks
    <2>2. ASSUME NEW x \in Node \ Range(c)
          PROVE  /\ x \notin t.freed /\ t.heap.next[x] = next[x] /\ t.heap.prev[x] = prev[x]
                 /\ t.heap.data[x] = data[x]
      <3>1. \A i \in 1..n+1 : c[i] \in Range(c)
        BY <1>1, <1>3 DEF Range
      <3>2. x # c[1] /\ \A i \in 1..n+1 : x # c[i]
        BY <1>17, <3>1
      <3> QED
        BY <1>12, <1>25, <3>2
    <2>3. \A x \in Node \ Range(c) : next'[x] = next[x] /\ prev'[x] = prev[x] /\ data'[x] = data[x]
      BY <1>16, <2>2 DEF Cleared
    <2>4. Holds(u, head'[h], next', prev', data')
      <3>1. u[1] = head[h]
        BY <1>1, <1>17, <1>18
      <3> QED
        BY <1>1, <1>2, <1>23, <3>1 DEF Holds
    <2>5. next' \in Links /\ prev' \in Links /\ data' \in [Node -> Item]
      <3>1. Blank \in Item
        BY DEF Blank, Item
      <3> QED
        BY <1>14, <1>16, <3>1 DEF Cleared, Links
    <2>6. alive' = (alive \ Range(c)) \cup Range(u) \cup {}
      <3>1. \A x : x \in Range(u) => x \in Node
        BY <1>18 DEF Range
      <3>2. \A x : x \in alive' <=> x \in alive /\ x \notin t.freed
        BY <1>2
      <3>3. ASSUME NEW x PROVE x \in alive' <=> (x \in alive /\ x \notin Range(c)) \/ x \in Range(u)
        <4>1. CASE x \in Node
          BY <1>1, <1>25, <1>27, <3>2, <4>1
        <4>2. CASE x \notin Node
          BY <2>1, <3>1, <3>2, <4>2
        <4> QED
          BY <4>1, <4>2
      <3> QED
        BY <3>3
    <2>7. Range(u) \subseteq Range(c)
      <3>1. Range(u) \subseteq Node
        BY <1>18 DEF Range
      <3> QED
        BY <1>25, <3>1
    <2>8. \A x \in Node \ alive' : next'[x] = NULL /\ prev'[x] = NULL /\ data'[x] = Blank
      <3> TAKE x \in Node \ alive'
      <3>1. CASE x \in t.freed
        BY <1>16, <3>1 DEF Cleared
      <3>2. CASE x \notin t.freed
        <4>1. x \in Node \ alive
          BY <1>2, <3>2
        <4> QED
          BY <1>1, <2>1, <2>3, <4>1
      <3> QED
        BY <3>1, <3>2
    <2>9. chain' = [chain EXCEPT ![h] = u]
      BY <1>2, <1>24
    <2>10. \A x \in alive \ Range(chain[h]) :
              next'[x] = next[x] /\ prev'[x] = prev[x] /\ data'[x] = data[x]
      BY <2>1, <2>3 DEF c
    <2> QED
      BY <1>2, <1>18, <2>1, <2>4, <2>5, <2>6, <2>7, <2>8, <2>9, <2>10 DEF MovesOne, c
  <1>29. Moves({h}, {})
    BY <1>28, OneMoves
  <1>30. Owned(data', mine')
    BY <1>2, <1>13, <1>16
  <1>31. /\ ItemsOf(h) \in Seq(Item) /\ Len(ItemsOf(h)) = n
         /\ \A k \in 1..n : ItemsOf(h)[k] = data[c[k]]
    BY <1>1, ItemsOfList DEF c, n
  <1>32. ItemsOf(h)' = SubSeq(ItemsOf(h), j + 1, n)
    <2>1. chain'[h] = u
      BY <1>2, <1>24 DEF HeapInv
    <2>2. ItemsOf(h)' = [k \in 1..(n+1-j)-1 |-> data'[u[k]]]
      BY <1>1, <1>2, <1>18, <2>1 DEF ItemsOf
    <2>4. (n+1-j)-1 = n - j /\ n-(j+1)+1 = n - j
      BY <1>3, <1>15
    <2> DEFINE b == SubSeq(ItemsOf(h), j + 1, n)
    <2>3. b = [k \in 1..n-j |-> ItemsOf(h)[(j+1)+k-1]]
      <3>1. j + 1 \in Int /\ n \in Int /\ \A i \in j+1..n : i \in 1..n
        BY <1>3, <1>15
      <3>2. \A i \in j+1..n : ItemsOf(h)[i] \in Item
        BY <1>31, <3>1
      <3>3. /\ b \in Seq(Item) /\ Len(b) = IF j+1 <= n THEN n-(j+1)+1 ELSE 0
            /\ \A i \in 1..n-(j+1)+1 : b[i] = ItemsOf(h)[(j+1)+i-1]
        BY <3>1, <3>2, SubSeqProperties
      <3>4. Len(b) = n - j
        BY <1>3, <1>15, <3>3
      <3> HIDE DEF b
      <3>5. b = [k \in 1..n-j |-> b[k]]
        BY <3>3, <3>4
      <3>6. \A k \in 1..n-j : b[k] = ItemsOf(h)[(j+1)+k-1]
        BY <2>4, <3>3
      <3> QED
        BY <3>5, <3>6
    <2>5. ASSUME NEW k \in 1..n-j PROVE data'[u[k]] = ItemsOf(h)[(j+1)+k-1]
      <3>1. k \in 1..n+1-j /\ (j+1)+k-1 = j+k /\ j + k \in 1..n
        BY <1>3, <1>15
      <3>2. u[k] \in Node /\ data'[u[k]] = t.heap.data[u[k]] /\ u[k] = c[at(k)]
        BY <1>16, <1>17, <1>18, <1>19, <3>1 DEF Cleared
      <3>3. CASE k = 1
        <4>1. at(k) = 1 /\ j + k = j + 1
          BY <3>3
        <4> QED
          BY <1>12, <1>31, <3>1, <3>2, <4>1
      <3>4. CASE k # 1
        <4>0. u[1] = c[1] /\ 1 \in 1..n+1-j
          BY <1>17, <1>18
        <4>1. at(k) = j + k /\ u[k] # c[1]
          <5>1. u[k] # u[1]
            BY <1>20, <3>1, <3>4, <4>0
          <5>2. at(k) = j + k
            BY <1>15, <3>1, <3>4
          <5> QED
            BY <4>0, <5>1, <5>2
        <4> QED
          BY <1>12, <1>31, <3>1, <3>2, <4>1
      <3> QED
        BY <3>3, <3>4
    <2> QED
      BY <2>2, <2>3, <2>4, <2>5
  <1>33. \A i \in 1..j-1 : ItemsOf(h)[i].value = NULL
    <2>1. \A i \in 1..j-1 : i \in 1..n
      BY <1>3, <1>15
    <2> QED
      BY <1>11, <1>31, <2>1
  <1>34. ItemsOf(h)[j].value # NULL
    BY <1>15, <1>31
  <1> QED
    BY <1>1, <1>15, <1>29, <1>30, <1>31, <1>32, <1>33, <1>34 DEF Skipped

\* In Lists: so many items go.
LEMMA NotZeroIsSkip ==
    ASSUME HeapInv, Owned(data, mine), NEW h \in Handle, xlist_popv_notzero(h)
    PROVE  (\E k \in 1..Len(ItemsOf(h)) : Abstract!Skip(h, k)) /\ ItemsOf(h) # NULL
  <1>1. Skipped(h)
    BY NotZeroCall
  <1>2. head[h] # NULL /\ Moves({h}, {})
    BY <1>1 DEF Skipped
  <1>3. PICK k \in 1..Len(ItemsOf(h)) :
           ItemsOf(h)' = SubSeq(ItemsOf(h), k + 1, Len(ItemsOf(h)))
    BY <1>1 DEF Skipped
  <1>4. AllItems' = [AllItems EXCEPT ![h] = SubSeq(AllItems[h], k + 1, Len(AllItems[h]))]
    <2>1. AllItems[h] = ItemsOf(h)
      BY DEF AllItems
    <2> QED
      BY <1>2, <1>3, <2>1, OneListChanges
  <1>5. TakenItems' = TakenItems
    <2>1. {h} \in SUBSET Handle
      OBVIOUS
    <2> QED
      BY <1>2, <2>1, TakenStay
  <1>6. Abstract!Skip(h, k)
    BY <1>4, <1>5 DEF Abstract!Skip, AllItems, TakenItems
  <1> QED
    BY <1>2, <1>6, ItemsOfList

-----------------------------------------------------------------------------
(* xlist_dup.                                                              *)

\* The nodes and the strings of a copy of the list c.
Fresh(c, s, t) ==
    /\ s \in [1..Len(c) -> Node \ alive] /\ IsInjective(s)
    /\ t \in [1..Len(c) -> mine \cup {NULL}]
    /\ \A j, k \in DOMAIN t : t[j] = t[k] => j = k \/ t[j] = NULL
    /\ \A k \in 1..Len(c) : (StringOf(data[c[k]]) # {}) <=> (t[k] # NULL)

\* The k-th item of the copy.
CopyOf(c, t, k) == CopyItem(data[c[k]], t[k])

\* What a copy leaves: another list, with the same items but for their strings.
Copied(h, g) ==
    /\ head[h] # NULL /\ head[g] = NULL /\ head'[g] # NULL
    /\ Moves({g}, {}) /\ Owned(data', mine')
    /\ Len(chain'[g]) = Len(chain[h])
    /\ \A k \in 1..Len(chain[h]) - 1 :
          data'[chain'[g][k]] =
             [data[chain[h][k]] EXCEPT !.value = data'[chain'[g][k]].value]
    /\ \A k \in 1..Len(chain[h]) - 1 :
          IF StringOf(data[chain[h][k]]) = {} THEN data'[chain'[g][k]] = data[chain[h][k]]
          ELSE data'[chain'[g][k]].value \in mine

LEMMA DupCall ==
    ASSUME HeapInv, Owned(data, mine), NEW h \in Handle, NEW g \in Handle, NEW s, NEW t,
           Fresh(chain[h], s, t), xlist_dup(h, g, s, t)
    PROVE  Copied(h, g)
  <1> DEFINE c == chain[h]
             n == Len(c) - 1
             At(x) == CHOOSE k \in 1..Len(s) : s[k] = x
  <1>1. /\ head[h] # NULL /\ head[g] = NULL
        /\ head' = [head EXCEPT ![g] = s[1]] /\ alive' = alive \cup Range(s)
        /\ chain' = [chain EXCEPT ![g] = s] /\ loose' = loose
    BY DEF xlist_dup
  <1>2. /\ IsList(c, next, prev, data) /\ c \in Seq(Node) /\ Len(c) \in Nat \ {0}
        /\ \A k \in 1..Len(c) : c[k] \in Node
    BY <1>1, HeldList
  <1>3. /\ next' = [x \in Node |-> IF x \in Range(s) /\ At(x) < Len(s) THEN s[At(x) + 1]
                                   ELSE next[x]]
        /\ prev' = [x \in Node |-> IF x \notin Range(s) THEN prev[x]
                                   ELSE IF x = s[1] THEN s[Len(s)] ELSE s[At(x) - 1]]
        /\ data' = [x \in Node |-> IF x \in Range(s) /\ At(x) < Len(s) THEN CopyOf(c, t, At(x))
                                   ELSE data[x]]
    <2> DEFINE nx == [x \in Node |-> IF x \in Range(s) /\ At(x) < Len(s) THEN s[At(x) + 1]
                                     ELSE next[x]]
               pv == [x \in Node |-> IF x \notin Range(s) THEN prev[x]
                                     ELSE IF x = s[1] THEN s[Len(s)] ELSE s[At(x) - 1]]
               dt == [x \in Node |-> IF x \in Range(s) /\ At(x) < Len(s) THEN CopyOf(c, t, At(x))
                                     ELSE data[x]]
    <2>1. Becomes([next |-> nx, prev |-> pv, data |-> dt])
      BY Zenon DEF xlist_dup, CopyOf
    <2>2. nx = [x \in Node |-> nx[x]]
      OBVIOUS
    <2>4. pv = [x \in Node |-> pv[x]]
      OBVIOUS
    <2>5. dt = [x \in Node |-> dt[x]]
      OBVIOUS
    <2> HIDE DEF nx, pv, dt
    <2>3. next' = nx /\ prev' = pv /\ data' = dt
      BY <2>1, <2>2, <2>4, <2>5 DEF Becomes
    <2> QED
      BY <2>3 DEF nx, pv, dt
  <1>4. mine' = mine \ UNION {StringOf(data'[x]) : x \in Range(s)}
    <2> DEFINE nx == [x \in Node |-> IF x \in Range(s) /\ At(x) < Len(s) THEN s[At(x) + 1]
                                     ELSE next[x]]
               pv == [x \in Node |-> IF x \notin Range(s) THEN prev[x]
                                     ELSE IF x = s[1] THEN s[Len(s)] ELSE s[At(x) - 1]]
               dt == [x \in Node |-> IF x \in Range(s) /\ At(x) < Len(s) THEN CopyOf(c, t, At(x))
                                     ELSE data[x]]
               hp == [next |-> nx, prev |-> pv, data |-> dt]
    <2>1. mine' = mine \ UNION {StringOf(hp.data[x]) : x \in Range(s)}
      BY Zenon DEF xlist_dup, CopyOf
    <2>2. dt = data'
      BY <1>3, Zenon
    <2> HIDE DEF nx, pv, dt
    <2>3. hp.data = data'
      BY <2>2
    <2> HIDE DEF hp
    <2> QED
      BY <2>1, <2>3
  <1> HIDE DEF c, At
  <1>5. n \in Nat /\ n + 1 = Len(c)
    BY <1>2
  <1>6. /\ s \in [1..n+1 -> Node \ alive] /\ \A j, k \in 1..n+1 : s[j] = s[k] => j = k
        /\ t \in [1..n+1 -> mine \cup {NULL}]
        /\ \A j, k \in 1..n+1 : t[j] = t[k] => j = k \/ t[j] = NULL
        /\ \A k \in 1..n+1 : (StringOf(data[c[k]]) # {}) <=> (t[k] # NULL)
    BY <1>5 DEF Fresh, IsInjective, c
  <1>7. s \in Seq(Node) /\ Len(s) = n + 1 /\ Range(s) = {s[k] : k \in 1..n+1}
    BY <1>5, <1>6 DEF Range
  <1> HIDE DEF n
  <1>8. \A k \in 1..n+1 : s[k] \in Node /\ s[k] \notin alive /\ s[k] \in Range(s) /\ At(s[k]) = k
    <2> TAKE k \in 1..n+1
    <2>1. \A j \in 1..Len(s) : s[j] = s[k] => j = k
      BY <1>6, <1>7
    <2> QED
      BY <1>6, <1>7, <2>1 DEF At
  <1>9. \A x \in Node \ alive : next[x] = NULL /\ prev[x] = NULL /\ data[x] = Blank
    BY DEF HeapInv, Blanks
  <1>10. /\ next \in Links /\ prev \in Links /\ data \in [Node -> Item] /\ alive \subseteq Node
         /\ head \in [Handle -> Node \cup {NULL}]
    BY DEF HeapInv
  <1>11. ASSUME NEW k \in 1..n
         PROVE  next'[s[k]] = s[k+1] /\ prev'[s[k+1]] = s[k] /\ data'[s[k]] = CopyOf(c, t, k)
    <2>1. k \in 1..n+1 /\ k + 1 \in 1..n+1 /\ k < n + 1 /\ 1 \in 1..n+1 /\ k + 1 # 1
          /\ (k + 1) - 1 = k
      BY <1>5
    <2>2. s[k+1] # s[1]
      BY <1>6, <2>1
    <2> QED
      BY <1>3, <1>7, <1>8, <2>1, <2>2
  <1>12. next'[s[n+1]] = NULL /\ prev'[s[1]] = s[n+1] /\ data'[s[n+1]] = Blank
    <2>1. n + 1 \in 1..n+1 /\ 1 \in 1..n+1 /\ ~(n + 1 < n + 1)
      BY <1>5
    <2> QED
      BY <1>3, <1>7, <1>8, <1>9, <2>1
  <1>13. \A x \in Node \ Range(s) : next'[x] = next[x] /\ prev'[x] = prev[x] /\ data'[x] = data[x]
    BY <1>3
  <1>14. ASSUME NEW k \in 1..n+1
         PROVE  CopyOf(c, t, k) \in Item /\ StringOf(CopyOf(c, t, k)) = {t[k]} \ {NULL}
    <2> DEFINE d == data[c[k]]
    <2>1. d \in Item /\ t[k] \in mine \cup {NULL} /\ mine \subseteq Str
      BY <1>2, <1>5, <1>6, <1>10 DEF Owned
    <2>2. (StringOf(d) # {}) <=> (t[k] # NULL)
      BY <1>6
    <2>3. CopyOf(c, t, k) = IF d.type = "STRING" /\ d.value # NULL
                            THEN [d EXCEPT !.value = t[k]] ELSE d
      BY DEF CopyOf, CopyItem
    <2> HIDE DEF d
    <2>4. CASE d.type = "STRING" /\ d.value # NULL
      <3>1. t[k] # NULL
        BY <2>2, <2>4 DEF StringOf
      <3>2. /\ [d EXCEPT !.value = t[k]] \in Item
            /\ [d EXCEPT !.value = t[k]].type = "STRING" /\ [d EXCEPT !.value = t[k]].value = t[k]
        BY <2>1, <2>4 DEF Item
      <3> QED
        BY <2>3, <2>4, <3>1, <3>2 DEF StringOf
    <2>5. CASE ~(d.type = "STRING" /\ d.value # NULL)
      <3>1. StringOf(d) = {}
        BY <2>5 DEF StringOf
      <3> QED
        BY <2>1, <2>2, <2>3, <2>5, <3>1
    <2> QED
      BY <2>4, <2>5
  <1>15. \A k \in 1..n+1 : StringOf(data'[s[k]]) = {t[k]} \ {NULL} /\ data'[s[k]] \in Item
    <2> TAKE k \in 1..n+1
    <2>1. CASE k = n + 1
      <3>1. StringOf(data[c[n+1]]) = {}
        BY <1>2, <1>5, BlankHasNone DEF IsList
      <3>2. t[n+1] = NULL
        BY <1>6, <2>1, <3>1
      <3>3. Blank \in Item
        BY DEF Blank, Item
      <3> QED
        BY <1>12, <2>1, <3>2, <3>3, BlankHasNone
    <2>2. CASE k # n + 1
      <3>1. k \in 1..n
        BY <1>5, <2>2
      <3> QED
        BY <1>11, <1>14, <3>1
    <2> QED
      BY <2>1, <2>2
  <1>16. IsList(s, next', prev', data')
    <2>1. Len(s) - 1 = n /\ Len(s) > 0
      BY <1>5, <1>7
    <2> QED
      BY <1>6, <1>7, <1>11, <1>12, <2>1 DEF IsList
  <1>17. chain[g] = << >> /\ Range(<< >>) = {}
    BY <1>1 DEF HeapInv, Holds, Range
  <1>18. 1 \in 1..n+1 /\ s[1] \in Node
    BY <1>5, <1>8
  <1>19. next' \in Links /\ prev' \in Links /\ data' \in [Node -> Item]
    <2>1. ASSUME NEW x \in Node
          PROVE  /\ next'[x] \in Node \cup {NULL} /\ prev'[x] \in Node \cup {NULL}
                 /\ data'[x] \in Item
      <3>1. CASE x \notin Range(s)
        BY <1>10, <1>13, <3>1 DEF Links
      <3>2. CASE x \in Range(s)
        <4>1. PICK k \in 1..n+1 : x = s[k]
          BY <1>7, <3>2
        <4>2. next'[x] \in Node \cup {NULL}
          <5>1. CASE k = n + 1
            BY <1>12, <4>1, <5>1
          <5>2. CASE k # n + 1
            <6>1. k \in 1..n /\ k + 1 \in 1..n+1
              BY <1>5, <5>2
            <6> QED
              BY <1>8, <1>11, <4>1, <6>1
          <5> QED
            BY <5>1, <5>2
        <4>3. prev'[x] \in Node \cup {NULL}
          <5>1. CASE k = 1
            <6>1. n + 1 \in 1..n+1
              BY <1>5
            <6> QED
              BY <1>8, <1>12, <4>1, <5>1, <6>1
          <5>2. CASE k # 1
            <6>1. k - 1 \in 1..n /\ (k - 1) + 1 = k /\ k - 1 \in 1..n+1
              BY <1>5, <5>2
            <6> QED
              BY <1>8, <1>11, <4>1, <6>1
          <5> QED
            BY <5>1, <5>2
        <4> QED
          BY <1>15, <4>1, <4>2, <4>3
      <3> QED
        BY <3>1, <3>2
    <2>2. next' = [x \in Node |-> next'[x]] /\ prev' = [x \in Node |-> prev'[x]]
          /\ data' = [x \in Node |-> data'[x]]
      BY <1>3, Zenon
    <2> QED
      BY <2>1, <2>2 DEF Links
  <1>20. MovesOne(g, s, {})
    <2>1. Holds(s, head'[g], next', prev', data')
      BY <1>1, <1>10, <1>16, <1>18 DEF Holds
    <2>2. Range(s) \subseteq Node \ alive
      BY <1>7, <1>8
    <2>3. \A x \in alive : next'[x] = next[x] /\ prev'[x] = prev[x] /\ data'[x] = data[x]
      BY <1>10, <1>13, <2>2
    <2>4. \A x \in Node \ alive' : next'[x] = NULL /\ prev'[x] = NULL /\ data'[x] = Blank
      BY <1>1, <1>9, <1>13
    <2>5. head' \in [Handle -> Node \cup {NULL}] /\ \A f \in Handle \ {g} : head'[f] = head[f]
      BY <1>1, <1>10, <1>18
    <2> QED
      BY <1>1, <1>7, <1>17, <1>19, <2>1, <2>2, <2>3, <2>4, <2>5 DEF MovesOne
  <1>21. Moves({g}, {})
    BY <1>20, OneMoves
  <1>22. Owned(data', mine')
    <2>1. \A v : v \in mine' <=> v \in mine /\ \A k \in 1..n+1 : v # t[k] \/ v = NULL
      <3>1. \A v : v \in mine' <=> v \in mine /\ \A x \in Range(s) : v \notin StringOf(data'[x])
        BY <1>4
      <3>2. ASSUME NEW v
            PROVE  (\A x \in Range(s) : v \notin StringOf(data'[x]))
                     <=> \A k \in 1..n+1 : v # t[k] \/ v = NULL
        <4>1. \A x : x \in Range(s) <=> \E k \in 1..n+1 : x = s[k]
          BY <1>7
        <4>2. \A k \in 1..n+1 : v \notin StringOf(data'[s[k]]) <=> (v # t[k] \/ v = NULL)
          BY <1>15
        <4>3. (\A x \in Range(s) : v \notin StringOf(data'[x]))
                <=> \A k \in 1..n+1 : v \notin StringOf(data'[s[k]])
          BY <4>1, Zenon
        <4> QED
          BY <4>2, <4>3
      <3> QED
        BY <3>1, <3>2
    <2>2. /\ mine \subseteq Str
          /\ \A x \in Node : StringOf(data[x]) \cap mine = {} /\ StringOf(data[x]) \subseteq Str
          /\ \A a, b \in Node : a # b => StringOf(data[a]) \cap StringOf(data[b]) = {}
          /\ \A v \in Str \ mine : \E x \in Node : v \in StringOf(data[x])
      BY DEF Owned
    <2>3. ASSUME NEW x \in Node
          PROVE  \/ StringOf(data'[x]) = StringOf(data[x]) /\ x \notin Range(s)
                 \/ \E k \in 1..n+1 : x = s[k] /\ StringOf(data'[x]) = {t[k]} \ {NULL}
      BY <1>7, <1>13, <1>15
    <2>4. \A k \in 1..n+1 : {t[k]} \ {NULL} \subseteq mine
      BY <1>6
    <2>5. ASSUME NEW x \in Node
          PROVE  StringOf(data'[x]) \cap mine' = {} /\ StringOf(data'[x]) \subseteq Str
      BY <2>1, <2>2, <2>3, <2>4
    <2>6. ASSUME NEW a \in Node, NEW b \in Node, a # b
          PROVE  StringOf(data'[a]) \cap StringOf(data'[b]) = {}
      <3>1. CASE a \notin Range(s) /\ b \notin Range(s)
        BY <1>13, <2>2, <2>6, <3>1
      <3>2. ASSUME NEW i \in 1..n+1, NEW k \in 1..n+1, a = s[i], b = s[k]
            PROVE  StringOf(data'[a]) \cap StringOf(data'[b]) = {}
        <4>1. t[i] = t[k] => t[i] = NULL
          BY <1>6, <2>6, <3>2
        <4> QED
          BY <1>15, <3>2, <4>1
      <3>3. ASSUME NEW x \in Node, x \notin Range(s), NEW k \in 1..n+1
            PROVE  StringOf(data'[x]) \cap StringOf(data'[s[k]]) = {}
        BY <1>13, <1>15, <2>2, <2>4, <3>3
      <3> QED
        BY <1>7, <3>1, <3>2, <3>3
    <2>7. ASSUME NEW v \in Str \ mine'
          PROVE  \E x \in Node : v \in StringOf(data'[x])
      <3>1. CASE v \in mine
        <4>1. PICK k \in 1..n+1 : v = t[k] /\ v # NULL
          BY <2>1, <3>1
        <4> QED
          BY <1>8, <1>15, <4>1
      <3>2. CASE v \notin mine
        <4>1. PICK x \in Node : v \in StringOf(data[x])
          BY <2>2, <3>2
        <4>2. x \in alive
          BY <1>9, <4>1, BlankHasNone
        <4>3. x \notin Range(s)
          BY <1>7, <1>8, <4>2
        <4> QED
          BY <1>13, <4>1, <4>3
      <3> QED
        BY <3>1, <3>2
    <2> QED
      BY <2>1, <2>2, <2>5, <2>6, <2>7 DEF Owned
  <1>23. chain'[g] = s /\ head'[g] = s[1]
    BY <1>1, <1>10 DEF HeapInv
  <1>24. ASSUME NEW k \in 1..n
         PROVE  data'[s[k]] = [data[c[k]] EXCEPT !.value = data'[s[k]].value]
    <2>1. data[c[k]] \in Item /\ data'[s[k]] = CopyOf(c, t, k)
      BY <1>2, <1>5, <1>10, <1>11
    <2> DEFINE d == data[c[k]]
    <2>2. data'[s[k]] = IF d.type = "STRING" /\ d.value # NULL
                        THEN [d EXCEPT !.value = t[k]] ELSE d
      BY <2>1 DEF CopyOf, CopyItem
    <2>3. d \in Item
      BY <2>1
    <2> HIDE DEF d
    <2>4. [d EXCEPT !.value = t[k]].value = t[k] /\ [d EXCEPT !.value = d.value] = d
      BY <2>3 DEF Item
    <2>5. data'[s[k]] = [d EXCEPT !.value = data'[s[k]].value]
      BY <2>2, <2>4
    <2> QED
      BY <2>5 DEF d
  <1>25. ASSUME NEW k \in 1..n
         PROVE  IF StringOf(data[c[k]]) = {} THEN data'[s[k]] = data[c[k]]
                ELSE data'[s[k]].value \in mine
    <2>1. data[c[k]] \in Item /\ data'[s[k]] = CopyOf(c, t, k)
      BY <1>2, <1>5, <1>10, <1>11
    <2>2. k \in 1..n+1
      BY <1>5
    <2>3. /\ t[k] \in mine \cup {NULL}
          /\ (StringOf(data[c[k]]) # {}) <=> (t[k] # NULL)
      BY <1>6, <2>2
    <2> DEFINE d == data[c[k]]
    <2>4. data'[s[k]] = IF d.type = "STRING" /\ d.value # NULL
                        THEN [d EXCEPT !.value = t[k]] ELSE d
      BY <2>1 DEF CopyOf, CopyItem
    <2>5. d \in Item /\ ((StringOf(d) # {}) <=> (t[k] # NULL))
      BY <2>1, <2>3
    <2> HIDE DEF d
    <2>6. [d EXCEPT !.value = t[k]].value = t[k]
      BY <2>5 DEF Item
    <2>7. StringOf(d) = {} <=> ~ (d.type = "STRING" /\ d.value # NULL)
      BY DEF StringOf
    <2>8. IF StringOf(d) = {} THEN data'[s[k]] = d ELSE data'[s[k]].value \in mine
      BY <2>3, <2>4, <2>5, <2>6, <2>7
    <2> QED
      BY <2>8 DEF d
  <1> QED
    BY <1>1, <1>5, <1>7, <1>18, <1>21, <1>22, <1>23, <1>24, <1>25 DEF Copied, c, n

\* In Lists: a list with the same items but for its strings.
LEMMA DupIsCopy ==
    ASSUME HeapInv, Owned(data, mine), NEW h \in Handle, NEW g \in Handle, Copied(h, g)
    PROVE  /\ Abstract!Copy(h, g) /\ ItemsOf(h) # NULL
           /\ head[g] = NULL /\ head'[g] # NULL /\ IsCopy(ItemsOf(g)', ItemsOf(h))
           /\ ItemsOf(h)' = ItemsOf(h)
  <1> DEFINE n == Len(chain[h]) - 1
             new == ItemsOf(g)'
  <1>1. head[h] # NULL /\ head[g] = NULL /\ head'[g] # NULL /\ Moves({g}, {})
    BY DEF Copied
  <1>2. /\ ItemsOf(h) \in Seq(Item) /\ Len(ItemsOf(h)) = n /\ ItemsOf(h) # NULL
        /\ \A k \in 1..n : ItemsOf(h)[k] = data[chain[h][k]]
    BY <1>1, ItemsOfList
  <1>3. n \in Nat /\ chain'[g] \in Seq(Node)
    BY <1>1, HeldList DEF Moves
  <1>4. /\ new = [k \in 1..n |-> data'[chain'[g][k]]] /\ new # NULL
        /\ new \in Seq(Item) /\ Len(new) = n
    <2>1. new = [k \in 1..Len(chain'[g]) - 1 |-> data'[chain'[g][k]]]
      BY <1>1 DEF ItemsOf
    <2>2. Len(chain'[g]) = Len(chain[h])
      BY DEF Copied
    <2>3. new = [k \in 1..n |-> data'[chain'[g][k]]]
      BY <2>1, <2>2
    <2>4. \A k \in 1..n : data'[chain'[g][k]] \in Item
      <3>1. \A k \in 1..n : k \in 1..Len(chain'[g])
        BY <1>3, <2>2
      <3>2. data' \in [Node -> Item]
        BY <1>1 DEF Moves
      <3> QED
        BY <1>3, <3>1, <3>2
    <2> HIDE DEF new
    <2>5. new \in Seq(Item) /\ Len(new) = n
      <3> HIDE DEF n
      <3> QED
        BY <1>3, <2>3, <2>4
    <2> QED
      BY <2>3, <2>5, ListAssumption
  <1>5. \A k \in 1..n :
           /\ new[k] = [ItemsOf(h)[k] EXCEPT !.value = new[k].value]
           /\ IF StringOf(ItemsOf(h)[k]) = {} THEN new[k] = ItemsOf(h)[k]
              ELSE new[k].value \in mine
    <2>1. ASSUME NEW k \in 1..n
          PROVE  /\ data'[chain'[g][k]] =
                       [data[chain[h][k]] EXCEPT !.value = data'[chain'[g][k]].value]
                 /\ IF StringOf(data[chain[h][k]]) = {}
                    THEN data'[chain'[g][k]] = data[chain[h][k]]
                    ELSE data'[chain'[g][k]].value \in mine
      BY DEF Copied
    <2>2. \A k \in 1..n : new[k] = data'[chain'[g][k]]
      <3> HIDE DEF new
      <3> QED
        BY <1>4
    <2> HIDE DEF new, n
    <2> TAKE k \in 1..n
    <2>3. new[k] = data'[chain'[g][k]] /\ ItemsOf(h)[k] = data[chain[h][k]]
      BY <1>2, <2>2
    <2> QED
      BY <2>1, <2>3
  <1>6. AllItems' = [AllItems EXCEPT ![g] = new]
    BY <1>1, OneListChanges
  <1>7. TakenItems' = TakenItems
    <2>1. {g} \in SUBSET Handle
      OBVIOUS
    <2> QED
      BY <1>1, <2>1, TakenStay
  <1>8. AllItems[h] = ItemsOf(h) /\ AllItems[g] = NULL /\ AllItems'[g] = new
    <2>1. AllItems[h] = ItemsOf(h) /\ AllItems[g] = NULL
      BY <1>1 DEF AllItems, ItemsOf
    <2>2. AllItems'[g] = new
      <3> HIDE DEF new
      <3> QED
        BY <1>6 DEF AllItems
    <2> QED
      BY <2>1, <2>2
  <1>9. DOMAIN new = DOMAIN ItemsOf(h)
    <2>1. DOMAIN new = 1..n
      <3> HIDE DEF new
      <3> QED
        BY <1>4
    <2> QED
      BY <1>2, <2>1
  <1> HIDE DEF new, n
  <1>10. AllItems' = [AllItems EXCEPT ![g] = AllItems'[g]]
    BY <1>6, <1>8
  <1>11. \A k \in 1..Len(AllItems[h]) :
            AllItems'[g][k] = IF AllItems[h][k].type # "STRING" THEN AllItems[h][k]
                              ELSE [AllItems[h][k] EXCEPT !.value = AllItems'[g][k].value]
    <2>1. \A k \in 1..n : ItemsOf(h)[k].type # "STRING" => new[k] = ItemsOf(h)[k]
      BY <1>5 DEF StringOf
    <2> QED
      BY <1>2, <1>5, <1>8, <2>1
  <1>12. /\ AllItems[g] = NULL /\ AllItems'[g] # NULL
         /\ DOMAIN AllItems'[g] = DOMAIN AllItems[h]
    BY <1>4, <1>8, <1>9
  <1>13. Abstract!Copy(h, g)
    BY <1>7, <1>10, <1>11, <1>12 DEF Abstract!Copy, AllItems, TakenItems
  <1>14. IsCopy(new, ItemsOf(h))
    BY <1>2, <1>4, <1>5 DEF IsCopy
  <1>15. ItemsOf(h)' = ItemsOf(h)
    <2>1. h # g
      BY <1>1
    <2>2. AllItems'[h] = AllItems[h]
      BY <1>10, <2>1 DEF AllItems
    <2> QED
      BY <2>2 DEF AllItems
  <1> QED
    BY <1>1, <1>2, <1>13, <1>14, <1>15 DEF new

-----------------------------------------------------------------------------
(* xlist_orders.                                                           *)

USE KeyAssumption, EndsAssumption

\* The heap with the two extra nodes.
Ends == Node \cup {beg, end}
EndLinks == [Ends -> Ends \cup {NULL}]
EndHeaps == [next : EndLinks, prev : EndLinks, data : [Ends -> Item]]

\* Nodes that are linked both ways, one after the other.
Row(hp, v) ==
    /\ v \in Seq(Ends) /\ Len(v) \in Nat \ {0, 1}
    /\ \A j, k \in 1..Len(v) : v[j] = v[k] => j = k
    /\ \A k \in 1..Len(v) - 1 : hp.next[v[k]] = v[k+1] /\ hp.prev[v[k+1]] = v[k]

\* What Link does.
Joint(hp2, hp, a, b) ==
    /\ hp2 \in EndHeaps /\ hp2.data = hp.data
    /\ hp2.next[a] = b /\ hp2.prev[b] = a
    /\ \A x \in Ends : x # a => hp2.next[x] = hp.next[x]
    /\ \A x \in Ends : x # b => hp2.prev[x] = hp.prev[x]

LEMMA LinkJoins ==
    ASSUME NEW hp \in EndHeaps, NEW a \in Ends, NEW b \in Ends
    PROVE  Joint(Link(hp, a, b), hp, a, b)
  <1>1. hp.next \in EndLinks /\ hp.prev \in EndLinks /\ hp.data \in [Ends -> Item]
    BY DEF EndHeaps
  <1> DEFINE nx == [hp.next EXCEPT ![a] = b]
             pv == [hp.prev EXCEPT ![b] = a]
             r == Link(hp, a, b)
  <1>2. /\ r.next = nx /\ r.prev = pv /\ r.data = hp.data
        /\ r = [next |-> r.next, prev |-> r.prev, data |-> r.data]
    <2>1. r = [hp EXCEPT !.next[a] = b, !.prev[b] = a]
      BY DEF Link
    <2>2. r = [next |-> nx, prev |-> pv, data |-> hp.data]
      <3> HIDE DEF r
      <3> QED
        BY <1>1, <2>1 DEF EndHeaps, EndLinks
    <2> HIDE DEF r, nx, pv
    <2> QED
      BY <2>2
  <1>3. /\ nx \in EndLinks /\ pv \in EndLinks /\ nx[a] = b /\ pv[b] = a
        /\ \A x \in Ends : x # a => nx[x] = hp.next[x]
        /\ \A x \in Ends : x # b => pv[x] = hp.prev[x]
    BY <1>1 DEF EndLinks
  <1> HIDE DEF nx, pv, r
  <1>4. r \in EndHeaps
    BY <1>1, <1>2, <1>3 DEF EndHeaps
  <1> QED
    BY <1>2, <1>3, <1>4 DEF Joint, r

\* A node goes between two neighbours.
LEMMA RowInsert ==
    ASSUME NEW hp \in EndHeaps, NEW v, Row(hp, v), NEW q \in 2..Len(v), NEW i \in Ends,
           i \notin Range(v), NEW h1, NEW h2,
           Joint(h1, hp, v[q-1], i), Joint(h2, h1, i, v[q])
    PROVE  Row(h2, InsertAt(v, q, i))
  <1> DEFINE L == Len(v)
             t == InsertAt(v, q, i)
  <1>1. v \in Seq(Ends) /\ L \in Nat /\ L >= 2 /\ \A j \in 1..L : v[j] \in Ends /\ v[j] # i
    <2>1. \A j \in 1..L : v[j] \in Range(v)
      BY DEF Row, Range
    <2> QED
      BY <2>1 DEF Row
  <1>2. \A j, k \in 1..L : v[j] = v[k] => j = k
    BY DEF Row
  <1>3. \A k \in 1..L-1 : hp.next[v[k]] = v[k+1] /\ hp.prev[v[k+1]] = v[k]
    BY DEF Row
  <1>4. q \in 1..L+1 /\ q \in 2..L /\ q - 1 \in 1..L /\ q \in 1..L
    BY <1>1
  <1>5. /\ t \in Seq(Ends) /\ Len(t) = L + 1
        /\ \A j \in 1..L+1 : t[j] = IF j < q THEN v[j] ELSE IF j = q THEN i ELSE v[j-1]
    <2>1. v \in Seq(Ends) /\ q \in 1..Len(v)+1 /\ i \in Ends
      BY <1>1, <1>4
    <2>2. PutInto(t, Ends, v, q, i)
      BY <2>1, InsertAtIs
    <2> HIDE DEF t
    <2> QED
      BY <2>2 DEF PutInto
  <1> HIDE DEF L, t
  <1>6. /\ h2.next[v[q-1]] = i /\ h2.prev[i] = v[q-1] /\ h2.next[i] = v[q] /\ h2.prev[v[q]] = i
        /\ \A x \in Ends : x # i /\ x # v[q-1] => h2.next[x] = hp.next[x]
        /\ \A x \in Ends : x # i /\ x # v[q] => h2.prev[x] = hp.prev[x]
    <2>1. v[q-1] # i /\ v[q] # i /\ v[q-1] \in Ends /\ v[q] \in Ends
      BY <1>1, <1>4
    <2> QED
      BY <2>1 DEF Joint
  <1>7. \A j, k \in 1..L+1 : t[j] = t[k] => j = k
    <2> SUFFICES ASSUME NEW j \in 1..L+1, NEW k \in 1..L+1, j < k PROVE t[j] # t[k]
      BY <1>1
    <2>1. CASE j = q
      <3>1. t[j] = i /\ t[k] = v[k-1] /\ k-1 \in 1..L
        BY <1>1, <1>4, <1>5, <2>1
      <3> QED
        BY <1>1, <3>1
    <2>2. CASE k = q
      <3>1. t[k] = i /\ t[j] = v[j] /\ j \in 1..L
        BY <1>1, <1>4, <1>5, <2>2
      <3> QED
        BY <1>1, <3>1
    <2>3. CASE j # q /\ k # q
      <3> DEFINE a == IF j < q THEN j ELSE j-1
                 b == IF k < q THEN k ELSE k-1
      <3>1. a \in 1..L /\ b \in 1..L /\ a # b
        BY <1>1, <1>4, <2>3
      <3>2. t[j] = v[a] /\ t[k] = v[b]
        BY <1>5, <2>3
      <3> QED
        BY <1>2, <3>1, <3>2
    <2> QED
      BY <2>1, <2>2, <2>3
  <1>8. ASSUME NEW k \in 1..L PROVE h2.next[t[k]] = t[k+1] /\ h2.prev[t[k+1]] = t[k]
    <2>1. CASE k < q - 1
      <3>1. t[k] = v[k] /\ t[k+1] = v[k+1] /\ k \in 1..L-1 /\ k \in 1..L /\ k + 1 \in 1..L
            /\ k # q - 1 /\ k + 1 # q
        BY <1>1, <1>4, <1>5, <2>1
      <3>2. v[k] # v[q-1] /\ v[k+1] # v[q]
        BY <1>2, <1>4, <3>1
      <3> QED
        BY <1>1, <1>3, <1>6, <3>1, <3>2, SMTT(20)
    <2>2. CASE k = q - 1
      <3>1. t[k] = v[q-1] /\ t[k+1] = i
        BY <1>1, <1>4, <1>5, <2>2
      <3> QED
        BY <1>6, <3>1
    <2>3. CASE k = q
      <3>1. t[k] = i /\ t[k+1] = v[q]
        BY <1>1, <1>4, <1>5, <2>3
      <3> QED
        BY <1>6, <3>1
    <2>4. CASE k > q
      <3>0. /\ k \in 1..L+1 /\ k+1 \in 1..L+1 /\ ~(k < q) /\ ~(k+1 < q) /\ k # q /\ k+1 # q
            /\ k-1 \in 1..L-1 /\ k-1 \in 1..L /\ k-1 # q-1 /\ (k-1)+1 = k /\ (k+1)-1 = k
        BY <1>1, <1>4, <2>4
      <3>1. t[k] = v[k-1] /\ t[k+1] = v[k] /\ k-1 \in 1..L-1 /\ k-1 \in 1..L /\ k-1 # q-1
            /\ k # q /\ (k-1)+1 = k
        BY <1>5, <3>0
      <3>2. v[k-1] # v[q-1] /\ v[k] # v[q]
        BY <1>2, <1>4, <3>1
      <3>3. hp.next[v[k-1]] = v[k] /\ hp.prev[v[k]] = v[k-1]
        BY <1>3, <3>1
      <3> QED
        BY <1>1, <1>6, <3>1, <3>2, <3>3
    <2> QED
      BY <1>4, <2>1, <2>2, <2>3, <2>4
  <1>9. Len(t) \in Nat \ {0, 1} /\ Len(t) - 1 = L
    BY <1>1, <1>5
  <1> QED
    BY <1>5, <1>7, <1>8, <1>9 DEF Row, t, L

\* The last node of a row is replaced.
LEMMA RowEnd ==
    ASSUME NEW hp \in EndHeaps, NEW v, Row(hp, v), NEW z \in Ends,
           z \notin Range(v), NEW h1, Joint(h1, hp, v[Len(v)-1], z)
    PROVE  Row(h1, [v EXCEPT ![Len(v)] = z])
  <1> DEFINE L == Len(v)
             t == [v EXCEPT ![L] = z]
  <1>1. v \in Seq(Ends) /\ L \in Nat /\ L >= 2 /\ \A j \in 1..L : v[j] \in Ends /\ v[j] # z
    <2>1. \A j \in 1..L : v[j] \in Range(v)
      BY DEF Row, Range
    <2>2. v \in Seq(Ends) /\ L \in Nat /\ L >= 2
      <3>1. v \in Seq(Ends) /\ L \in Nat \ {0, 1}
        BY Zenon DEF Row
      <3> HIDE DEF L
      <3> QED
        BY <3>1
    <2>3. \A j \in 1..L : v[j] \in Ends
      BY <2>2
    <2> QED
      BY <2>1, <2>2, <2>3
  <1>2. \A j, k \in 1..L : v[j] = v[k] => j = k
    BY DEF Row
  <1>3. \A k \in 1..L-1 : hp.next[v[k]] = v[k+1] /\ hp.prev[v[k+1]] = v[k]
    BY DEF Row
  <1>4. t \in Seq(Ends) /\ Len(t) = L /\ \A j \in 1..L : t[j] = IF j = L THEN z ELSE v[j]
    BY <1>1
  <1> HIDE DEF L, t
  <1>5. \A j, k \in 1..L : t[j] = t[k] => j = k
    BY <1>1, <1>2, <1>4
  <1>6. ASSUME NEW k \in 1..L-1 PROVE h1.next[t[k]] = t[k+1] /\ h1.prev[t[k+1]] = t[k]
    <2>1. k \in 1..L /\ k + 1 \in 1..L /\ k # L /\ t[k] = v[k] /\ L - 1 \in 1..L
      BY <1>1, <1>4
    <2>2. CASE k = L - 1
      <3>1. t[k+1] = z
        BY <1>4, <2>1, <2>2
      <3> QED
        BY <2>1, <2>2, <3>1 DEF Joint, L
    <2>3. CASE k # L - 1
      <3>1. t[k+1] = v[k+1] /\ v[k] # v[L-1] /\ v[k+1] # z /\ v[k] \in Ends /\ v[k+1] \in Ends
        <4>1. k + 1 # L
          BY <1>1, <2>3
        <4> QED
          BY <1>1, <1>2, <1>4, <2>1, <2>3, <4>1
      <3> QED
        BY <1>3, <2>1, <3>1, SMTT(20) DEF Joint, L
    <2> QED
      BY <2>2, <2>3
  <1>7. Len(t) \in Nat \ {0, 1}
    BY <1>1, <1>4
  <1> QED
    BY <1>4, <1>5, <1>6, <1>7 DEF Row, t, L

\* An item with the key a goes before, or after, one with the key b.
Goes(big, a, b) == IF big THEN b <= a ELSE b >= a

\* The position in a row before which a node goes.
Place(hp, v, i, big, q) ==
    /\ q \in 2..Len(v)
    /\ q = Len(v) \/ Goes(big, hp.data[i].key, hp.data[v[q]].key)
    /\ \A j \in 2..q-1 : ~Goes(big, hp.data[i].key, hp.data[v[j]].key)

LEMMA BeforeIs ==
    ASSUME NEW hp, NEW v, Row(hp, v), v[1] = beg, v[Len(v)] = end, hp.next[end] = NULL,
           NEW i, NEW big, NEW max \in Nat, Len(v) - 1 <= max
    PROVE  \E q : Place(hp, v, i, big, q) /\ Before(hp, i, big, max) = v[q]
  <1> DEFINE L == Len(v)
             u == [k \in 1..L-1 |-> v[k+1]]
             hit(j) == j = end \/ Goes(big, hp.data[i].key, hp.data[j].key)
             S == {k \in 1..L-1 : hit(u[k])}
  <1>1. v \in Seq(Ends) /\ L \in Nat \ {0, 1} /\ \A j, k \in 1..L : v[j] = v[k] => j = k
    BY Zenon DEF Row
  <1>2. \A k \in 1..L-1 : hp.next[v[k]] = v[k+1]
    BY DEF Row
  <1>3. v[L] = end
    OBVIOUS
  <1>4. \A k \in 1..L : v[k] \in Ends /\ v[k] # NULL
    BY <1>1 DEF Ends
  <1> HIDE DEF L
  <1>5. u \in Seq(Ends) /\ Len(u) = L - 1 /\ \A k \in 1..L-1 : u[k] = v[k+1]
    <2>1. L - 1 \in Nat /\ \A k \in 1..L-1 : k + 1 \in 1..L
      BY <1>1
    <2>2. \A k \in 1..L-1 : v[k+1] \in Ends
      BY <1>4, <2>1
    <2> QED
      BY <2>1, <2>2
  <1>6. u = [k \in 1..Len(u) |-> u[k]]
    BY <1>5
  <1> HIDE DEF u
  <1>7. Path(hp, u)
    <2>1. Len(u) \in Nat \ {0}
      BY <1>1, <1>5
    <2>2. ASSUME NEW k \in 1..Len(u)-1 PROVE hp.next[u[k]] = u[k+1] /\ u[k+1] # NULL
      <3>1. k \in 1..L-1 /\ k + 1 \in 1..L-1 /\ (k + 1) + 1 \in 1..L
        BY <1>1, <1>5
      <3>2. u[k] = v[k+1] /\ u[k+1] = v[(k+1)+1]
        BY <1>5, <3>1
      <3> QED
        BY <1>2, <1>4, <3>1, <3>2
    <2>3. hp.next[u[Len(u)]] = NULL
      <3>1. L - 1 \in 1..L-1 /\ (L - 1) + 1 = L
        BY <1>1
      <3>2. u[L-1] = end
        BY <1>3, <1>5, <3>1
      <3> QED
        BY <1>5, <3>2
    <2> QED
      BY <1>6, <2>1, <2>2, <2>3 DEF Path
  <1>8. hp.next[beg] = u[1]
    <2>1. 1 \in 1..L-1 /\ 1 + 1 = 2
      BY <1>1
    <2> QED
      BY <1>2, <1>5, <2>1
  <1>9. Walk(hp, hp.next[beg], max) = u
    BY <1>5, <1>7, <1>8, WalkIs DEF L
  <1> HIDE DEF S
  <1>10. Before(hp, i, big, max) = u[FirstOf(S)]
    <2> DEFINE hit2(j) == \/ j = end
                          \/ IF big THEN hp.data[j].key <= hp.data[i].key
                             ELSE hp.data[j].key >= hp.data[i].key
               w == Walk(hp, hp.next[beg], max)
    <2>1. Before(hp, i, big, max) = w[FirstOf({k \in DOMAIN w : hit2(w[k])})]
      BY Zenon DEF Before
    <2>2. DOMAIN u = 1..L-1
      BY <1>5
    <2>3. \A j : hit(j) <=> hit2(j)
      BY DEF Goes
    <2>4. {k \in DOMAIN u : hit2(u[k])} = S
      <3> HIDE DEF hit, hit2
      <3> QED
        BY <2>2, <2>3 DEF S
    <2> HIDE DEF hit, hit2
    <2> QED
      BY <1>9, <2>1, <2>4
  <1>11. FirstOf(S) \in S /\ \A l \in S : FirstOf(S) <= l
    <2>1. L - 1 \in S
      <3>1. L - 1 \in 1..L-1 /\ (L - 1) + 1 = L
        BY <1>1
      <3>2. u[L-1] = end
        BY <1>3, <1>5, <3>1
      <3> QED
        BY <3>1, <3>2 DEF S
    <2>2. S \in SUBSET Nat
      BY DEF S
    <2> QED
      BY <2>1, <2>2, LeastOfNaturals
  <1> DEFINE f == FirstOf(S)
             q == f + 1
  <1>12. f \in S /\ \A l \in S : f <= l
    BY <1>11
  <1> HIDE DEF f
  <1>13. f \in 1..L-1 /\ hit(u[f])
    BY <1>12 DEF S
  <1>14. u[f] = v[q] /\ q \in 2..L /\ q \in 1..L
    BY <1>1, <1>5, <1>13
  <1>15. q = L \/ Goes(big, hp.data[i].key, hp.data[v[q]].key)
    <2>1. v[q] = end => q = L
      BY <1>1, <1>3, <1>14
    <2> QED
      BY <1>13, <1>14, <2>1
  <1>16. ASSUME NEW j \in 2..q-1 PROVE ~Goes(big, hp.data[i].key, hp.data[v[j]].key)
    <2>1. j - 1 \in 1..L-1 /\ ~(f <= j - 1) /\ (j - 1) + 1 = j
      BY <1>1, <1>13
    <2>2. ~hit(u[j-1]) /\ u[j-1] = v[j]
      <3>1. u[j-1] = v[j]
        BY <1>5, <2>1
      <3>2. j - 1 \notin S
        BY <1>12, <2>1
      <3> QED
        BY <2>1, <3>1, <3>2 DEF S
    <2> QED
      BY <2>2
  <1>17. Place(hp, v, i, big, q)
    BY <1>14, <1>15, <1>16 DEF Place, L
  <1>18. Before(hp, i, big, max) = v[q]
    BY <1>10, <1>14 DEF f
  <1> QED
    BY <1>17, <1>18

Inserts == [heap : EndHeaps, i : Node]

\* After k rounds the row v from beg to end has the first k nodes of the list c, in
\* the order of their items; the others are still linked to each other by next.
Sorting(c, s, k, v, big) ==
    LET n == Len(c) - 1 IN
    /\ k \in 0..n /\ s.i = c[k+1]
    /\ Row(s.heap, v) /\ Len(v) = k + 2 /\ v[1] = beg /\ v[k+2] = end
    /\ \A j \in 2..k+1 : \E l \in 1..k : v[j] = c[l]
    /\ \A l \in 1..k : \E j \in 2..k+1 : v[j] = c[l]
    /\ \A i, j \in 2..k+1 : i < j => Goes(big, data[v[i]].key, data[v[j]].key)
    /\ s.heap.next[end] = NULL /\ s.heap.next[c[n+1]] = NULL
    /\ \A j \in k+1..n : s.heap.next[c[j]] = c[j+1]
    /\ \A x \in Node : s.heap.data[x] = data[x]
    /\ \A x \in Node : (\A j \in 1..n+1 : x # c[j]) =>
          s.heap.next[x] = next[x] /\ s.heap.prev[x] = prev[x]

\* The keys of a list can be compared.
KeysOf(c) == \A k \in 1..Len(c) - 1 : data[c[k]].key \in Key

LEMMA GoesOrBack ==
    ASSUME NEW big \in BOOLEAN, NEW a \in Nat, NEW b \in Nat, NEW d \in Nat
    PROVE  /\ Goes(big, a, b) \/ Goes(big, b, a)
           /\ Goes(big, a, b) /\ Goes(big, b, d) => Goes(big, a, d)
  BY DEF Goes

\* One round.
LEMMA RoundInserts ==
    ASSUME HeapInv, NEW c, IsList(c, next, prev, data), KeysOf(c),
           NEW s \in Inserts, NEW k, NEW v, NEW big \in BOOLEAN, Sorting(c, s, k, v, big)
    PROVE  /\ Inserting(s, big, Len(c)) \in Inserts
           /\ s.heap.next[s.i] = NULL <=> k = Len(c) - 1
           /\ k # Len(c) - 1 =>
                 \E u : Sorting(c, Inserting(s, big, Len(c)), k + 1, u, big)
  <1> DEFINE n == Len(c) - 1
             r == Inserting(s, big, Len(c))
             hp == s.heap
             z == c[k+1]
  <1>1. n \in Nat /\ n + 1 = Len(c) /\ \A i \in 1..n+1 : c[i] \in Node
    BY DEF IsList
  <1>2. \A i, j \in 1..n+1 : c[i] = c[j] => i = j
    BY <1>1 DEF IsList
  <1>3. /\ k \in 0..n /\ s.i = z
        /\ Row(hp, v) /\ Len(v) = k + 2 /\ v[1] = beg /\ v[k+2] = end
        /\ \A j \in 2..k+1 : \E l \in 1..k : v[j] = c[l]
        /\ \A l \in 1..k : \E j \in 2..k+1 : v[j] = c[l]
        /\ \A i, j \in 2..k+1 : i < j => Goes(big, data[v[i]].key, data[v[j]].key)
    BY DEF Sorting
  <1>4. /\ hp.next[end] = NULL /\ hp.next[c[n+1]] = NULL
        /\ \A j \in k+1..n : hp.next[c[j]] = c[j+1]
        /\ \A x \in Node : hp.data[x] = data[x]
        /\ \A x \in Node : (\A j \in 1..n+1 : x # c[j]) =>
              hp.next[x] = next[x] /\ hp.prev[x] = prev[x]
    BY DEF Sorting
  <1>5. hp \in EndHeaps /\ s.i \in Node /\ hp.next \in EndLinks /\ hp.prev \in EndLinks
    BY DEF Inserts, EndHeaps
  <1> HIDE DEF n
  <1>6. hp.next[s.i] = NULL <=> k = n
    <2>1. CASE k = n
      BY <1>3, <1>4, <2>1
    <2>2. CASE k # n
      <3>1. k + 1 \in k+1..n /\ (k + 1) + 1 \in 1..n+1
        BY <1>1, <1>3, <2>2
      <3>2. hp.next[z] = c[(k+1)+1] /\ c[(k+1)+1] \in Node
        BY <1>1, <1>4, <3>1
      <3> QED
        BY <1>3, <2>2, <3>2
    <2> QED
      BY <2>1, <2>2
  <1>7. CASE k = n
    BY <1>6, <1>7 DEF Inserting, n
  <1>8. CASE k # n
    <2>0. /\ k \in Nat /\ k + 1 \in 1..n /\ k + 1 \in 1..n+1 /\ (k + 1) + 1 \in 1..n+1
          /\ k + 1 \in k+1..n /\ k + 2 \in Nat
      BY <1>1, <1>3, <1>8
    <2>1. v \in Seq(Ends) /\ \A i, j \in 1..k+2 : v[i] = v[j] => i = j
      BY <1>3 DEF Row
    <2>2. \A j \in 1..k+1 : hp.next[v[j]] = v[j+1] /\ hp.prev[v[j+1]] = v[j]
      <3>1. (k + 2) - 1 = k + 1
        BY <2>0
      <3> QED
        BY <1>3, <3>1 DEF Row
    <2>3. PICK q : Place(hp, v, z, big, q) /\ Before(hp, z, big, Len(c)) = v[q]
      <3>1. Len(v) - 1 <= Len(c) /\ Len(c) \in Nat /\ v[Len(v)] = end
        BY <1>1, <1>3, <2>0
      <3>2. Row(hp, v) /\ v[1] = beg /\ hp.next[end] = NULL
        BY <1>3, <1>4
      <3> HIDE DEF z, hp
      <3> QED
        BY <3>1, <3>2, BeforeIs
    <2>4. /\ q \in 2..k+2
          /\ q = k + 2 \/ Goes(big, hp.data[z].key, hp.data[v[q]].key)
          /\ \A j \in 2..q-1 : ~Goes(big, hp.data[z].key, hp.data[v[j]].key)
      BY <1>3, <2>3 DEF Place
    <2>5. \A j \in 1..k+2 : v[j] \in Ends
      BY <1>3, <2>0, <2>1
    <2>6. z \in Node /\ z \in Ends /\ z \notin Range(v)
      <3>1. z \in Node
        BY <1>1, <2>0
      <3>2. ASSUME NEW j \in 1..k+2 PROVE v[j] # z
        <4>1. CASE j = 1 \/ j = k + 2
          BY <1>3, <3>1, <4>1
        <4>2. CASE j # 1 /\ j # k + 2
          <5>1. j \in 2..k+1
            BY <2>0, <4>2
          <5>2. PICK l \in 1..k : v[j] = c[l]
            BY <1>3, <5>1
          <5>3. l \in 1..n+1 /\ l # k + 1
            BY <1>1, <1>3
          <5> QED
            BY <1>2, <2>0, <5>2, <5>3
        <4> QED
          BY <4>1, <4>2
      <3>3. Range(v) = {v[j] : j \in 1..k+2}
        <4>1. Range(v) = {v[j] : j \in 1..Len(v)}
          BY <2>1, RangeIs
        <4> QED
          BY <1>3, <4>1
      <3> QED
        BY <3>1, <3>2, <3>3 DEF Ends
    <2> DEFINE h1 == Link(hp, v[q-1], z)
               h2 == Link(h1, z, v[q])
               u == InsertAt(v, q, z)
    <2>7. /\ q - 1 \in 1..k+1 /\ (q - 1) + 1 = q /\ q \in 1..k+2 /\ q - 1 \in 1..k+2
          /\ v[q-1] \in Ends /\ v[q] \in Ends /\ q \in 2..Len(v)
      <3>1. q - 1 \in 1..k+1 /\ (q - 1) + 1 = q /\ q \in 1..k+2 /\ q - 1 \in 1..k+2
        BY <2>0, <2>4
      <3> QED
        BY <1>3, <2>4, <2>5, <3>1
    <2>8. hp.prev[v[q]] = v[q-1]
      BY <2>2, <2>7
    <2> HIDE DEF z
    <2>9. Joint(h1, hp, v[q-1], z)
      <3> HIDE DEF hp
      <3> QED
        BY <1>5, <2>6, <2>7, LinkJoins
    <2>10. Joint(h2, h1, z, v[q])
      <3>1. h1 \in EndHeaps
        BY <2>9 DEF Joint
      <3> HIDE DEF h1
      <3> QED
        BY <2>6, <2>7, <3>1, LinkJoins
    <2>11. r = [heap |-> h2, i |-> hp.next[z]]
      <3>1. hp.next[s.i] # NULL
        BY <1>6, <1>8
      <3> HIDE DEF Before
      <3> QED
        BY <1>3, <2>3, <2>8, <3>1, Zenon DEF Inserting
    <2> HIDE DEF h1, h2
    <2>12. Row(h2, u)
      <3> HIDE DEF hp
      <3> QED
        BY <1>3, <1>5, <2>6, <2>7, <2>9, <2>10, RowInsert
    <2>13. /\ h2 \in EndHeaps /\ h2.data = hp.data
           /\ \A x \in Ends : x # z /\ x # v[q-1] => h2.next[x] = hp.next[x]
           /\ \A x \in Ends : x # z /\ x # v[q] => h2.prev[x] = hp.prev[x]
      BY <2>9, <2>10 DEF Joint
    <2>14. hp.next[z] = c[(k+1)+1] /\ hp.next[z] \in Node
      BY <1>1, <1>4, <2>0 DEF z
    <2>15. r \in Inserts /\ r.heap = h2 /\ r.i = c[(k+1)+1]
      <3> HIDE DEF hp, r
      <3> QED
        BY <2>11, <2>13, <2>14 DEF Inserts
    <2>16. /\ u \in Seq(Ends) /\ Len(u) = k + 3
           /\ \A j \in 1..k+3 : u[j] = IF j < q THEN v[j] ELSE IF j = q THEN z ELSE v[j-1]
      <3>1. v \in Seq(Ends) /\ q \in 1..Len(v)+1 /\ z \in Ends
        BY <1>3, <2>0, <2>1, <2>6, <2>7
      <3>2. /\ u \in Seq(Ends) /\ Len(u) = Len(v) + 1
            /\ \A j \in 1..Len(v)+1 : u[j] = IF j < q THEN v[j] ELSE IF j = q THEN z ELSE v[j-1]
        <4>1. PutInto(u, Ends, v, q, z)
          BY <3>1, InsertAtIs
        <4> HIDE DEF u
        <4> QED
          BY <4>1 DEF PutInto
      <3>3. Len(v) + 1 = k + 3
        BY <1>3, <2>0
      <3> HIDE DEF u
      <3> QED
        BY <3>2, <3>3
    <2> HIDE DEF u, r
    \* Where the elements of u come from.
    <2>17. ASSUME NEW j \in 2..(k+1)+1
           PROVE  \/ j = q /\ u[j] = z
                  \/ j < q /\ j \in 2..k+1 /\ u[j] = v[j]
                  \/ j > q /\ j - 1 \in 2..k+1 /\ u[j] = v[j-1]
      BY <2>0, <2>4, <2>16
    <2>18. \A j \in 2..(k+1)+1 : \E l \in 1..k+1 : u[j] = c[l]
      <3>1. k + 1 \in 1..k+1 /\ \A l \in 1..k : l \in 1..k+1
        BY <2>0
      <3> TAKE j \in 2..(k+1)+1
      <3>2. CASE u[j] = z
        BY <3>1, <3>2 DEF z
      <3>3. CASE u[j] # z
        <4>1. PICK i \in 2..k+1 : u[j] = v[i]
          BY <2>17, <3>3
        <4>2. PICK l \in 1..k : v[i] = c[l]
          BY <1>3
        <4> QED
          BY <3>1, <4>1, <4>2
      <3> QED
        BY <3>2, <3>3
    <2>19. ASSUME NEW l \in 1..k+1 PROVE \E j \in 2..(k+1)+1 : u[j] = c[l]
      <3>1. CASE l = k + 1
        <4>1. q \in 2..(k+1)+1 /\ u[q] = z
          BY <2>0, <2>4, <2>16
        <4> QED
          BY <3>1, <4>1 DEF z
      <3>2. CASE l # k + 1
        <4>1. l \in 1..k
          BY <2>0, <3>2
        <4>2. PICK j \in 2..k+1 : v[j] = c[l]
          BY <1>3, <4>1
        <4>3. CASE j < q
          <5>1. j \in 2..(k+1)+1 /\ u[j] = v[j]
            BY <2>0, <2>16, <4>3
          <5> QED
            BY <4>2, <5>1
        <4>4. CASE j >= q
          <5>1. j + 1 \in 2..(k+1)+1 /\ j + 1 \in 1..k+3 /\ ~(j + 1 < q) /\ j + 1 # q /\ (j+1)-1 = j
            BY <2>0, <2>4, <4>4
          <5>2. u[j+1] = v[j]
            BY <2>16, <5>1
          <5> QED
            BY <4>2, <5>1, <5>2
        <4> QED
          BY <2>4, <4>3, <4>4
      <3> QED
        BY <3>1, <3>2
    <2>20. \A j \in 2..k+1 : v[j] \in Node /\ data[v[j]].key \in Nat /\ hp.data[v[j]] = data[v[j]]
      <3> TAKE j \in 2..k+1
      <3>1. PICK l \in 1..k : v[j] = c[l]
        BY <1>3
      <3>2. l \in 1..n /\ l \in 1..n+1
        BY <1>1, <1>3
      <3>3. data[c[l]].key \in Key
        BY <3>2 DEF KeysOf, n
      <3> QED
        BY <1>1, <1>4, <3>1, <3>2, <3>3
    <2>21. data[z].key \in Nat /\ hp.data[z] = data[z]
      <3>1. data[c[k+1]].key \in Key
        BY <2>0 DEF KeysOf, n
      <3> QED
        BY <1>4, <2>6, <3>1 DEF z
    <2>22. \A j \in 2..k+1 : j < q => Goes(big, data[v[j]].key, data[z].key)
      <3> TAKE j \in 2..k+1
      <3> SUFFICES ASSUME j < q PROVE Goes(big, data[v[j]].key, data[z].key)
        OBVIOUS
      <3>1. j \in 2..q-1
        BY <2>4
      <3>2. ~Goes(big, data[z].key, data[v[j]].key)
        BY <2>4, <2>20, <2>21, <3>1
      <3> QED
        BY <2>20, <2>21, <3>2, GoesOrBack
    <2>23. \A j \in 2..k+1 : j >= q => Goes(big, data[z].key, data[v[j]].key)
      <3> TAKE j \in 2..k+1
      <3> SUFFICES ASSUME j >= q PROVE Goes(big, data[z].key, data[v[j]].key)
        OBVIOUS
      <3>1. q \in 2..k+1 /\ q # k + 2
        BY <2>0, <2>4
      <3>2. Goes(big, data[z].key, data[v[q]].key)
        BY <2>4, <2>20, <2>21, <3>1
      <3>3. CASE j = q
        BY <3>2, <3>3
      <3>4. CASE j # q
        <4>0. q < j
          BY <3>1, <3>4
        <4>1. Goes(big, data[v[q]].key, data[v[j]].key)
          <5>1. \A a, b \in 2..k+1 : a < b => Goes(big, data[v[a]].key, data[v[b]].key)
            BY <1>3
          <5> QED
            BY <3>1, <4>0, <5>1
        <4> QED
          BY <2>20, <2>21, <3>1, <3>2, <4>1, GoesOrBack
      <3> QED
        BY <3>3, <3>4
    <2>24. ASSUME NEW i \in 2..(k+1)+1, NEW j \in 2..(k+1)+1, i < j
           PROVE  Goes(big, data[u[i]].key, data[u[j]].key)
      <3>1. CASE i = q
        <4>1. u[i] = z /\ u[j] = v[j-1] /\ j - 1 \in 2..k+1 /\ j - 1 >= q
          BY <2>0, <2>4, <2>17, <2>24, <3>1
        <4> QED
          BY <2>23, <4>1
      <3>2. CASE j = q
        <4>1. u[j] = z /\ u[i] = v[i] /\ i \in 2..k+1 /\ i < q
          BY <2>0, <2>4, <2>17, <2>24, <3>2
        <4> QED
          BY <2>22, <4>1
      <3>3. CASE i # q /\ j # q
        <4> DEFINE a == IF i < q THEN i ELSE i-1
                   b == IF j < q THEN j ELSE j-1
        <4>1. a \in 2..k+1 /\ b \in 2..k+1 /\ a < b
          BY <2>0, <2>4, <2>24, <3>3
        <4>2. u[i] = v[a] /\ u[j] = v[b]
          BY <2>4, <2>17, <3>3
        <4> HIDE DEF a, b
        <4> QED
          BY <1>3, <4>1, <4>2
      <3> QED
        BY <3>1, <3>2, <3>3
    <2>25. u[1] = beg /\ u[(k+1)+2] = end /\ Len(u) = (k+1) + 2
      <3>1. /\ 1 \in 1..k+3 /\ 1 < q /\ k + 3 \in 1..k+3 /\ ~(k + 3 < q) /\ k + 3 # q
            /\ (k + 3) - 1 = k + 2 /\ (k+1) + 2 = k + 3
        BY <2>0, <2>4
      <3> QED
        BY <1>3, <2>16, <3>1
    <2>26. \A j \in 1..n+1 : j > k => c[j] \in Node /\ c[j] \in Ends /\ c[j] # v[q-1]
      <3> TAKE j \in 1..n+1
      <3> SUFFICES ASSUME j > k PROVE c[j] \in Node /\ c[j] \in Ends /\ c[j] # v[q-1]
        OBVIOUS
      <3>1. c[j] \in Node
        BY <1>1
      <3>2. CASE q - 1 = 1
        BY <1>3, <3>1, <3>2 DEF Ends
      <3>3. CASE q - 1 # 1
        <4>1. q - 1 \in 2..k+1
          BY <2>0, <2>4, <3>3
        <4>2. PICK l \in 1..k : v[q-1] = c[l]
          BY <1>3, <4>1
        <4>3. l \in 1..n+1 /\ l # j
          BY <1>1, <1>3
        <4> QED
          BY <1>2, <3>1, <4>2, <4>3 DEF Ends
      <3> QED
        BY <3>2, <3>3
    <2>27. h2.next[end] = NULL
      <3>1. end # z /\ end \in Ends
        BY <2>6 DEF Ends
      <3>2. end # v[q-1]
        <4>1. q - 1 # k + 2 /\ k + 2 \in 1..k+2
          BY <2>0, <2>4
        <4> QED
          BY <1>3, <2>1, <2>7, <4>1
      <3> QED
        BY <1>4, <2>13, <3>1, <3>2
    <2>28. h2.next[c[n+1]] = NULL
      <3>1. n + 1 \in 1..n+1 /\ n + 1 > k /\ n + 1 # k + 1
        BY <1>1, <1>3, <1>8
      <3>2. c[n+1] # z
        BY <1>2, <2>0, <3>1 DEF z
      <3> QED
        BY <1>4, <2>13, <2>26, <3>1, <3>2
    <2>29. ASSUME NEW j \in (k+1)+1..n PROVE h2.next[c[j]] = c[j+1]
      <3>1. j \in 1..n+1 /\ j > k /\ j # k + 1 /\ j \in k+1..n
        BY <1>1, <2>0
      <3>2. c[j] # z
        BY <1>2, <2>0, <3>1 DEF z
      <3> QED
        BY <1>4, <2>13, <2>26, <3>1, <3>2
    <2>30. \A x \in Node : h2.data[x] = data[x]
      BY <1>4, <2>13
    <2>31. ASSUME NEW x \in Node, \A j \in 1..n+1 : x # c[j]
           PROVE  h2.next[x] = next[x] /\ h2.prev[x] = prev[x]
      <3>1. x # z /\ x \in Ends
        BY <2>0, <2>31 DEF z, Ends
      <3>2. ASSUME NEW j \in 1..k+2 PROVE x # v[j]
        <4>1. CASE j = 1 \/ j = k + 2
          BY <1>3, <4>1
        <4>2. CASE j # 1 /\ j # k + 2
          <5>1. j \in 2..k+1
            BY <2>0, <4>2
          <5>2. PICK l \in 1..k : v[j] = c[l]
            BY <1>3, <5>1
          <5>3. l \in 1..n+1
            BY <1>1, <1>3
          <5> QED
            BY <2>31, <5>2, <5>3
        <4> QED
          BY <4>1, <4>2
      <3> QED
        BY <1>4, <2>7, <2>13, <2>31, <3>1, <3>2
    <2>32. k + 1 \in 0..n
      BY <2>0
    <2>33. Sorting(c, r, k + 1, u, big)
      BY <2>12, <2>15, <2>18, <2>19, <2>24, <2>25, <2>27, <2>28, <2>29, <2>30, <2>31, <2>32
         DEF Sorting, n
    <2> QED
      BY <1>6, <1>8, <2>15, <2>33 DEF n, r
  <1> QED
    BY <1>7, <1>8

\* The loop ends when only the spare node is left.
LEMMA LoopInserts ==
    ASSUME HeapInv, NEW c, IsList(c, next, prev, data), KeysOf(c), NEW big \in BOOLEAN,
           NEW s \in Inserts, NEW v0, Sorting(c, s, 0, v0, big)
    PROVE  \E t \in Inserts : \E v :
              /\ Sorting(c, t, Len(c) - 1, v, big)
              /\ Inserted(s, big, Len(c)) =
                    [Link(t.heap, t.heap.prev[end], t.i) EXCEPT !.prev[beg] = t.i]
  <1> DEFINE n == Len(c) - 1
             S == {t \in Inserts : \E k, v : Sorting(c, t, k, v, big)}
             max == Len(c)
             step == [t \in S |-> Inserting(t, big, max)]
             D(f) == [k \in 0..max |-> IF k = 0 THEN s ELSE Inserting(f[k-1], big, max)]
             w == CHOOSE f : f = D(f)
  <1>1. max \in Nat /\ max # 0 /\ n \in Nat /\ n + 1 = max
    BY DEF IsList
  <1>2. s \in S /\ step \in [S -> S]
    <2>1. ASSUME NEW t \in S PROVE Inserting(t, big, max) \in S
      <3>1. PICK k, v : Sorting(c, t, k, v, big)
        OBVIOUS
      <3>2. Inserting(t, big, max) \in Inserts
        BY <3>1, RoundInserts
      <3>3. CASE k = n
        <4>1. t.heap.next[t.i] = NULL
          BY <3>1, <3>3, RoundInserts
        <4>2. Inserting(t, big, max) = t
          <5> HIDE DEF S, max
          <5> QED
            BY <4>1, Zenon DEF Inserting
        <4> QED
          BY <4>2
      <3>4. CASE k # n
        <4>1. \E u : Sorting(c, Inserting(t, big, max), k + 1, u, big)
          BY <3>1, <3>4, RoundInserts
        <4> QED
          BY <3>2, <4>1
      <3> QED
        BY <3>3, <3>4
    <2>2. s \in S
      OBVIOUS
    <2> HIDE DEF S, max
    <2> QED
      BY <2>1, <2>2
  <1>3. \E f : f = D(f)
    <2> HIDE DEF S, max
    <2>0. PICK f : Rounds(f, max, S, s, step)
      <3> HIDE DEF step
      <3> QED
        BY <1>1, <1>2, LoopRuns
    <2>1. /\ f \in [0..max -> S]
          /\ f = [k \in 0..max |-> IF k = 0 THEN s ELSE step[f[k-1]]]
      <3> HIDE DEF step
      <3> QED
        BY <2>0 DEF Rounds
    <2>2. ASSUME NEW k \in 0..max
          PROVE  (IF k = 0 THEN s ELSE step[f[k-1]])
                   = (IF k = 0 THEN s ELSE Inserting(f[k-1], big, max))
      <3>1. CASE k # 0
        <4>1. k - 1 \in 0..max
          BY <1>1, <3>1
        <4>2. f[k-1] \in S
          BY <2>1, <4>1
        <4> QED
          BY <3>1, <4>2
      <3> QED
        BY <3>1
    <2>3. D(f) = [k \in 0..max |-> IF k = 0 THEN s ELSE step[f[k-1]]]
      <3> HIDE DEF step
      <3> QED
        BY <2>2
    <2>4. f = D(f)
      <3> HIDE DEF D, step
      <3> QED
        BY <2>1, <2>3
    <2> QED
      BY <2>4
  <1>4. w = D(w)
    <2> HIDE DEF D
    <2> QED
      BY <1>3
  <1> HIDE DEF w
  <1>5. w[0] = s /\ \A k \in 1..max : w[k] = Inserting(w[k-1], big, max)
    <2>1. \A k \in 0..max : w[k] = IF k = 0 THEN s ELSE Inserting(w[k-1], big, max)
      BY <1>4
    <2> HIDE DEF max
    <2> QED
      BY <2>1, <1>1
  <1> HIDE DEF n
  <1> DEFINE Good(k) == \E j, v : Sorting(c, w[k], j, v, big) /\ (j = k \/ j = n)
             P == {k \in Nat : w[k] \in Inserts /\ Good(k)}
  <1>6. 0 \in P
    BY <1>5
  <1>7. ASSUME NEW k \in 1..max, k - 1 \in P PROVE k \in P
    <2>1. PICK j, v : Sorting(c, w[k-1], j, v, big) /\ (j = k - 1 \/ j = n)
      BY <1>7
    <2>2. w[k-1] \in Inserts /\ w[k] = Inserting(w[k-1], big, max)
      BY <1>5, <1>7
    <2>3. w[k] \in Inserts
      BY <2>1, <2>2, RoundInserts
    <2>4. CASE j = n
      <3>1. w[k-1].heap.next[w[k-1].i] = NULL
        BY <2>1, <2>2, <2>4, RoundInserts DEF n
      <3>2. w[k] = w[k-1]
        <4> HIDE DEF max, P
        <4> QED
          BY <2>2, <3>1, Zenon DEF Inserting
      <3>3. Good(k)
        BY <2>1, <2>4, <3>2
      <3> QED
        BY <2>3, <3>3
    <2>5. CASE j # n
      <3>1. \E u : Sorting(c, w[k], j + 1, u, big)
        BY <2>1, <2>2, <2>5, RoundInserts DEF n
      <3>2. j + 1 = k
        BY <2>1, <2>5
      <3>3. Good(k)
        BY <3>1, <3>2
      <3> QED
        BY <2>3, <3>3
    <2> QED
      BY <2>4, <2>5
  <1>8. max \in P
    <2>1. P \in SUBSET Nat /\ max \in 0..max
      BY <1>1
    <2> HIDE DEF P
    <2> QED
      BY <1>1, <1>6, <1>7, <2>1, StepByStep
  <1>9. PICK j, v : Sorting(c, w[max], j, v, big) /\ (j = max \/ j = n)
    BY <1>8
  <1>10. j = n
    <2>1. j \in 0..n
      BY <1>9 DEF Sorting, n
    <2> HIDE DEF max
    <2> QED
      BY <1>1, <1>9, <2>1
  <1>11. Inserted(s, big, max) =
            [Link(w[max].heap, w[max].heap.prev[end], w[max].i) EXCEPT !.prev[beg] = w[max].i]
    BY Zenon DEF Inserted, w
  <1> QED
    BY <1>8, <1>9, <1>10, <1>11 DEF n

\* The items are in order between beg and the spare node, but the node of the handle
\* need not be the first.
Sorted(c, hp, u, big) ==
    LET n == Len(c) - 1 IN
    /\ Row(hp, u) /\ Len(u) = n + 2 /\ u[1] = beg /\ u[n+2] = c[n+1]
    /\ \A j \in 2..n+1 : \E l \in 1..n : u[j] = c[l]
    /\ \A l \in 1..n : \E j \in 2..n+1 : u[j] = c[l]
    /\ \A i, j \in 2..n+1 : i < j => Goes(big, data[u[i]].key, data[u[j]].key)
    /\ hp.next[c[n+1]] = NULL /\ hp.prev[beg] = c[n+1]
    /\ \A x \in Node : hp.data[x] = data[x]
    /\ \A x \in Node : (\A j \in 1..n+1 : x # c[j]) =>
          hp.next[x] = next[x] /\ hp.prev[x] = prev[x]

LEMMA InsertedIsSorted ==
    ASSUME HeapInv, NEW c, IsList(c, next, prev, data), KeysOf(c), NEW big \in BOOLEAN,
           NEW s \in Inserts, NEW v0, Sorting(c, s, 0, v0, big)
    PROVE  \E u : /\ Sorted(c, Inserted(s, big, Len(c)), u, big)
                  /\ Inserted(s, big, Len(c)) \in EndHeaps
  <1> DEFINE n == Len(c) - 1
             z == c[n+1]
             hp == Inserted(s, big, Len(c))
  <1>1. n \in Nat /\ n + 1 = Len(c) /\ \A i \in 1..n+1 : c[i] \in Node
    BY DEF IsList
  <1>2. \A i, j \in 1..n+1 : c[i] = c[j] => i = j
    BY <1>1 DEF IsList
  <1>0. PICK t \in Inserts : \E v :
           /\ Sorting(c, t, n, v, big)
           /\ hp = [Link(t.heap, t.heap.prev[end], t.i) EXCEPT !.prev[beg] = t.i]
    BY LoopInserts
  <1>3. PICK v : /\ Sorting(c, t, n, v, big)
                 /\ hp = [Link(t.heap, t.heap.prev[end], t.i) EXCEPT !.prev[beg] = t.i]
    BY <1>0
  <1> HIDE DEF hp
  <1> DEFINE h0 == t.heap
             h1 == Link(h0, v[n+1], z)
             u == [v EXCEPT ![n+2] = z]
  <1>4. /\ t.i = z
        /\ Row(h0, v) /\ Len(v) = n + 2 /\ v[1] = beg /\ v[n+2] = end
        /\ \A j \in 2..n+1 : \E l \in 1..n : v[j] = c[l]
        /\ \A l \in 1..n : \E j \in 2..n+1 : v[j] = c[l]
        /\ \A i, j \in 2..n+1 : i < j => Goes(big, data[v[i]].key, data[v[j]].key)
    BY <1>3 DEF Sorting
  <1>5. /\ h0.next[end] = NULL /\ h0.next[z] = NULL
        /\ \A x \in Node : h0.data[x] = data[x]
        /\ \A x \in Node : (\A j \in 1..n+1 : x # c[j]) =>
              h0.next[x] = next[x] /\ h0.prev[x] = prev[x]
    BY <1>3 DEF Sorting
  <1>6. h0 \in EndHeaps
    BY DEF Inserts
  <1> HIDE DEF n, h0
  <1>7. v \in Seq(Ends) /\ \A i, j \in 1..n+2 : v[i] = v[j] => i = j
    BY <1>4 DEF Row
  <1>8. \A j \in 1..n+1 : h0.next[v[j]] = v[j+1] /\ h0.prev[v[j+1]] = v[j]
    <2>1. (n + 2) - 1 = n + 1
      BY <1>1
    <2> QED
      BY <1>4, <2>1 DEF Row
  <1>9. /\ n + 1 \in 1..n+1 /\ n + 2 \in 1..n+2 /\ (n + 1) + 1 = n + 2 /\ n + 1 \in 1..n+2
        /\ z \in Node /\ z \in Ends /\ n + 2 \in Nat /\ v[n+1] \in Ends
    <2>1. /\ n + 1 \in 1..n+1 /\ n + 2 \in 1..n+2 /\ (n + 1) + 1 = n + 2 /\ n + 1 \in 1..n+2
          /\ n + 2 \in Nat
      BY <1>1
    <2>2. z \in Node /\ z \in Ends
      BY <1>1, <2>1 DEF Ends
    <2>3. v[n+1] \in Ends
      BY <1>4, <1>7, <2>1
    <2> QED
      BY <2>1, <2>2, <2>3
  <1>10. h0.prev[end] = v[n+1]
    BY <1>4, <1>8, <1>9
  <1>11. \A j \in 1..n+2 : v[j] # z
    <2> TAKE j \in 1..n+2
    <2>1. CASE j = 1 \/ j = n + 2
      BY <1>4, <1>9, <2>1
    <2>2. CASE j # 1 /\ j # n + 2
      <3>1. j \in 2..n+1
        BY <1>1, <2>2
      <3>2. PICK l \in 1..n : v[j] = c[l]
        BY <1>4, <3>1
      <3>3. l \in 1..n+1 /\ l # n + 1
        BY <1>1
      <3> QED
        BY <1>2, <1>9, <3>2, <3>3
    <2> QED
      BY <2>1, <2>2
  <1> HIDE DEF z
  <1>12. Joint(h1, h0, v[n+1], z)
    BY <1>6, <1>9, LinkJoins
  <1>13. hp = [h1 EXCEPT !.prev[beg] = z]
    BY <1>3, <1>4, <1>10 DEF h0
  <1> HIDE DEF h1
  <1>14. Row(h1, u)
    <2>1. z \notin Range(v)
      <3>1. Range(v) = {v[j] : j \in 1..Len(v)}
        BY <1>7, RangeIs
      <3> QED
        BY <1>4, <1>11, <3>1
    <2>2. v[Len(v)-1] = v[n+1] /\ u = [v EXCEPT ![Len(v)] = z]
      <3>1. (n + 2) - 1 = n + 1
        BY <1>1
      <3> QED
        BY <1>4, <3>1
    <2> HIDE DEF u
    <2> QED
      BY <1>4, <1>6, <1>9, <1>12, <2>1, <2>2, RowEnd
  <1>15. /\ hp \in EndHeaps /\ hp.next = h1.next /\ hp.data = h1.data
         /\ hp.prev = [h1.prev EXCEPT ![beg] = z]
    <2>1. h1 \in EndHeaps /\ beg \in Ends
      BY <1>12 DEF Joint, Ends
    <2>2. hp = [next |-> h1.next, prev |-> [h1.prev EXCEPT ![beg] = z], data |-> h1.data]
      BY <1>13, <2>1 DEF EndHeaps
    <2>3. h1.next \in EndLinks /\ h1.prev \in EndLinks /\ h1.data \in [Ends -> Item]
      BY <2>1 DEF EndHeaps
    <2>4. [h1.prev EXCEPT ![beg] = z] \in EndLinks
      BY <1>9, <2>3 DEF EndLinks
    <2> QED
      BY <2>2, <2>3, <2>4 DEF EndHeaps
  <1>16. hp.prev[beg] = z /\ \A x \in Ends : x # beg => hp.prev[x] = h1.prev[x]
    <2>1. h1.prev \in EndLinks /\ beg \in Ends
      BY <1>12 DEF Joint, EndHeaps, Ends
    <2> QED
      BY <1>15, <2>1 DEF EndLinks
  <1>17. /\ u \in Seq(Ends) /\ Len(u) = n + 2
         /\ \A j \in 1..n+2 : u[j] = IF j = n + 2 THEN z ELSE v[j]
    BY <1>4, <1>7, <1>9
  <1> HIDE DEF u
  <1>18. \A j \in 2..n+1 : u[j] = v[j]
    BY <1>1, <1>17
  <1>19. u[1] = beg /\ u[n+2] = z
    <2>1. 1 \in 1..n+2 /\ 1 # n + 2
      BY <1>1
    <2> QED
      BY <1>4, <1>9, <1>17, <2>1
  <1>20. Row(hp, u)
    <2>1. \A j, k \in 1..n+2 : u[j] = u[k] => j = k
      BY <1>14, <1>17 DEF Row
    <2>2. \A k \in 1..Len(u)-1 : h1.next[u[k]] = u[k+1] /\ h1.prev[u[k+1]] = u[k]
      BY <1>14 DEF Row
    <2>3. \A k \in 1..Len(u)-1 : u[k+1] # beg /\ u[k+1] \in Ends
      <3> TAKE k \in 1..Len(u)-1
      <3>1. k + 1 \in 1..n+2 /\ k + 1 # 1 /\ 1 \in 1..n+2
        BY <1>1, <1>17
      <3>2. u[k+1] # u[1]
        BY <2>1, <3>1
      <3>3. u[k+1] \in Ends
        BY <1>17, <3>1
      <3> QED
        BY <1>19, <3>2, <3>3
    <2>4. \A k \in 1..Len(u)-1 : hp.next[u[k]] = u[k+1] /\ hp.prev[u[k+1]] = u[k]
      BY <1>15, <1>16, <2>2, <2>3
    <2>5. Len(u) \in Nat \ {0, 1}
      BY <1>1, <1>17
    <2> QED
      BY <1>17, <2>1, <2>4, <2>5 DEF Row
  <1>21. hp.next[z] = NULL
    <2>1. z # v[n+1]
      BY <1>9, <1>11
    <2> QED
      BY <1>5, <1>9, <1>12, <1>15, <2>1 DEF Joint
  <1>22. \A x \in Node : hp.data[x] = data[x]
    BY <1>5, <1>12, <1>15 DEF Joint
  <1>23. ASSUME NEW x \in Node, \A j \in 1..n+1 : x # c[j]
         PROVE  hp.next[x] = next[x] /\ hp.prev[x] = prev[x]
    <2>1. x # z /\ x # beg /\ x \in Ends
      BY <1>9, <1>23 DEF z, Ends
    <2>2. x # v[n+1]
      <3>1. CASE n = 0
        BY <1>4, <2>1, <3>1
      <3>2. CASE n # 0
        <4>1. n + 1 \in 2..n+1
          BY <1>1, <3>2
        <4>2. PICK l \in 1..n : v[n+1] = c[l]
          BY <1>4, <4>1
        <4>3. l \in 1..n+1
          BY <1>1
        <4> QED
          BY <1>23, <4>2, <4>3
      <3> QED
        BY <3>1, <3>2
    <2> QED
      BY <1>5, <1>12, <1>15, <1>16, <1>23, <2>1, <2>2 DEF Joint
  <1>24. Sorted(c, hp, u, big)
    <2>1. \A j \in 2..n+1 : \E l \in 1..n : u[j] = c[l]
      BY <1>4, <1>18
    <2>2. \A l \in 1..n : \E j \in 2..n+1 : u[j] = c[l]
      <3> TAKE l \in 1..n
      <3>1. PICK j \in 2..n+1 : v[j] = c[l]
        BY <1>4
      <3>2. u[j] = c[l]
        BY <1>18, <3>1
      <3> QED
        BY <3>2
    <2>3. \A i, j \in 2..n+1 : i < j => Goes(big, data[u[i]].key, data[u[j]].key)
      BY <1>4, <1>18
    <2> QED
      BY <1>16, <1>17, <1>19, <1>20, <1>21, <1>22, <1>23, <2>1, <2>2, <2>3 DEF Sorted, n, z
  <1> QED
    BY <1>15, <1>24 DEF hp

\* The second node of a row and the one at position r have changed places, and
\* items, and the rest is as it was.
Swap2(u, r) == [u EXCEPT ![2] = u[r], ![r] = u[2]]
Leads(hp2, hp, u, r) ==
    /\ hp2 \in EndHeaps /\ Row(hp2, Swap2(u, r))
    /\ hp2.data = [hp.data EXCEPT ![u[2]] = hp.data[u[r]], ![u[r]] = hp.data[u[2]]]
    /\ \A x \in Ends : (\A j \in 1..Len(u)-1 : x # u[j]) => hp2.next[x] = hp.next[x]
    /\ \A x \in Ends : (\A j \in 2..Len(u) : x # u[j]) => hp2.prev[x] = hp.prev[x]

LEMMA SwapIs ==
    ASSUME NEW S, NEW u \in Seq(S), NEW r \in 2..Len(u)
    PROVE  /\ Swap2(u, r) \in Seq(S) /\ Len(Swap2(u, r)) = Len(u)
           /\ \A j \in 1..Len(u) :
                 Swap2(u, r)[j] = IF j = 2 THEN u[r] ELSE IF j = r THEN u[2] ELSE u[j]
  <1> DEFINE L == Len(u)
  <1>1. L \in Nat /\ 2 \in 1..L /\ r \in 1..L /\ u \in [1..L -> S]
    <2>1. L \in Nat /\ u \in [1..L -> S]
      OBVIOUS
    <2> HIDE DEF L
    <2>2. 2 \in 1..L /\ r \in 1..L
      BY <2>1 DEF L
    <2> QED
      BY <2>1, <2>2
  <1>2. u[r] \in S /\ u[2] \in S
    BY <1>1
  <1> DEFINE t == [u EXCEPT ![2] = u[r], ![r] = u[2]]
  <1>3. t \in [1..L -> S]
    BY <1>1, <1>2
  <1>4. \A j \in 1..L : t[j] = IF j = 2 THEN u[r] ELSE IF j = r THEN u[2] ELSE u[j]
    <2> TAKE j \in 1..L
    <2> HIDE DEF L
    <2>1. CASE j = r
      BY <1>1, <2>1
    <2>2. CASE j # r
      BY <1>1, <2>2
    <2> QED
      BY <2>1, <2>2
  <1> HIDE DEF t
  <1>5. t \in Seq(S) /\ Len(t) = L
    BY <1>1, <1>3
  <1> QED
    BY <1>4, <1>5 DEF Swap2, t

\* The nodes of a row of L nodes.
RowOf(hp, u, L) ==
    /\ u \in Seq(Ends) /\ L \in Nat /\ L >= 2
    /\ \A j \in 1..L : u[j] \in Ends
    /\ \A j, k \in 1..L : u[j] = u[k] => j = k
    /\ \A k \in 1..L-1 : hp.next[u[k]] = u[k+1] /\ hp.prev[u[k+1]] = u[k]

LEMMA RowIs ==
    ASSUME NEW hp, NEW u, Row(hp, u), NEW L, Len(u) = L
    PROVE  RowOf(hp, u, L)
  <1>1. u \in Seq(Ends) /\ L \in Nat \ {0, 1}
    BY Zenon DEF Row
  <1>2. \A j \in 1..L : u[j] \in Ends
    BY <1>1
  <1> QED
    BY <1>1, <1>2 DEF Row, RowOf

\* Exchange leaves the links.
Exchanged(h0, hp, a, b) ==
    /\ h0 \in EndHeaps /\ h0.next = hp.next /\ h0.prev = hp.prev
    /\ h0.data = [hp.data EXCEPT ![a] = hp.data[b], ![b] = hp.data[a]]

LEMMA ExchangeKeeps ==
    ASSUME NEW hp \in EndHeaps, NEW a \in Ends, NEW b \in Ends
    PROVE  Exchanged(Exchange(hp, a, b), hp, a, b)
  <1> DEFINE dt == [hp.data EXCEPT ![a] = hp.data[b], ![b] = hp.data[a]]
             r == Exchange(hp, a, b)
  <1>1. hp.next \in EndLinks /\ hp.prev \in EndLinks /\ hp.data \in [Ends -> Item]
    BY DEF EndHeaps
  <1>2. r = [next |-> hp.next, prev |-> hp.prev, data |-> dt]
    <2>1. r = [hp EXCEPT !.data[a] = hp.data[b], !.data[b] = hp.data[a]]
      BY DEF Exchange
    <2> HIDE DEF r
    <2> QED
      BY <2>1 DEF EndHeaps
  <1>3. dt \in [Ends -> Item]
    BY <1>1
  <1> HIDE DEF r, dt
  <1> QED
    BY <1>1, <1>2, <1>3 DEF EndHeaps, dt, r, Exchanged

\* The two are next to each other.
LEMMA FrontNear ==
    ASSUME NEW hp \in EndHeaps, NEW u, Row(hp, u), 3 \in 2..Len(u)-1,
           NEW h0 \in EndHeaps, h0.next = hp.next, h0.prev = hp.prev,
           h0.data = [hp.data EXCEPT ![u[2]] = hp.data[u[3]], ![u[3]] = hp.data[u[2]]],
           NEW h1, NEW h2, NEW h3,
           Joint(h1, h0, u[1], u[3]), Joint(h2, h1, u[3], u[2]), Joint(h3, h2, u[2], u[4])
    PROVE  Leads(h3, hp, u, 3)
  <1> DEFINE L == Len(u)
             t == Swap2(u, 3)
  <1>1. /\ u \in Seq(Ends) /\ L \in Nat /\ L >= 2
        /\ \A j \in 1..L : u[j] \in Ends
        /\ \A j, k \in 1..L : u[j] = u[k] => j = k
        /\ \A k \in 1..L-1 : hp.next[u[k]] = u[k+1] /\ hp.prev[u[k+1]] = u[k]
    <2>1. RowOf(hp, u, L)
      BY RowIs
    <2> HIDE DEF L
    <2> QED
      BY <2>1 DEF RowOf
  <1>2. t \in Seq(Ends) /\ Len(t) = L
        /\ \A j \in 1..L : t[j] = IF j = 2 THEN u[3] ELSE IF j = 3 THEN u[2] ELSE u[j]
    <2>1. 3 \in 2..Len(u)
      OBVIOUS
    <2> QED
      BY <1>1, <2>1, SwapIs
  <1> HIDE DEF L, t
  <1>3. L >= 4 /\ 1 \in 1..L /\ 2 \in 1..L /\ 3 \in 1..L /\ 4 \in 1..L
    BY <1>1 DEF L
  <1>4. /\ u[1] \in Ends /\ u[2] \in Ends /\ u[3] \in Ends /\ u[4] \in Ends
        /\ u[1] # u[2] /\ u[1] # u[3] /\ u[2] # u[3] /\ u[2] # u[4] /\ u[3] # u[4]
    BY <1>1, <1>3
  <1>5. /\ h3.next[u[1]] = u[3] /\ h3.next[u[3]] = u[2] /\ h3.next[u[2]] = u[4]
        /\ \A x \in Ends : x # u[1] /\ x # u[2] /\ x # u[3] => h3.next[x] = hp.next[x]
    BY <1>4 DEF Joint
  <1>6. /\ h3.prev[u[3]] = u[1] /\ h3.prev[u[2]] = u[3] /\ h3.prev[u[4]] = u[2]
        /\ \A x \in Ends : x # u[2] /\ x # u[3] /\ x # u[4] => h3.prev[x] = hp.prev[x]
    BY <1>4 DEF Joint
  <1>7. h3 \in EndHeaps /\ h3.data = h0.data
    BY DEF Joint
  <1>8. \A j, k \in 1..L : t[j] = t[k] => j = k
    BY <1>1, <1>2, <1>3, SMTT(60)
  <1>9. t[1] = u[1] /\ t[2] = u[3] /\ t[3] = u[2] /\ t[4] = u[4]
    BY <1>2, <1>3
  <1>10. ASSUME NEW k \in 1..L-1 PROVE h3.next[t[k]] = t[k+1] /\ h3.prev[t[k+1]] = t[k]
    <2>1. CASE k = 1 \/ k = 2 \/ k = 3
      BY <1>5, <1>6, <1>9, <2>1
    <2>2. CASE k # 1 /\ k # 2 /\ k # 3
      <3>1. /\ k \in 1..L /\ k + 1 \in 1..L /\ k # 1 /\ k # 2 /\ k # 3
            /\ k + 1 # 2 /\ k + 1 # 3 /\ k + 1 # 4
        BY <1>1, <2>2
      <3>2. t[k] = u[k] /\ t[k+1] = u[k+1]
        BY <1>2, <3>1
      <3>3. /\ u[k] \in Ends /\ u[k] # u[1] /\ u[k] # u[2] /\ u[k] # u[3]
            /\ u[k+1] \in Ends /\ u[k+1] # u[2] /\ u[k+1] # u[3] /\ u[k+1] # u[4]
        BY <1>1, <1>3, <3>1
      <3>4. h3.next[u[k]] = hp.next[u[k]] /\ h3.prev[u[k+1]] = hp.prev[u[k+1]]
        BY <1>5, <1>6, <3>3
      <3> QED
        BY <1>1, <3>2, <3>4
    <2> QED
      BY <2>1, <2>2
  <1>11. Row(h3, t)
    <2>1. Len(t) \in Nat \ {0, 1} /\ Len(t) - 1 = L - 1
      BY <1>1, <1>2
    <2> QED
      BY <1>2, <1>8, <1>10, <2>1 DEF Row
  <1>12. \A x \in Ends : (\A j \in 1..L-1 : x # u[j]) => h3.next[x] = hp.next[x]
    <2>1. 1 \in 1..L-1 /\ 2 \in 1..L-1 /\ 3 \in 1..L-1
      BY <1>1, <1>3
    <2> QED
      BY <1>5, <2>1
  <1>13. \A x \in Ends : (\A j \in 2..L : x # u[j]) => h3.prev[x] = hp.prev[x]
    <2>1. 2 \in 2..L /\ 3 \in 2..L /\ 4 \in 2..L
      BY <1>1, <1>3
    <2> QED
      BY <1>6, <2>1
  <1> QED
    BY <1>7, <1>11, <1>12, <1>13 DEF Leads, L, t

\* There are others between them.
LEMMA FrontFar ==
    ASSUME NEW hp \in EndHeaps, NEW u, Row(hp, u), NEW r \in 4..Len(u)-1,
           NEW h0 \in EndHeaps, h0.next = hp.next, h0.prev = hp.prev,
           h0.data = [hp.data EXCEPT ![u[2]] = hp.data[u[r]], ![u[r]] = hp.data[u[2]]],
           NEW h1, NEW h2, NEW h3, NEW h4,
           Joint(h1, h0, u[1], u[r]), Joint(h2, h1, u[r], u[3]),
           Joint(h3, h2, u[r-1], u[2]), Joint(h4, h3, u[2], u[r+1])
    PROVE  Leads(h4, hp, u, r)
  <1> DEFINE L == Len(u)
             t == Swap2(u, r)
  <1>1. /\ u \in Seq(Ends) /\ L \in Nat /\ L >= 2
        /\ \A j \in 1..L : u[j] \in Ends
        /\ \A j, k \in 1..L : u[j] = u[k] => j = k
        /\ \A k \in 1..L-1 : hp.next[u[k]] = u[k+1] /\ hp.prev[u[k+1]] = u[k]
    <2>1. RowOf(hp, u, L)
      BY RowIs
    <2> HIDE DEF L
    <2> QED
      BY <2>1 DEF RowOf
  <1>0. r \in 4..L-1
    OBVIOUS
  <1> HIDE DEF L
  <1>3. /\ L >= 5 /\ 1 \in 1..L /\ 2 \in 1..L /\ 3 \in 1..L /\ r \in 1..L
        /\ r - 1 \in 1..L /\ r + 1 \in 1..L /\ r \in 2..L
        /\ r - 1 # 1 /\ r - 1 # 2 /\ r - 1 # r /\ r # 1 /\ r # 2 /\ r # 3 /\ r + 1 # 1
        /\ r + 1 # 2 /\ r + 1 # 3 /\ r + 1 # r /\ r + 1 # r - 1
    <2>1. L \in Nat /\ r \in Nat /\ r >= 4 /\ r <= L - 1
      BY <1>0, <1>1
    <2> QED
      BY <2>1
  <1>2. t \in Seq(Ends) /\ Len(t) = L
        /\ \A j \in 1..L : t[j] = IF j = 2 THEN u[r] ELSE IF j = r THEN u[2] ELSE u[j]
    BY <1>1, <1>3, SwapIs DEF L
  <1> HIDE DEF t
  <1>4. /\ u[1] \in Ends /\ u[2] \in Ends /\ u[3] \in Ends /\ u[r] \in Ends
        /\ u[r-1] \in Ends /\ u[r+1] \in Ends
        /\ u[1] # u[2] /\ u[1] # u[3] /\ u[1] # u[r] /\ u[1] # u[r-1]
        /\ u[2] # u[3] /\ u[2] # u[r] /\ u[2] # u[r-1] /\ u[2] # u[r+1]
        /\ u[3] # u[r] /\ u[3] # u[r+1] /\ u[r] # u[r-1] /\ u[r] # u[r+1]
    BY <1>1, <1>3
  <1>5. /\ h4.next[u[1]] = u[r] /\ h4.next[u[r]] = u[3] /\ h4.next[u[r-1]] = u[2]
        /\ h4.next[u[2]] = u[r+1]
        /\ \A x \in Ends : x # u[1] /\ x # u[2] /\ x # u[r] /\ x # u[r-1] =>
              h4.next[x] = hp.next[x]
    BY <1>4 DEF Joint
  <1>6. /\ h4.prev[u[r]] = u[1] /\ h4.prev[u[3]] = u[r] /\ h4.prev[u[2]] = u[r-1]
        /\ h4.prev[u[r+1]] = u[2]
        /\ \A x \in Ends : x # u[2] /\ x # u[3] /\ x # u[r] /\ x # u[r+1] =>
              h4.prev[x] = hp.prev[x]
    BY <1>4 DEF Joint
  <1>7. h4 \in EndHeaps /\ h4.data = h0.data
    BY DEF Joint
  <1>8. \A j, k \in 1..L : t[j] = t[k] => j = k
    <2> DEFINE m(j) == IF j = 2 THEN r ELSE IF j = r THEN 2 ELSE j
    <2>1. \A j \in 1..L : m(j) \in 1..L /\ t[j] = u[m(j)]
      BY <1>2, <1>3
    <2>2. \A j, k \in 1..L : m(j) = m(k) => j = k
      BY <1>3
    <2> HIDE DEF m
    <2> SUFFICES ASSUME NEW j \in 1..L, NEW k \in 1..L, t[j] = t[k] PROVE j = k
      OBVIOUS
    <2>3. m(j) \in 1..L /\ m(k) \in 1..L /\ u[m(j)] = u[m(k)]
      BY <2>1
    <2>4. m(j) = m(k)
      <3>1. \A i, l \in 1..L : u[i] = u[l] => i = l
        BY <1>1
      <3> QED
        BY <2>3, <3>1
    <2> QED
      BY <2>2, <2>4
  <1>9. /\ t[1] = u[1] /\ t[2] = u[r] /\ t[3] = u[3] /\ t[r-1] = u[r-1] /\ t[r] = u[2]
        /\ t[r+1] = u[r+1]
    BY <1>2, <1>3
  <1>10. ASSUME NEW k \in 1..L-1 PROVE h4.next[t[k]] = t[k+1] /\ h4.prev[t[k+1]] = t[k]
    <2>1. CASE k = 1
      BY <1>5, <1>6, <1>9, <2>1
    <2>2. CASE k = 2
      BY <1>5, <1>6, <1>9, <2>2
    <2>3. CASE k = r - 1
      <3>1. k + 1 = r
        BY <1>0, <2>3
      <3>2. t[k] = u[r-1] /\ t[k+1] = u[2]
        BY <1>9, <2>3, <3>1
      <3> QED
        BY <1>5, <1>6, <3>2
    <2>4. CASE k = r
      BY <1>5, <1>6, <1>9, <2>4
    <2>5. CASE k # 1 /\ k # 2 /\ k # r - 1 /\ k # r
      <3>1. /\ k \in 1..L /\ k + 1 \in 1..L
            /\ k + 1 # 2 /\ k + 1 # 3 /\ k + 1 # r /\ k + 1 # r + 1
        BY <1>0, <1>1, <2>5
      <3>2. t[k] = u[k] /\ t[k+1] = u[k+1]
        BY <1>2, <2>5, <3>1
      <3>3. /\ u[k] \in Ends /\ u[k] # u[1] /\ u[k] # u[2] /\ u[k] # u[r] /\ u[k] # u[r-1]
        BY <1>1, <1>3, <2>5, <3>1
      <3>4. /\ u[k+1] \in Ends /\ u[k+1] # u[2] /\ u[k+1] # u[3] /\ u[k+1] # u[r]
            /\ u[k+1] # u[r+1]
        BY <1>1, <1>3, <3>1
      <3>5. h4.next[u[k]] = hp.next[u[k]] /\ h4.prev[u[k+1]] = hp.prev[u[k+1]]
        BY <1>5, <1>6, <3>3, <3>4
      <3> QED
        BY <1>1, <3>2, <3>5
    <2> QED
      BY <2>1, <2>2, <2>3, <2>4, <2>5
  <1>11. Row(h4, t)
    <2>1. Len(t) \in Nat \ {0, 1} /\ Len(t) - 1 = L - 1
      BY <1>1, <1>2
    <2> QED
      BY <1>2, <1>8, <1>10, <2>1 DEF Row
  <1>12. \A x \in Ends : (\A j \in 1..L-1 : x # u[j]) => h4.next[x] = hp.next[x]
    <2>1. 1 \in 1..L-1 /\ 2 \in 1..L-1 /\ r \in 1..L-1 /\ r - 1 \in 1..L-1
      BY <1>0, <1>1, <1>3
    <2> QED
      BY <1>5, <2>1
  <1>13. \A x \in Ends : (\A j \in 2..L : x # u[j]) => h4.prev[x] = hp.prev[x]
    <2>1. 2 \in 2..L /\ 3 \in 2..L /\ r \in 2..L /\ r + 1 \in 2..L
      BY <1>0, <1>1, <1>3
    <2> QED
      BY <1>6, <2>1
  <1> QED
    BY <1>7, <1>11, <1>12, <1>13 DEF Leads, L, t

\* The node of the handle comes to the front.
LEMMA FrontedIs ==
    ASSUME NEW hp \in EndHeaps, NEW u, Row(hp, u), u[1] = beg, NEW r \in 2..Len(u)-1
    PROVE  Leads(Fronted(hp, u[r]), hp, u, r)
  <1> DEFINE L == Len(u)
             h0 == Exchange(hp, u[2], u[r])
             h1 == Link(h0, u[1], u[r])
  <1>1. /\ u \in Seq(Ends) /\ L \in Nat /\ L >= 2
        /\ \A j \in 1..L : u[j] \in Ends
        /\ \A j, k \in 1..L : u[j] = u[k] => j = k
        /\ \A k \in 1..L-1 : hp.next[u[k]] = u[k+1] /\ hp.prev[u[k+1]] = u[k]
    <2>1. RowOf(hp, u, L)
      BY RowIs
    <2> HIDE DEF L
    <2> QED
      BY <2>1 DEF RowOf
  <1>0. r \in 2..L-1
    OBVIOUS
  <1> HIDE DEF L
  <1>2. /\ 1 \in 1..L-1 /\ 2 \in 1..L-1 /\ r \in 1..L-1 /\ r - 1 \in 1..L-1
        /\ 1 \in 1..L /\ 2 \in 1..L /\ r \in 1..L /\ r - 1 \in 1..L /\ r + 1 \in 1..L
        /\ (r - 1) + 1 = r /\ 1 + 1 = 2 /\ 2 + 1 = 3 /\ 3 \in 1..L
    BY <1>0, <1>1
  <1>3. /\ hp.next[beg] = u[2] /\ hp.next[u[2]] = u[3] /\ hp.prev[u[r]] = u[r-1]
        /\ hp.next[u[r]] = u[r+1]
    BY <1>1, <1>2
  <1>4. /\ h0 \in EndHeaps /\ h0.next = hp.next /\ h0.prev = hp.prev
        /\ h0.data = [hp.data EXCEPT ![u[2]] = hp.data[u[r]], ![u[r]] = hp.data[u[2]]]
    <2>1. u[2] \in Ends /\ u[r] \in Ends
      BY <1>1, <1>2
    <2>2. Exchanged(h0, hp, u[2], u[r])
      BY <2>1, ExchangeKeeps
    <2> HIDE DEF h0
    <2> QED
      BY <2>2 DEF Exchanged
  <1> HIDE DEF h0
  <1>5. Joint(h1, h0, u[1], u[r])
    BY <1>1, <1>2, <1>4, LinkJoins
  <1>6. CASE r = 2
    <2>1. Fronted(hp, u[r]) = hp
      BY <1>3, <1>6 DEF Fronted
    <2>2. Swap2(u, r) = u
      <3>1. u = [j \in 1..L |-> u[j]]
        BY <1>1 DEF L
      <3> QED
        BY <1>6, <3>1 DEF Swap2
    <2>3. hp.data = [hp.data EXCEPT ![u[2]] = hp.data[u[r]], ![u[r]] = hp.data[u[2]]]
      <3>1. hp.data = [x \in Ends |-> hp.data[x]]
        BY DEF EndHeaps
      <3> QED
        BY <1>6, <3>1
    <2> QED
      BY <2>1, <2>2, <2>3 DEF Leads
  <1>7. CASE r = 3
    <2> DEFINE h2 == Link(h1, u[3], u[2])
               h3 == Link(h2, u[2], u[4])
    <2>1. Fronted(hp, u[r]) = h3
      <3>1. u[2] # u[3]
        BY <1>1, <1>2
      <3>2. /\ hp.next[beg] = u[2] /\ hp.next[u[2]] = u[3] /\ hp.next[u[3]] = u[4]
            /\ u[r] = u[3]
        BY <1>3, <1>7
      <3> QED
        BY <3>1, <3>2, Zenon DEF Fronted, h0
    <2> HIDE DEF h1
    <2>2. Joint(h2, h1, u[3], u[2])
      <3>1. h1 \in EndHeaps
        BY <1>5 DEF Joint
      <3> QED
        BY <1>1, <1>2, <3>1, LinkJoins
    <2> HIDE DEF h2
    <2>3. Joint(h3, h2, u[2], u[4])
      <3>1. h2 \in EndHeaps
        BY <2>2 DEF Joint
      <3>2. 4 \in 1..L
        BY <1>2, <1>7
      <3> QED
        BY <1>1, <1>2, <3>1, <3>2, LinkJoins
    <2> HIDE DEF h3
    <2>4. 3 \in 2..Len(u)-1
      BY <1>0, <1>7 DEF L
    <2> QED
      BY <1>4, <1>5, <1>7, <2>1, <2>2, <2>3, <2>4, FrontNear
  <1>8. CASE r # 2 /\ r # 3
    <2> DEFINE h2 == Link(h1, u[r], u[3])
               h3 == Link(h2, u[r-1], u[2])
               h4 == Link(h3, u[2], u[r+1])
    <2>1. Fronted(hp, u[r]) = h4
      <3>1. u[2] # u[r] /\ u[3] # u[r]
        BY <1>1, <1>2, <1>8
      <3> QED
        BY <1>3, <3>1, Zenon DEF Fronted, h0
    <2> HIDE DEF h1
    <2>2. Joint(h2, h1, u[r], u[3])
      <3>1. h1 \in EndHeaps
        BY <1>5 DEF Joint
      <3> QED
        BY <1>1, <1>2, <3>1, LinkJoins
    <2> HIDE DEF h2
    <2>3. Joint(h3, h2, u[r-1], u[2])
      <3>1. h2 \in EndHeaps
        BY <2>2 DEF Joint
      <3> QED
        BY <1>1, <1>2, <3>1, LinkJoins
    <2> HIDE DEF h3
    <2>4. Joint(h4, h3, u[2], u[r+1])
      <3>1. h3 \in EndHeaps
        BY <2>3 DEF Joint
      <3> QED
        BY <1>1, <1>2, <3>1, LinkJoins
    <2> HIDE DEF h4
    <2>5. r \in 4..Len(u)-1
      BY <1>0, <1>8 DEF L
    <2> QED
      BY <1>4, <1>5, <2>1, <2>2, <2>3, <2>4, <2>5, FrontFar
  <1> QED
    BY <1>6, <1>7, <1>8

\* A list that has been put in order: it begins and ends with the nodes it had, and
\* its k-th item is the one that was at q[k].
Ordered(c, hp, t, q, big) ==
    LET n == Len(c) - 1 IN
    /\ hp \in EndHeaps /\ IsList(t, hp.next, hp.prev, hp.data)
    /\ Len(t) = n + 1 /\ t[1] = c[1] /\ Range(t) = Range(c)
    /\ q \in [1..n -> 1..n] /\ IsInjective(q)
    /\ \A k \in 1..n : hp.data[t[k]] = data[c[q[k]]]
    /\ \A i, j \in 1..n : i < j => Goes(big, data[c[q[i]]].key, data[c[q[j]]].key)
    /\ \E a, b \in Node : \A x \in Node :
          hp.data[x] = IF x = a THEN data[b] ELSE IF x = b THEN data[a] ELSE data[x]
    /\ \A x \in Node \ Range(c) :
          hp.next[x] = next[x] /\ hp.prev[x] = prev[x] /\ hp.data[x] = data[x]

\* One prev is set.
PrevIs(r, hp, a, b) ==
    /\ r \in EndHeaps /\ r.next = hp.next /\ r.data = hp.data /\ r.prev[a] = b
    /\ \A x \in Ends : x # a => r.prev[x] = hp.prev[x]

LEMMA PrevSet ==
    ASSUME NEW hp \in EndHeaps, NEW a \in Ends, NEW b \in Ends \cup {NULL}, NEW r,
           r = [hp EXCEPT !.prev[a] = b]
    PROVE  PrevIs(r, hp, a, b)
  <1>1. hp.next \in EndLinks /\ hp.prev \in EndLinks /\ hp.data \in [Ends -> Item]
    BY DEF EndHeaps
  <1> DEFINE pv == [hp.prev EXCEPT ![a] = b]
  <1>2. r = [next |-> hp.next, prev |-> pv, data |-> hp.data]
    BY DEF EndHeaps
  <1>3. pv \in EndLinks /\ pv[a] = b /\ \A x \in Ends : x # a => pv[x] = hp.prev[x]
    BY <1>1 DEF EndLinks
  <1> HIDE DEF pv
  <1>4. r.next = hp.next /\ r.prev = pv /\ r.data = hp.data
    BY <1>2
  <1>5. r \in EndHeaps
    BY <1>1, <1>2, <1>3 DEF EndHeaps
  <1> QED
    BY <1>3, <1>4, <1>5 DEF PrevIs

\* The items and where they were.
CameFrom(c, n, u, big, q) ==
    /\ q \in [1..n -> 1..n] /\ IsInjective(q) /\ \A k \in 1..n : u[k+1] = c[q[k]]
    /\ \A i, j \in 1..n : i < j => Goes(big, data[c[q[i]]].key, data[c[q[j]]].key)

LEMMA SortedFrom ==
    ASSUME NEW c, NEW n \in Nat, NEW u, NEW big,
           \A i, j \in 1..n+2 : u[i] = u[j] => i = j,
           \A j \in 2..n+1 : \E l \in 1..n : u[j] = c[l],
           \A i, j \in 2..n+1 : i < j => Goes(big, data[u[i]].key, data[u[j]].key)
    PROVE  \E q : CameFrom(c, n, u, big, q)
  <1> DEFINE q == [k \in 1..n |-> CHOOSE l \in 1..n : u[k+1] = c[l]]
  <1>1. ASSUME NEW k \in 1..n PROVE q[k] \in 1..n /\ u[k+1] = c[q[k]]
    <2>1. k + 1 \in 2..n+1
      OBVIOUS
    <2>2. \E l \in 1..n : u[k+1] = c[l]
      BY <2>1
    <2> QED
      BY <2>2
  <1>2. q \in [1..n -> 1..n]
    BY <1>1
  <1>3. IsInjective(q)
    <2> SUFFICES ASSUME NEW j \in 1..n, NEW k \in 1..n, q[j] = q[k] PROVE j = k
      BY <1>2 DEF IsInjective
    <2> HIDE DEF q
    <2>1. u[j+1] = u[k+1] /\ j + 1 \in 1..n+2 /\ k + 1 \in 1..n+2
      BY <1>1
    <2>2. j + 1 = k + 1
      BY <2>1
    <2> QED
      BY <2>2
  <1> HIDE DEF q
  <1>4. ASSUME NEW i \in 1..n, NEW j \in 1..n, i < j
        PROVE  Goes(big, data[c[q[i]]].key, data[c[q[j]]].key)
    <2>1. i + 1 \in 2..n+1 /\ j + 1 \in 2..n+1 /\ i + 1 < j + 1
      BY <1>4
    <2>2. Goes(big, data[u[i+1]].key, data[u[j+1]].key)
      BY <2>1
    <2> QED
      BY <1>1, <2>2
  <1>5. CameFrom(c, n, u, big, q)
    BY <1>1, <1>2, <1>3, <1>4 DEF CameFrom
  <1> QED
    BY <1>5

LEMMA OrderedIs ==
    ASSUME HeapInv, NEW c, IsList(c, next, prev, data), Len(c) > 1, NEW big,
           NEW h1 \in EndHeaps, NEW u, Sorted(c, h1, u, big)
    PROVE  LET hp == Fronted(h1, c[1]) IN
           \E t, q : Ordered(c, [hp EXCEPT !.prev[c[1]] = hp.prev[beg]], t, q, big)
  <1> DEFINE n == Len(c) - 1
             z == c[n+1]
             hp == Fronted(h1, c[1])
             done == [hp EXCEPT !.prev[c[1]] = hp.prev[beg]]
  <1>1. /\ n \in Nat /\ n >= 1 /\ n + 1 = Len(c) /\ c \in Seq(Node)
        /\ \A i \in 1..n+1 : c[i] \in Node
        /\ \A i, j \in 1..n+1 : c[i] = c[j] => i = j
    BY DEF IsList
  <1>2. data[z] = Blank
    <2>1. data[c[Len(c)]] = Blank
      BY DEF IsList
    <2> QED
      BY <1>1, <2>1
  <1>3. /\ Row(h1, u) /\ Len(u) = n + 2 /\ u[1] = beg /\ u[n+2] = z
        /\ \A j \in 2..n+1 : \E l \in 1..n : u[j] = c[l]
        /\ \A l \in 1..n : \E j \in 2..n+1 : u[j] = c[l]
        /\ \A i, j \in 2..n+1 : i < j => Goes(big, data[u[i]].key, data[u[j]].key)
    BY DEF Sorted
  <1>4. /\ h1.next[z] = NULL /\ h1.prev[beg] = z
        /\ \A x \in Node : h1.data[x] = data[x]
        /\ \A x \in Node : (\A j \in 1..n+1 : x # c[j]) =>
              h1.next[x] = next[x] /\ h1.prev[x] = prev[x]
    BY DEF Sorted
  <1>5. /\ \A i, j \in 1..n+2 : u[i] = u[j] => i = j
        /\ u \in Seq(Ends) /\ \A j \in 1..n+2 : u[j] \in Ends
    <2>1. Row(h1, u) /\ Len(u) = n + 2
      BY <1>3
    <2> HIDE DEF n
    <2>2. RowOf(h1, u, n + 2)
      BY <2>1, RowIs
    <2> QED
      BY <2>2 DEF RowOf
  <1> HIDE DEF n
  <1>6. /\ n + 2 \in Nat /\ 1 \in 1..n+2 /\ n + 2 \in 1..n+2 /\ 1 \in 1..n /\ n + 1 \in 1..n+1
        /\ (n + 2) - 1 = n + 1 /\ (n + 1) + 1 = n + 2 /\ 2 \in 1..n+2 /\ 1 \in 1..n+1
        /\ 2 \in 2..n+1
    BY <1>1
  <1>7. PICK r \in 2..n+1 : u[r] = c[1]
    BY <1>3, <1>6
  <1>8. PICK q \in [1..n -> 1..n] :
           /\ IsInjective(q) /\ \A k \in 1..n : u[k+1] = c[q[k]]
           /\ \A i, j \in 1..n : i < j => Goes(big, data[c[q[i]]].key, data[c[q[j]]].key)
    <2>1. /\ \A i, j \in 1..n+2 : u[i] = u[j] => i = j
          /\ \A j \in 2..n+1 : \E l \in 1..n : u[j] = c[l]
          /\ \A i, j \in 2..n+1 : i < j => Goes(big, data[u[i]].key, data[u[j]].key)
      BY <1>3, <1>5
    <2>2. \E q : CameFrom(c, n, u, big, q)
      BY <1>1, <2>1, SortedFrom
    <2> QED
      BY <2>2 DEF CameFrom
  <1>9. Leads(hp, h1, u, r)
    <2>1. r \in 2..Len(u)-1
      BY <1>3, <1>6
    <2> QED
      BY <1>3, <1>7, <2>1, FrontedIs
  <1> HIDE DEF hp, z
  <1> DEFINE v == Swap2(u, r)
  <1>10. /\ hp \in EndHeaps /\ Row(hp, v)
         /\ hp.data = [h1.data EXCEPT ![u[2]] = h1.data[u[r]], ![u[r]] = h1.data[u[2]]]
         /\ \A x \in Ends : (\A j \in 1..n+1 : x # u[j]) => hp.next[x] = h1.next[x]
         /\ \A x \in Ends : (\A j \in 2..n+2 : x # u[j]) => hp.prev[x] = h1.prev[x]
    BY <1>3, <1>6, <1>9 DEF Leads
  <1>11. /\ r \in 1..n+2 /\ r # 1 /\ r # n + 2 /\ 2 # n + 2 /\ \A j \in 2..n+1 : j \in 1..n+2
         /\ r \in 2..n+2
    BY <1>1
  <1>12. /\ v \in Seq(Ends) /\ Len(v) = n + 2
         /\ \A j \in 1..n+2 : v[j] = IF j = 2 THEN u[r] ELSE IF j = r THEN u[2] ELSE u[j]
    <2>1. u \in Seq(Ends) /\ Len(u) = n + 2 /\ r \in 2..Len(u)
      BY <1>3, <1>5, <1>11
    <2>2. /\ Swap2(u, r) \in Seq(Ends) /\ Len(Swap2(u, r)) = Len(u)
          /\ \A j \in 1..Len(u) :
                Swap2(u, r)[j] = IF j = 2 THEN u[r] ELSE IF j = r THEN u[2] ELSE u[j]
      BY <2>1, SwapIs
    <2> QED
      BY <2>1, <2>2
  <1> HIDE DEF v
  <1>13. v[1] = beg /\ v[2] = c[1] /\ v[n+2] = z
    <2>1. v[1] = u[1] /\ v[2] = u[r]
      BY <1>6, <1>11, <1>12
    <2>2. v[n+2] = u[n+2]
      BY <1>6, <1>11, <1>12
    <2> QED
      BY <1>3, <1>7, <2>1, <2>2
  <1>14. /\ \A i, j \in 1..n+2 : v[i] = v[j] => i = j
         /\ \A j \in 1..n+1 : hp.next[v[j]] = v[j+1] /\ hp.prev[v[j+1]] = v[j]
    <2>1. Row(hp, v) /\ Len(v) = n + 2
      BY <1>10, <1>12
    <2>2. RowOf(hp, v, n + 2)
      BY <2>1, RowIs
    <2> QED
      BY <1>6, <2>2 DEF RowOf
  <1>15. \A j \in 2..n+1 : u[j] \in Node /\ u[j] # z
    <2> TAKE j \in 2..n+1
    <2>1. PICK l \in 1..n : u[j] = c[l]
      BY <1>3
    <2>2. l \in 1..n+1
      BY <1>1
    <2>3. j \in 1..n+2 /\ j # n + 2
      BY <1>1
    <2> QED
      BY <1>1, <1>3, <1>5, <1>6, <2>1, <2>2, <2>3
  <1>16. z \in Node /\ z \in Ends /\ beg \in Ends /\ beg \notin Node
    BY <1>1, <1>6 DEF z, Ends
  <1>17. hp.next[z] = NULL
    <2>1. \A j \in 1..n+1 : z # u[j]
      <3> TAKE j \in 1..n+1
      <3>1. j \in 1..n+2 /\ j # n + 2
        BY <1>1
      <3> QED
        BY <1>3, <1>5, <1>6, <3>1
    <2> QED
      BY <1>4, <1>10, <1>16, <2>1
  <1>18. hp.prev[beg] = z
    <2>1. \A j \in 2..n+2 : beg # u[j]
      <3> TAKE j \in 2..n+2
      <3>1. j \in 1..n+2 /\ j # 1
        BY <1>1
      <3> QED
        BY <1>3, <1>5, <1>6, <3>1
    <2> QED
      BY <1>4, <1>10, <1>16, <2>1
  <1>19. \A x \in Node : hp.data[x] = IF x = u[2] THEN data[u[r]]
                                       ELSE IF x = u[r] THEN data[u[2]] ELSE data[x]
    <2>1. h1.data \in [Ends -> Item] /\ Node \subseteq Ends
      BY DEF EndHeaps, Ends
    <2>2. u[2] \in Node /\ u[r] \in Node
      BY <1>6, <1>15
    <2> TAKE x \in Node
    <2>3. hp.data[x] = IF x = u[r] THEN h1.data[u[2]] ELSE IF x = u[2] THEN h1.data[u[r]]
                       ELSE h1.data[x]
      BY <1>10, <2>1, <2>2
    <2> QED
      BY <1>4, <2>2, <2>3
  <1>20. \A j \in 2..n+1 : v[j] \in Node /\ hp.data[v[j]] = data[u[j]]
    <2> TAKE j \in 2..n+1
    <2>1. j \in 1..n+2 /\ u[j] \in Node /\ u[2] \in Node /\ u[r] \in Node
      BY <1>6, <1>11, <1>15
    <2>2. CASE j = 2
      BY <1>12, <1>19, <2>1, <2>2
    <2>3. CASE j = r
      BY <1>12, <1>19, <2>1, <2>3
    <2>4. CASE j # 2 /\ j # r
      <3>1. u[j] # u[2] /\ u[j] # u[r]
        BY <1>5, <1>6, <1>11, <2>1, <2>4
      <3> QED
        BY <1>12, <1>19, <2>1, <2>4, <3>1
    <2> QED
      BY <2>2, <2>3, <2>4
  <1>21. hp.data[z] = Blank
    <2>1. z # u[2] /\ z # u[r]
      BY <1>6, <1>15
    <2> QED
      BY <1>2, <1>16, <1>19, <2>1
  <1>22. /\ done \in EndHeaps /\ done.next = hp.next /\ done.data = hp.data
         /\ done.prev[c[1]] = z /\ \A x \in Ends : x # c[1] => done.prev[x] = hp.prev[x]
    <2>1. c[1] \in Ends /\ z \in Ends \cup {NULL}
      BY <1>1, <1>6, <1>16 DEF Ends
    <2> HIDE DEF done
    <2>2. done = [hp EXCEPT !.prev[c[1]] = z]
      BY <1>18 DEF done
    <2>3. PrevIs(done, hp, c[1], z)
      BY <1>10, <2>1, <2>2, PrevSet
    <2> QED
      BY <2>3 DEF PrevIs
  <1> HIDE DEF done
  <1> DEFINE t == [k \in 1..n+1 |-> v[k+1]]
  <1>23. \A k \in 1..n+1 : v[k+1] \in Node /\ k + 1 \in 2..n+2 /\ k + 1 \in 1..n+2
    <2> TAKE k \in 1..n+1
    <2>1. k + 1 \in 2..n+2 /\ k + 1 \in 1..n+2
      BY <1>1
    <2>2. CASE k = n + 1
      BY <1>6, <1>13, <1>16, <2>1, <2>2
    <2>3. CASE k # n + 1
      <3>1. k + 1 \in 2..n+1
        BY <1>1, <2>3
      <3> QED
        BY <1>20, <2>1, <3>1
    <2> QED
      BY <2>2, <2>3
  <1>24. t \in Seq(Node) /\ Len(t) = n + 1 /\ \A k \in 1..n+1 : t[k] = v[k+1]
    BY <1>1, <1>23
  <1> HIDE DEF t
  <1>25. IsList(t, done.next, done.prev, done.data) /\ t[1] = c[1]
    <2>1. t[1] = c[1] /\ t[n+1] = z
      BY <1>6, <1>13, <1>24
    <2>2. \A j, k \in 1..n+1 : t[j] = t[k] => j = k
      <3> SUFFICES ASSUME NEW j \in 1..n+1, NEW k \in 1..n+1, t[j] = t[k] PROVE j = k
        OBVIOUS
      <3>1. v[j+1] = v[k+1] /\ j + 1 \in 1..n+2 /\ k + 1 \in 1..n+2
        BY <1>23, <1>24
      <3>2. j + 1 = k + 1
        BY <1>14, <3>1
      <3> QED
        BY <3>2
    <2>3. ASSUME NEW k \in 1..n PROVE done.next[t[k]] = t[k+1] /\ done.prev[t[k+1]] = t[k]
      <3>1. k \in 1..n+1 /\ k + 1 \in 1..n+1 /\ k + 1 # 1
        BY <1>1
      <3>2. hp.next[v[k+1]] = v[(k+1)+1] /\ hp.prev[v[(k+1)+1]] = v[k+1]
        BY <1>14, <3>1
      <3>3. t[k] = v[k+1] /\ t[k+1] = v[(k+1)+1] /\ t[k+1] \in Node
        BY <1>23, <1>24, <3>1
      <3>4. t[k+1] # c[1] /\ t[k+1] \in Ends
        BY <1>6, <2>1, <2>2, <3>1, <3>3 DEF Ends
      <3> QED
        BY <1>22, <3>2, <3>3, <3>4
    <2>4. done.next[t[n+1]] = NULL /\ done.prev[t[1]] = t[n+1] /\ done.data[t[n+1]] = Blank
      BY <1>17, <1>21, <1>22, <2>1
    <2>5. Len(t) > 0 /\ Len(t) = n + 1 /\ Len(t) - 1 = n
      BY <1>1, <1>24
    <2> QED
      BY <1>24, <2>1, <2>2, <2>3, <2>4, <2>5 DEF IsList
  <1>26. Range(t) = Range(c)
    <2>1. Range(t) = {t[k] : k \in 1..n+1} /\ Range(c) = {c[k] : k \in 1..n+1}
      <3>1. Range(t) = {t[k] : k \in 1..Len(t)}
        BY <1>24, RangeIs
      <3>2. Range(c) = {c[k] : k \in 1..Len(c)}
        BY <1>1, RangeIs
      <3> QED
        BY <1>1, <1>24, <3>1, <3>2
    <2>2. \A j \in 2..n+2 : \E l \in 1..n+1 : u[j] = c[l]
      <3> TAKE j \in 2..n+2
      <3>1. CASE j = n + 2
        BY <1>3, <1>6, <3>1 DEF z
      <3>2. CASE j # n + 2
        <4>1. j \in 2..n+1
          BY <1>1, <3>2
        <4>2. PICK l \in 1..n : u[j] = c[l]
          BY <1>3, <4>1
        <4>3. l \in 1..n+1
          BY <1>1
        <4> QED
          BY <4>2, <4>3
      <3> QED
        BY <3>1, <3>2
    <2>3. \A l \in 1..n+1 : \E j \in 2..n+2 : u[j] = c[l]
      <3> TAKE l \in 1..n+1
      <3>1. CASE l = n + 1
        <4>1. n + 2 \in 2..n+2
          BY <1>1
        <4> QED
          BY <1>3, <3>1, <4>1 DEF z
      <3>2. CASE l # n + 1
        <4>1. l \in 1..n
          BY <1>1, <3>2
        <4>2. PICK j \in 2..n+1 : u[j] = c[l]
          BY <1>3, <4>1
        <4>3. j \in 2..n+2
          BY <1>1
        <4> QED
          BY <4>2, <4>3
      <3> QED
        BY <3>1, <3>2
    <2>4. ASSUME NEW k \in 1..n+1 PROVE \E l \in 1..n+1 : t[k] = c[l]
      <3>1. k + 1 \in 2..n+2 /\ k + 1 \in 1..n+2 /\ 2 \in 2..n+2
        BY <1>1, <1>23
      <3>2. t[k] = u[r] \/ t[k] = u[2] \/ t[k] = u[k+1]
        BY <1>12, <1>24, <3>1
      <3> QED
        BY <1>11, <2>2, <3>1, <3>2
    <2>5. ASSUME NEW l \in 1..n+1 PROVE \E k \in 1..n+1 : c[l] = t[k]
      <3>1. PICK j \in 2..n+2 : u[j] = c[l]
        BY <2>3
      <3>2. \E i \in 2..n+2 : v[i] = u[j]
        <4>1. 2 \in 2..n+2 /\ j \in 1..n+2
          BY <1>1
        <4>2. CASE j = 2
          <5>1. v[r] = u[2]
            BY <1>11, <1>12
          <5> QED
            BY <1>11, <4>2, <5>1
        <4>3. CASE j = r
          <5>1. v[2] = u[r]
            BY <1>6, <1>12
          <5> QED
            BY <4>1, <4>3, <5>1
        <4>4. CASE j # 2 /\ j # r
          BY <1>12, <4>1, <4>4
        <4> QED
          BY <4>2, <4>3, <4>4
      <3>3. PICK i \in 2..n+2 : v[i] = u[j]
        BY <3>2
      <3>4. i - 1 \in 1..n+1 /\ (i - 1) + 1 = i
        BY <1>1
      <3>5. t[i-1] = c[l]
        BY <1>24, <3>1, <3>3, <3>4
      <3> QED
        BY <3>4, <3>5
    <2> QED
      BY <2>1, <2>4, <2>5, ZenonT(40)
  <1>27. \A k \in 1..n : done.data[t[k]] = data[c[q[k]]]
    <2> TAKE k \in 1..n
    <2>1. k \in 1..n+1 /\ k + 1 \in 2..n+1
      BY <1>1
    <2> QED
      BY <1>8, <1>20, <1>22, <1>24, <2>1
  <1>28. \E a, b \in Node : \A x \in Node :
            done.data[x] = IF x = a THEN data[b] ELSE IF x = b THEN data[a] ELSE data[x]
    <2>1. u[2] \in Node /\ u[r] \in Node
      BY <1>6, <1>15
    <2>2. \A x \in Node : done.data[x] = IF x = u[2] THEN data[u[r]]
                                          ELSE IF x = u[r] THEN data[u[2]] ELSE data[x]
      BY <1>19, <1>22
    <2> QED
      BY <2>1, <2>2
  <1>29. ASSUME NEW x \in Node \ Range(c)
         PROVE  done.next[x] = next[x] /\ done.prev[x] = prev[x] /\ done.data[x] = data[x]
    <2>1. \A j \in 1..n+1 : x # c[j]
      <3>1. Range(c) = {c[k] : k \in 1..Len(c)}
        BY <1>1, RangeIs
      <3> QED
        BY <1>1, <3>1
    <2>2. \A j \in 1..n+2 : x # u[j]
      <3> TAKE j \in 1..n+2
      <3>1. CASE j = 1
        BY <1>3, <1>16, <3>1
      <3>2. CASE j = n + 2
        BY <1>3, <1>6, <2>1, <3>2 DEF z
      <3>3. CASE j # 1 /\ j # n + 2
        <4>1. j \in 2..n+1
          BY <1>1, <3>3
        <4>2. PICK l \in 1..n : u[j] = c[l]
          BY <1>3, <4>1
        <4>3. l \in 1..n+1
          BY <1>1
        <4> QED
          BY <2>1, <4>2, <4>3
      <3> QED
        BY <3>1, <3>2, <3>3
    <2>3. \A j \in 1..n+1 : x # u[j]
      <3>1. \A j \in 1..n+1 : j \in 1..n+2
        BY <1>1
      <3> QED
        BY <2>2, <3>1
    <2>4. \A j \in 2..n+2 : x # u[j]
      <3>1. \A j \in 2..n+2 : j \in 1..n+2
        BY <1>1
      <3> QED
        BY <2>2, <3>1
    <2>5. x \in Ends /\ x # c[1] /\ x # u[2] /\ x # u[r]
      BY <1>6, <1>11, <2>1, <2>2 DEF Ends
    <2>6. hp.next[x] = next[x] /\ hp.prev[x] = prev[x]
      BY <1>4, <1>10, <2>1, <2>3, <2>4, <2>5
    <2> QED
      BY <1>19, <1>22, <2>5, <2>6
  <1>30. Ordered(c, done, t, q, big)
    BY <1>8, <1>22, <1>24, <1>25, <1>26, <1>27, <1>28, <1>29 DEF Ordered, n
  <1>31. \E t2, q2 : Ordered(c, done, t2, q2, big)
    BY <1>30
  <1> QED
    BY <1>31 DEF done, hp

\* The two extra nodes are linked to each other.
LEMMA OrdersStart ==
    ASSUME HeapInv, NEW c, IsList(c, next, prev, data), NEW big, NEW s,
           s = [heap |-> [Link(HeapOf(Node \cup {beg, end}), beg, end) EXCEPT !.prev[beg] = end],
                i |-> c[1]]
    PROVE  s \in Inserts /\ Sorting(c, s, 0, <<beg, end>>, big)
  <1> DEFINE n == Len(c) - 1
             hp == HeapOf(Ends)
             h1 == Link(hp, beg, end)
             h2 == [h1 EXCEPT !.prev[beg] = end]
             v == <<beg, end>>
  <1>1. /\ n \in Nat /\ n + 1 = Len(c) /\ \A k \in 1..n+1 : c[k] \in Node
        /\ \A k \in 1..n : next[c[k]] = c[k+1]
        /\ next[c[n+1]] = NULL
    <2>1. /\ c \in Seq(Node) /\ Len(c) > 0 /\ next[c[Len(c)]] = NULL
          /\ \A k \in 1..Len(c)-1 : next[c[k]] = c[k+1]
      BY DEF IsList
    <2> QED
      BY <2>1
  <1> HIDE DEF n
  <1>2. /\ beg \in Ends /\ end \in Ends /\ beg # end /\ beg \notin Node /\ end \notin Node
        /\ Node \subseteq Ends
    BY DEF Ends
  <1>3. /\ hp \in EndHeaps /\ hp.next[end] = NULL
        /\ \A x \in Node : hp.next[x] = next[x] /\ hp.prev[x] = prev[x] /\ hp.data[x] = data[x]
    <2>1. next \in Links /\ prev \in Links /\ data \in [Node -> Item] /\ Blank \in Item
      BY DEF HeapInv, Item, Blank
    <2> DEFINE nx == [x \in Ends |-> IF x \in Node THEN next[x] ELSE NULL]
               pv == [x \in Ends |-> IF x \in Node THEN prev[x] ELSE NULL]
               dt == [x \in Ends |-> IF x \in Node THEN data[x] ELSE Blank]
    <2>2. hp = [next |-> nx, prev |-> pv, data |-> dt]
      BY DEF HeapOf
    <2>3. nx \in EndLinks /\ pv \in EndLinks
      BY <2>1 DEF EndLinks, Links, Ends
    <2>4. dt \in [Ends -> Item]
      BY <2>1
    <2>5. nx[end] = NULL /\ \A x \in Node : nx[x] = next[x] /\ pv[x] = prev[x] /\ dt[x] = data[x]
      BY <1>2
    <2> HIDE DEF nx, pv, dt, hp
    <2> QED
      BY <2>2, <2>3, <2>4, <2>5 DEF EndHeaps
  <1> HIDE DEF hp
  <1>4. Joint(h1, hp, beg, end)
    BY <1>2, <1>3, LinkJoins
  <1> HIDE DEF h1
  <1>5. PrevIs(h2, h1, beg, end)
    <2>1. h1 \in EndHeaps /\ end \in Ends \cup {NULL}
      BY <1>2, <1>4 DEF Joint
    <2> HIDE DEF h2
    <2>2. h2 = [h1 EXCEPT !.prev[beg] = end]
      BY DEF h2
    <2> QED
      BY <1>2, <2>1, <2>2, PrevSet
  <1> HIDE DEF h2
  <1>6. /\ h2 \in EndHeaps /\ h2.next[beg] = end /\ h2.prev[end] = beg /\ h2.next[end] = NULL
        /\ \A x \in Node : h2.next[x] = next[x] /\ h2.prev[x] = prev[x] /\ h2.data[x] = data[x]
    BY <1>2, <1>3, <1>4, <1>5 DEF Joint, PrevIs
  <1>7. s = [heap |-> h2, i |-> c[1]]
    BY DEF h2, h1, hp, Ends
  <1>8. s.heap = h2 /\ s.i = c[1] /\ s \in Inserts
    <2>1. c[1] \in Node
      BY <1>1
    <2>2. s.heap = h2 /\ s.i = c[1]
      BY <1>7, SMTT(60)
    <2>3. s \in [heap : EndHeaps, i : Node]
      <3>1. h2 \in EndHeaps
        BY <1>6
      <3> QED
        BY <1>7, <2>1, <3>1
    <2> QED
      BY <2>2, <2>3 DEF Inserts
  <1>9. v \in Seq(Ends) /\ Len(v) = 2 /\ v[1] = beg /\ v[2] = end
    BY <1>2
  <1> HIDE DEF v
  <1>10. Row(h2, v)
    <2>1. \A j, k \in 1..2 : v[j] = v[k] => j = k
      <3>1. \A j \in 1..2 : j = 1 \/ j = 2
        OBVIOUS
      <3> QED
        BY <1>2, <1>9, <3>1
    <2>2. \A k \in 1..Len(v)-1 : h2.next[v[k]] = v[k+1] /\ h2.prev[v[k+1]] = v[k]
      <3> TAKE k \in 1..Len(v)-1
      <3>1. k = 1 /\ k + 1 = 2
        BY <1>9
      <3> QED
        BY <1>6, <1>9, <3>1
    <2> QED
      BY <1>9, <2>1, <2>2 DEF Row
  <1>11. Sorting(c, s, 0, v, big)
    <2>1. 0 \in 0..n /\ 0 + 1 = 1 /\ 0 + 2 = 2 /\ n + 1 \in 1..n+1
      BY <1>1
    <2>2. \A j \in 2..0+1 : FALSE
      OBVIOUS
    <2>3. \A l \in 1..0 : FALSE
      OBVIOUS
    <2>4. \A j \in 0+1..n : s.heap.next[c[j]] = c[j+1]
      <3> TAKE j \in 0+1..n
      <3>1. j \in 1..n /\ j \in 1..n+1
        BY <1>1
      <3> QED
        BY <1>1, <1>6, <1>8, <3>1
    <2>5. s.heap.next[c[n+1]] = NULL
      BY <1>1, <1>6, <1>8, <2>1
    <2> QED
      BY <1>6, <1>8, <1>9, <1>10, <2>1, <2>2, <2>3, <2>4, <2>5, ZenonT(60) DEF Sorting, n
  <1> QED
    BY <1>8, <1>11 DEF v

\* What xlist_order and xlist_order_big leave: the items in order.
Arranged(h, big) ==
    /\ Moves({h}, {}) /\ Owned(data', mine') /\ head[h] # NULL
    /\ \E q \in [1..Len(ItemsOf(h)) -> 1..Len(ItemsOf(h))] :
          /\ IsInjective(q)
          /\ ItemsOf(h)' = [k \in 1..Len(ItemsOf(h)) |-> ItemsOf(h)[q[k]]]
    /\ IsOrdered(ItemsOf(h)', big)

LEMMA OrdersCall ==
    ASSUME HeapInv, Owned(data, mine), NEW h \in Handle, KeysOf(chain[h]),
           NEW big \in BOOLEAN, xlist_orders(h, big)
    PROVE  Arranged(h, big)
  <1> DEFINE c == chain[h]
             n == Len(c) - 1
             start == [Link(HeapOf(Node \cup {beg, end}), beg, end) EXCEPT !.prev[beg] = end]
             s == [heap |-> start, i |-> head[h]]
             h1 == Inserted(s, big, Len(c))
             hp == Fronted(h1, head[h])
             done == [hp EXCEPT !.prev[head[h]] = hp.prev[beg]]
  <1>1. /\ ~xlist_isempty(h) /\ UNCHANGED <<head, alive, loose, mine>> /\ Becomes(done)
        /\ chain' = [chain EXCEPT ![h] = Walk(done, head[h], Len(c))]
    BY DEF xlist_orders
  <1>2. head[h] # NULL /\ Len(c) > 1
    BY <1>1, NotEmpty
  <1>3. /\ IsList(c, next, prev, data) /\ c \in Seq(Node) /\ Len(c) \in Nat \ {0}
        /\ c[1] = head[h] /\ Range(c) \subseteq alive /\ head[h] \in Node
    BY <1>2, HeldList
  <1> HIDE DEF c
  <1>4. s \in Inserts /\ Sorting(c, s, 0, <<beg, end>>, big)
    <2>1. s = [heap |-> [Link(HeapOf(Node \cup {beg, end}), beg, end) EXCEPT !.prev[beg] = end],
               i |-> c[1]]
      BY <1>3
    <2> HIDE DEF s, start
    <2> QED
      BY <1>3, <2>1, OrdersStart
  <1> HIDE DEF s, start
  <1>5. PICK u : Sorted(c, h1, u, big) /\ h1 \in EndHeaps
    <2>1. KeysOf(c)
      BY DEF c
    <2> QED
      BY <1>3, <1>4, <2>1, InsertedIsSorted
  <1> HIDE DEF h1
  <1>6. PICK t, q : Ordered(c, done, t, q, big)
    BY <1>2, <1>3, <1>5, OrderedIs DEF hp, c
  <1> HIDE DEF done, hp
  <1>7. /\ done \in EndHeaps /\ IsList(t, done.next, done.prev, done.data)
        /\ Len(t) = n + 1 /\ t[1] = c[1] /\ Range(t) = Range(c)
        /\ q \in [1..n -> 1..n] /\ IsInjective(q)
        /\ \A k \in 1..n : done.data[t[k]] = data[c[q[k]]]
        /\ \A i, j \in 1..n : i < j => Goes(big, data[c[q[i]]].key, data[c[q[j]]].key)
    BY <1>6 DEF Ordered
  <1>8. /\ \E a, b \in Node : \A x \in Node :
              done.data[x] = IF x = a THEN data[b] ELSE IF x = b THEN data[a] ELSE data[x]
        /\ \A x \in Node \ Range(c) :
              done.next[x] = next[x] /\ done.prev[x] = prev[x] /\ done.data[x] = data[x]
    BY <1>6 DEF Ordered
  <1>9. /\ next' = [x \in Node |-> done.next[x]] /\ prev' = [x \in Node |-> done.prev[x]]
        /\ data' = [x \in Node |-> done.data[x]]
    BY <1>1 DEF Becomes
  <1>10. /\ n \in Nat /\ n + 1 = Len(c) /\ t \in Seq(Node) /\ Len(t) \in Nat \ {0}
         /\ \A k \in 1..n+1 : t[k] \in Node /\ c[k] \in Node
    BY <1>3, <1>7 DEF IsList
  <1> HIDE DEF n
  <1>11. /\ \A k \in 1..n : done.next[t[k]] = t[k+1] /\ done.prev[t[k+1]] = t[k]
         /\ done.next[t[n+1]] = NULL /\ done.prev[t[1]] = t[n+1]
    BY <1>7, <1>10 DEF IsList
  <1>12. Walk(done, head[h], Len(c)) = t
    <2>1. Path(done, t)
      <3>1. t = [k \in 1..Len(t) |-> t[k]]
        BY <1>10
      <3>2. \A k \in 1..n : k + 1 \in 1..n+1
        BY <1>10
      <3>3. \A k \in 1..Len(t)-1 : done.next[t[k]] = t[k+1] /\ t[k+1] # NULL
        <4>1. Len(t) - 1 = n
          BY <1>7, <1>10
        <4>2. \A k \in 1..n : t[k+1] \in Node
          BY <1>10, <3>2
        <4> QED
          BY <1>11, <4>1, <4>2
      <3>4. done.next[t[Len(t)]] = NULL
        BY <1>7, <1>11
      <3> QED
        BY <1>10, <3>1, <3>3, <3>4 DEF Path
    <2>2. Len(t) <= Len(c) /\ Len(c) \in Nat
      BY <1>7, <1>10
    <2>3. Walk(done, t[1], Len(c)) = t
      BY <2>1, <2>2, WalkIs
    <2> QED
      BY <1>3, <1>7, <2>3
  <1>13. IsList(t, next', prev', data')
    <2>1. \A k \in 1..Len(t) : /\ next'[t[k]] = done.next[t[k]] /\ prev'[t[k]] = done.prev[t[k]]
                               /\ data'[t[k]] = done.data[t[k]]
      BY <1>7, <1>9, <1>10
    <2> QED
      BY <1>7, <2>1, ListFrame
  <1>14. /\ \A x \in Node \ Range(c) :
               next'[x] = next[x] /\ prev'[x] = prev[x] /\ data'[x] = data[x]
         /\ data' \in [Node -> Item]
    <2>1. done.data \in [Ends -> Item] /\ Node \subseteq Ends
      BY <1>7 DEF EndHeaps, Ends
    <2> QED
      BY <1>8, <1>9, <2>1
  <1>15. next' \in Links /\ prev' \in Links
    <2>1. ASSUME NEW x \in Node
          PROVE  done.next[x] \in Node \cup {NULL} /\ done.prev[x] \in Node \cup {NULL}
      <3>1. CASE x \in Range(c)
        <4>1. Range(t) = {t[k] : k \in 1..Len(t)}
          BY <1>10, RangeIs
        <4>2. PICK k \in 1..n+1 : x = t[k]
          BY <1>7, <3>1, <4>1
        <4>3. done.next[x] \in Node \cup {NULL}
          <5>1. CASE k = n + 1
            BY <1>11, <4>2, <5>1
          <5>2. CASE k # n + 1
            <6>1. k \in 1..n /\ k + 1 \in 1..n+1
              BY <1>10, <5>2
            <6> QED
              BY <1>10, <1>11, <4>2, <6>1
          <5> QED
            BY <5>1, <5>2
        <4>4. done.prev[x] \in Node \cup {NULL}
          <5>1. CASE k = 1
            <6>1. n + 1 \in 1..n+1
              BY <1>10
            <6> QED
              BY <1>10, <1>11, <4>2, <5>1, <6>1
          <5>2. CASE k # 1
            <6>1. k - 1 \in 1..n /\ (k - 1) + 1 = k /\ k - 1 \in 1..n+1
              BY <1>10, <5>2
            <6>2. done.prev[t[(k-1)+1]] = t[k-1] /\ t[k-1] \in Node
              BY <1>10, <1>11, <6>1
            <6> QED
              BY <4>2, <6>1, <6>2
          <5> QED
            BY <5>1, <5>2
        <4> QED
          BY <4>3, <4>4
      <3>2. CASE x \notin Range(c)
        BY <1>8, <3>2 DEF HeapInv, Links
      <3> QED
        BY <3>1, <3>2
    <2> QED
      BY <1>9, <2>1 DEF Links
  <1>16. Owned(data', mine')
    <2>1. PICK a \in Node, b \in Node : \A x \in Node :
             done.data[x] = IF x = a THEN data[b] ELSE IF x = b THEN data[a] ELSE data[x]
      BY <1>8
    <2>2. data \in [Node -> Item] /\ data = [x \in Node |-> data[x]]
      BY DEF HeapInv
    <2>3. \A x \in Node :
             data'[x] = IF x = a THEN data[b] ELSE IF x = b THEN data[a] ELSE data[x]
      BY <1>9, <2>1
    <2>4. mine' = mine
      BY <1>1
    <2>5. CASE a = b
      <3>1. data' = [x \in Node |-> data'[x]]
        BY <1>14
      <3>2. \A x \in Node : data'[x] = data[x]
        BY <2>3, <2>5
      <3>3. data' = data
        BY <2>2, <3>1, <3>2
      <3> QED
        BY <2>4, <3>3
    <2>6. CASE a # b
      <3>1. data' = [data EXCEPT ![a] = data[b], ![b] = data[a]]
        <4> DEFINE f == [data EXCEPT ![a] = data[b], ![b] = data[a]]
        <4>1. f = [x \in Node |-> IF x = a THEN data[b] ELSE IF x = b THEN data[a] ELSE data[x]]
          BY <2>2, <2>6
        <4>2. data' = [x \in Node |-> data'[x]]
          BY <1>14
        <4> HIDE DEF f
        <4>3. data' = f
          BY <2>3, <4>1, <4>2
        <4> QED
          BY <4>3 DEF f
      <3> QED
        BY <2>2, <2>4, <2>6, <3>1, OwnedExchange
    <2> QED
      BY <2>5, <2>6
  <1>17. MovesOne(h, t, {})
    <2>2. alive \subseteq Node /\ head \in [Handle -> Node \cup {NULL}]
          /\ \A x \in Node \ alive : next[x] = NULL /\ prev[x] = NULL /\ data[x] = Blank
      BY DEF HeapInv, Blanks
    <2>3. Holds(t, head'[h], next', prev', data')
      BY <1>1, <1>2, <1>3, <1>7, <1>13 DEF Holds
    <2>4. chain' = [chain EXCEPT ![h] = t]
      BY <1>1, <1>12
    <2>5. alive' = (alive \ Range(chain[h])) \cup Range(t) \cup {}
      BY <1>1, <1>3, <1>7 DEF c
    <2> QED
      BY <1>1, <1>3, <1>7, <1>10, <1>14, <1>15, <2>2, <2>3, <2>4, <2>5, ZenonT(60) DEF MovesOne, c
  <1>18. Moves({h}, {})
    BY <1>17, OneMoves
  <1>19. /\ ItemsOf(h) \in Seq(Item) /\ Len(ItemsOf(h)) = n
         /\ \A k \in 1..n : ItemsOf(h)[k] = data[c[k]]
    BY <1>2, ItemsOfList DEF c, n
  <1>20. ItemsOf(h)' = [k \in 1..n |-> data'[t[k]]]
    <2>1. head'[h] # NULL /\ chain'[h] = t
      BY <1>1, <1>2, <1>12 DEF HeapInv
    <2>2. Len(t) - 1 = n
      BY <1>7, <1>10
    <2> QED
      BY <2>1, <2>2 DEF ItemsOf
  <1>21. \A k \in 1..n : q[k] \in 1..n /\ data'[t[k]] = ItemsOf(h)[q[k]]
    <2> TAKE k \in 1..n
    <2>1. q[k] \in 1..n /\ k \in 1..n+1
      BY <1>7, <1>10
    <2>2. data'[t[k]] = done.data[t[k]]
      BY <1>9, <1>10, <2>1
    <2> QED
      BY <1>7, <1>19, <2>1, <2>2
  <1>22. ItemsOf(h)' = [k \in 1..n |-> ItemsOf(h)[q[k]]]
    BY <1>20, <1>21
  <1>23. IsOrdered(ItemsOf(h)', big)
    <2> DEFINE new == ItemsOf(h)'
    <2>1. DOMAIN new = 1..n /\ \A k \in 1..n : new[k] = data[c[q[k]]]
      BY <1>19, <1>21, <1>22
    <2> HIDE DEF new
    <2>2. ASSUME NEW j \in 1..n, NEW k \in 1..n, j < k
          PROVE  IF big THEN new[j].key >= new[k].key ELSE new[j].key <= new[k].key
      <3>1. Goes(big, new[j].key, new[k].key)
        BY <1>7, <2>1, <2>2
      <3> QED
        BY <3>1 DEF Goes
    <2>3. IsOrdered(new, big)
      BY <2>1, <2>2 DEF IsOrdered
    <2> QED
      BY <2>3 DEF new
  <1> QED
    BY <1>2, <1>7, <1>16, <1>18, <1>19, <1>22, <1>23 DEF Arranged

-----------------------------------------------------------------------------
(* The keys: every item of a list has one, so that they can be compared.   *)

Listed == {item \in Item : item.key \in Key}
Keyed == \A h \in Handle : ItemsOf(h) # NULL => ItemsOf(h) \in Seq(Listed)

\* Each list stays, is given up, or has keys again.
LEMMA StayKeyed ==
    ASSUME Keyed, \A h \in Handle : \/ AllItems'[h] = AllItems[h]
                                    \/ AllItems'[h] = NULL \/ AllItems'[h] \in Seq(Listed)
    PROVE  Keyed'
  <1>1. \A h \in Handle : AllItems[h] = ItemsOf(h) /\ AllItems'[h] = ItemsOf(h)'
    BY DEF AllItems
  <1>2. \A h \in Handle : ItemsOf(h)' # NULL => ItemsOf(h)' \in Seq(Listed)
    BY <1>1 DEF Keyed
  <1> QED
    BY <1>2 DEF Keyed

\* One list becomes s.
LEMMA OneKeyed ==
    ASSUME Keyed, NEW h \in Handle, NEW s, s = NULL \/ s \in Seq(Listed),
           AllItems' = [AllItems EXCEPT ![h] = s]
    PROVE  Keyed'
  <1>1. \A g \in Handle : AllItems'[g] = IF g = h THEN s ELSE AllItems[g]
    BY DEF AllItems
  <1> QED
    BY <1>1, StayKeyed

\* What the calls of Lists do to the keys.
LEMMA PutKeyed ==
    ASSUME Keyed, NEW h \in Handle, ItemsOf(h) # NULL, NEW k \in 1..Len(ItemsOf(h))+1,
           NEW item \in Listed, Abstract!Put(h, k, item)
    PROVE  Keyed'
  <1> DEFINE s == ItemsOf(h)
  <1>1. s \in Seq(Listed)
    BY DEF Keyed
  <1>2. AllItems' = [AllItems EXCEPT ![h] = InsertAt(AllItems[h], k, item)] /\ AllItems[h] = s
    BY DEF Abstract!Put, AllItems, InsertAt, Abstract!InsertAt
  <1>3. k \in 1..Len(s)+1
    OBVIOUS
  <1> HIDE DEF s
  <1>4. InsertAt(s, k, item) \in Seq(Listed)
    BY <1>1, <1>3, InsertAtFacts
  <1> QED
    BY <1>2, <1>4, OneKeyed

LEMMA RemoveKeyed ==
    ASSUME Keyed, NEW h \in Handle, ItemsOf(h) # NULL, NEW k \in 1..Len(ItemsOf(h)),
           AllItems' = [AllItems EXCEPT ![h] = RemoveAt(AllItems[h], k)]
    PROVE  Keyed'
  <1> DEFINE s == ItemsOf(h)
  <1>1. s \in Seq(Listed)
    BY DEF Keyed
  <1>2. AllItems[h] = s
    BY DEF AllItems
  <1>3. k \in 1..Len(s)
    OBVIOUS
  <1> HIDE DEF s
  <1>4. RemoveAt(s, k) \in Seq(Listed)
    BY <1>1, <1>3, RemoveAtFacts
  <1> QED
    BY <1>2, <1>4, OneKeyed

LEMMA PartKeyed ==
    ASSUME Keyed, NEW h \in Handle, ItemsOf(h) # NULL, NEW j \in Nat \ {0}, NEW k \in Int,
           k <= Len(ItemsOf(h)),
           AllItems' = [AllItems EXCEPT ![h] = SubSeq(AllItems[h], j, k)]
    PROVE  Keyed'
  <1> DEFINE s == ItemsOf(h)
  <1>1. s \in Seq(Listed)
    BY DEF Keyed
  <1>2. AllItems[h] = s
    BY DEF AllItems
  <1>3. k <= Len(s) /\ Len(s) \in Nat
    BY <1>1
  <1> HIDE DEF s
  <1>4. SubSeq(s, j, k) \in Seq(Listed)
    <2>1. \A i \in j..k : i \in 1..Len(s)
      BY <1>3
    <2>2. \A i \in j..k : s[i] \in Listed
      BY <1>1, <2>1
    <2> QED
      BY <2>2, SubSeqProperties
  <1> QED
    BY <1>2, <1>4, OneKeyed

LEMMA ArrangeKeyed ==
    ASSUME Keyed, NEW h \in Handle, ItemsOf(h) # NULL,
           NEW p \in [1..Len(ItemsOf(h)) -> 1..Len(ItemsOf(h))],
           AllItems' = [AllItems EXCEPT ![h] = [k \in 1..Len(ItemsOf(h)) |-> ItemsOf(h)[p[k]]]]
    PROVE  Keyed'
  <1> DEFINE s == ItemsOf(h)
             t == [k \in 1..Len(s) |-> s[p[k]]]
  <1>1. s \in Seq(Listed) /\ Len(s) \in Nat
    BY DEF Keyed
  <1>2. p \in [1..Len(s) -> 1..Len(s)] /\ AllItems' = [AllItems EXCEPT ![h] = t]
    OBVIOUS
  <1> HIDE DEF s
  <1>3. t \in Seq(Listed)
    <2>1. \A k \in 1..Len(s) : s[p[k]] \in Listed
      BY <1>1, <1>2
    <2> QED
      BY <1>1, <2>1
  <1> HIDE DEF t
  <1> QED
    BY <1>2, <1>3, OneKeyed

LEMMA JoinKeyed ==
    ASSUME HeapInv, Keyed, NEW h \in Handle, NEW g \in Handle, Abstract!Join(h, g),
           ItemsOf(h) # NULL
    PROVE  Keyed'
  <1>1. /\ h # g /\ AllItems[g] # NULL
        /\ AllItems' = [AllItems EXCEPT ![h] = AllItems[h] \o AllItems[g], ![g] = NULL]
    BY DEF Abstract!Join, AllItems
  <1>2. AllItems[h] \in Seq(Listed) /\ AllItems[g] \in Seq(Listed)
    BY <1>1 DEF AllItems, Keyed
  <1>3. AllItems[h] \o AllItems[g] \in Seq(Listed)
    <2> DEFINE s == AllItems[h]
               t == AllItems[g]
    <2>1. s \in Seq(Listed) /\ t \in Seq(Listed)
      BY <1>2
    <2> HIDE DEF s, t
    <2>2. s \o t \in Seq(Listed)
      BY <2>1
    <2> QED
      BY <2>2 DEF s, t
  <1>4. DOMAIN AllItems = Handle
    BY DEF AllItems
  <1>5. \A f \in Handle : \/ AllItems'[f] = AllItems[f] \/ AllItems'[f] = NULL
                          \/ AllItems'[f] = AllItems[h] \o AllItems[g]
    BY <1>1, <1>4
  <1> QED
    BY <1>3, <1>5, StayKeyed

LEMMA CopyKeyed ==
    ASSUME HeapInv, Keyed, NEW h \in Handle, NEW g \in Handle, Copied(h, g), HeapInv'
    PROVE  Keyed'
  <1> DEFINE n == Len(chain[h]) - 1
  <1>1. /\ head[h] # NULL /\ head'[g] # NULL /\ Moves({g}, {})
        /\ Len(chain'[g]) = Len(chain[h])
        /\ \A k \in 1..n : data'[chain'[g][k]] =
              [data[chain[h][k]] EXCEPT !.value = data'[chain'[g][k]].value]
    BY DEF Copied
  <1>2. /\ ItemsOf(h) \in Seq(Item) /\ Len(ItemsOf(h)) = n /\ ItemsOf(h) # NULL
        /\ \A k \in 1..n : ItemsOf(h)[k] = data[chain[h][k]]
    BY <1>1, ItemsOfList
  <1>3. n \in Nat /\ \A k \in 1..n : chain'[g][k] \in Node
    <2>1. n \in Nat /\ chain'[g] \in Seq(Node) /\ Len(chain'[g]) = n + 1
      BY <1>1, HeldList DEF Moves
    <2> HIDE DEF n
    <2>2. \A k \in 1..n : k \in 1..n+1
      BY <2>1
    <2> QED
      BY <2>1, <2>2
  <1>4. ItemsOf(g)' = [k \in 1..n |-> data'[chain'[g][k]]]
    BY <1>1 DEF ItemsOf
  <1> HIDE DEF n
  <1>5. ItemsOf(h) \in Seq(Listed)
    BY <1>2 DEF Keyed
  <1>6. data' \in [Node -> Item]
    BY DEF HeapInv
  <1>7. ASSUME NEW k \in 1..n PROVE data'[chain'[g][k]] \in Listed
    <2>1. data[chain[h][k]] \in Listed
      BY <1>2, <1>5
    <2>2. data[chain[h][k]].key \in Key /\ data[chain[h][k]] \in Item
      BY <2>1 DEF Listed
    <2>3. data'[chain'[g][k]].key = data[chain[h][k]].key
      <3>1. data[chain[h][k]] =
               [key |-> data[chain[h][k]].key, type |-> data[chain[h][k]].type,
                value |-> data[chain[h][k]].value]
        BY <2>2 DEF Item
      <3>2. data'[chain'[g][k]] =
               [data[chain[h][k]] EXCEPT !.value = data'[chain'[g][k]].value]
        BY <1>1
      <3> QED
        BY <3>1, <3>2
    <2>4. data'[chain'[g][k]] \in Item
      BY <1>3, <1>6
    <2> QED
      BY <2>2, <2>3, <2>4 DEF Listed
  <1>8. ItemsOf(g)' \in Seq(Listed)
    BY <1>3, <1>4, <1>7
  <1>9. AllItems' = [AllItems EXCEPT ![g] = ItemsOf(g)']
    BY <1>1, OneListChanges
  <1> QED
    BY <1>8, <1>9, OneKeyed

LEMMA SetKeyed ==
    ASSUME HeapInv, Keyed, NEW h \in Handle, head[h] # NULL,
           NEW k \in 1..Len(chain[h])-1, NEW value \in Ptr \cup Str,
           Moves({h}, {}), ItemsOf(h)' = Changed(ItemsOf(h), k, value)
    PROVE  Keyed'
  <1> DEFINE s == ItemsOf(h)
             n == Len(chain[h]) - 1
             t == [s EXCEPT ![k].value = value]
  <1>1. s \in Seq(Item) /\ Len(s) = n /\ s # NULL
    BY ItemsOfList
  <1>2. s \in Seq(Listed) /\ k \in 1..n
    BY <1>1 DEF Keyed
  <1>3. ItemsOf(h)' = t
    BY DEF Changed
  <1> HIDE DEF s, n
  <1>4. s[k] \in Listed /\ [s[k] EXCEPT !.value = value] \in Listed
    <2>1. s[k] \in Listed
      BY <1>1, <1>2
    <2> QED
      BY <2>1 DEF Listed, Item
  <1>5. t \in Seq(Listed)
    BY <1>1, <1>2, <1>4
  <1> HIDE DEF t
  <1>6. AllItems' = [AllItems EXCEPT ![h] = t]
    BY <1>3, OneListChanges
  <1> QED
    BY <1>5, <1>6, OneKeyed

LEMMA InitKeyed == Init => Keyed
  BY DEF Init, Keyed, ItemsOf

LEMMA StepKeyed == ListInv /\ Keyed /\ [Next]_vars => Keyed'
  <1> SUFFICES ASSUME HeapInv, Owned(data, mine), Keyed, [Next]_vars
               PROVE  Keyed'
    BY DEF ListInv
  <1>1. ASSUME NEW h \in Handle, Adding(h) PROVE Keyed'
    <2>1. PICK n \in Node, item \in Given :
             \/ xlist_cat(h, n, item) \/ xlist_push(h, n, item)
             \/ \E k \in 1..Len(chain[h]) : xlist_insert(h, k, n, item)
      BY <1>1 DEF Adding
    <2>2. PICK k : PutAt(h, k, n, item)
      BY <2>1 DEF PutAt
    <2>3. /\ Abstract!Put(h, k, item) /\ ItemsOf(h) # NULL
          /\ k \in 1..Len(ItemsOf(h))+1
      BY <2>2, PutIsPut
    <2>4. item \in Listed
      BY DEF Given, Listed
    <2> QED
      BY <2>3, <2>4, PutKeyed
  <1>2. ASSUME NEW h \in Handle, Taking(h) PROVE Keyed'
    <2>1. (\E k : TakeAt(h, k)) \/ (\E k : DropAt(h, k))
      BY <1>2 DEF Taking, TakeAt, DropAt
    <2>2. ASSUME NEW k, TakeAt(h, k) \/ DropAt(h, k) PROVE Keyed'
      <3>1. /\ (\E p \in Node : Abstract!Take(h, k, p)) \/ Abstract!Drop(h, k)
            /\ ItemsOf(h) # NULL /\ k \in 1..Len(ItemsOf(h))
        BY <2>2, TakeIsTake, DropIsDrop
      <3>2. AllItems' = [AllItems EXCEPT ![h] = RemoveAt(AllItems[h], k)]
        BY <3>1 DEF Abstract!Take, Abstract!Drop, AllItems, RemoveAt, Abstract!RemoveAt
      <3> QED
        BY <3>1, <3>2, RemoveKeyed
    <2> QED
      BY <2>1, <2>2
  <1>3. ASSUME NEW h \in Handle, NEW n \in Node, xlist_init(h, n) PROVE Keyed'
    <2>1. AllItems' = [AllItems EXCEPT ![h] = << >>]
      BY <1>3, InitIsNew DEF Abstract!New, AllItems
    <2>2. << >> \in Seq(Listed)
      OBVIOUS
    <2> QED
      BY <2>1, <2>2, OneKeyed
  <1>4. ASSUME NEW h \in Handle, NEW g \in Handle, xlist_combin(h, g) PROVE Keyed'
    BY <1>4, CombinIsJoin, JoinKeyed
  <1>5. ASSUME NEW h \in Handle, NEW k \in 1..Len(chain[h]), xlist_terminal(h, k)
        PROVE  Keyed'
    <2>1. Abstract!Truncate(h, k) /\ ItemsOf(h) # NULL /\ k \in 1..Len(ItemsOf(h))
      BY <1>5, TerminalIsTruncate
    <2>2. AllItems' = [AllItems EXCEPT ![h] = SubSeq(AllItems[h], 1, k - 1)]
      BY <2>1 DEF Abstract!Truncate, AllItems
    <2>3. k - 1 \in Int /\ k - 1 <= Len(ItemsOf(h)) /\ 1 \in Nat \ {0}
      <3>1. ItemsOf(h) \in Seq(Listed)
        BY <2>1 DEF Keyed
      <3> QED
        BY <2>1, <3>1
    <2> QED
      BY <2>1, <2>2, <2>3, PartKeyed
  <1>6. ASSUME NEW h \in Handle, xlist_clean(h) \/ xlist_reset(h) PROVE Keyed'
    <2>1. Abstract!Clear(h) \/ Abstract!Delete(h)
      BY <1>6, CleanIsDelete, ResetIsClear
    <2>2. \/ AllItems' = [AllItems EXCEPT ![h] = << >>]
          \/ AllItems' = [AllItems EXCEPT ![h] = NULL]
      BY <2>1 DEF Abstract!Clear, Abstract!Delete, AllItems
    <2>3. << >> \in Seq(Listed)
      OBVIOUS
    <2> QED
      BY <2>2, <2>3, OneKeyed
  <1>7. ASSUME NEW h \in Handle, NEW key \in Key, NEW value \in Ptr \cup Str,
               xlist_set(h, key, value)
        PROVE  Keyed'
    <2> DEFINE k == FirstOf(Hits(h, key))
    <2>1. head[h] # NULL /\ Moves({h}, {}) /\ ItemsOf(h)' = Changed(ItemsOf(h), k, value)
      BY <1>7, SetCall
    <2>2. k \in 1..Len(chain[h])-1
      <3>1. Hits(h, key) # {}
        BY <1>7 DEF xlist_set
      <3> QED
        BY <1>7, <2>1, <3>1, HitIsItem
    <2> HIDE DEF k
    <2> QED
      BY <2>1, <2>2, SetKeyed
  <1>8. ASSUME NEW n \in Node, clean_taken(n) PROVE Keyed'
    <2>1. AllItems' = AllItems
      BY <1>8, FreeIsForget DEF Abstract!Forget, AllItems
    <2> QED
      BY <2>1, StayKeyed
  <1>9. CASE UNCHANGED vars
    <2>1. AllItems' = AllItems
      BY <1>9 DEF vars, pointerVars, AllItems, ItemsOf
    <2> QED
      BY <2>1, StayKeyed
  <1> QED
    BY <1>1, <1>2, <1>3, <1>4, <1>5, <1>6, <1>7, <1>8, <1>9 DEF Next, Whole

\* What can be compared.
LEMMA KeyedIsKeysOf ==
    ASSUME HeapInv, Keyed, NEW h \in Handle, head[h] # NULL
    PROVE  KeysOf(chain[h])
  <1> DEFINE n == Len(chain[h]) - 1
  <1>1. /\ ItemsOf(h) \in Seq(Item) /\ Len(ItemsOf(h)) = n /\ ItemsOf(h) # NULL
        /\ \A k \in 1..n : ItemsOf(h)[k] = data[chain[h][k]]
    BY ItemsOfList
  <1>2. ItemsOf(h) \in Seq(Listed)
    BY <1>1 DEF Keyed
  <1> HIDE DEF n
  <1>3. \A k \in 1..n : ItemsOf(h)[k] \in Listed
    BY <1>1, <1>2
  <1>4. \A k \in 1..n : data[chain[h][k]].key \in Key
    BY <1>1, <1>3 DEF Listed
  <1> QED
    BY <1>4 DEF KeysOf, n

-----------------------------------------------------------------------------
(* The calls that loop, as steps.                                          *)

MoreInv == ListInv /\ Keyed

\* A call of xlist_dup copies the list to a handle that was free.
LEMMA DupCopies ==
    ASSUME HeapInv, Owned(data, mine), NEW h \in Handle, Duplicating(h)
    PROVE  \E g \in Handle : Copied(h, g)
  <1>1. PICK g \in Handle,
             s \in {f \in [1..Len(chain[h]) -> Node \ alive] : IsInjective(f)},
             t \in {f \in [1..Len(chain[h]) -> mine \cup {NULL}] :
                       \A j, k \in DOMAIN f : f[j] = f[k] => j = k \/ f[j] = NULL} :
           /\ \A k \in 1..Len(chain[h]) :
                 (StringOf(data[chain[h][k]]) # {}) <=> (t[k] # NULL)
           /\ xlist_dup(h, g, s, t)
    BY DEF Duplicating
  <1>2. Fresh(chain[h], s, t)
    BY <1>1 DEF Fresh
  <1> QED
    BY <1>1, <1>2, DupCall

LEMMA DupStep ==
    ASSUME HeapInv, Owned(data, mine), Keyed, NEW h \in Handle, Duplicating(h)
    PROVE  HeapInv' /\ Owned(data', mine') /\ Keyed' /\ Abstract!Next
  <1>1. PICK g \in Handle : Copied(h, g)
    BY DupCopies
  <1>2. Moves({g}, {}) /\ Owned(data', mine')
    BY <1>1 DEF Copied
  <1>3. HeapInv'
    <2>1. {g} \in SUBSET Handle
      OBVIOUS
    <2> QED
      BY <1>2, <2>1, MovesKeepsHeap
  <1>4. Keyed'
    BY <1>1, <1>3, CopyKeyed
  <1>5. Abstract!OfList(h) /\ ItemsOf(h) # NULL
    BY <1>1, DupIsCopy DEF Abstract!OfList
  <1>6. Abstract!Next
    BY <1>5, AbstractOne
  <1> QED
    BY <1>2, <1>3, <1>4, <1>6

\* An order of the items is a step of Lists, and keeps the keys.
LEMMA ArrangedIsArrange ==
    ASSUME HeapInv, NEW h \in Handle, NEW big, Arranged(h, big)
    PROVE  Abstract!Arrange(h) /\ ItemsOf(h) # NULL
  <1> DEFINE n == Len(ItemsOf(h))
  <1>1. Moves({h}, {}) /\ head[h] # NULL
    BY DEF Arranged
  <1>2. PICK q \in [1..n -> 1..n] :
           IsInjective(q) /\ ItemsOf(h)' = [k \in 1..n |-> ItemsOf(h)[q[k]]]
    BY DEF Arranged
  <1>3. ItemsOf(h) # NULL
    BY <1>1, ItemsOfList
  <1>4. AllItems[h] = ItemsOf(h)
    BY DEF AllItems
  <1>5. AllItems' = [AllItems EXCEPT ![h] = [k \in 1..Len(AllItems[h]) |-> AllItems[h][q[k]]]]
    BY <1>1, <1>2, <1>4, OneListChanges
  <1>6. q \in [1..Len(AllItems[h]) -> 1..Len(AllItems[h])] /\ Abstract!IsInjective(q)
    BY <1>2, <1>4 DEF Abstract!IsInjective, IsInjective
  <1>7. TakenItems' = TakenItems
    <2>1. {h} \in SUBSET Handle
      OBVIOUS
    <2> QED
      BY <1>1, <2>1, TakenStay
  <1>8. Abstract!Arrange(h)
    BY <1>5, <1>6, <1>7 DEF Abstract!Arrange, AllItems, TakenItems
  <1> QED
    BY <1>3, <1>8

LEMMA ArrangedKeyed ==
    ASSUME Keyed, NEW h \in Handle, Abstract!Arrange(h), ItemsOf(h) # NULL
    PROVE  Keyed'
  <1>1. AllItems[h] = ItemsOf(h)
    BY DEF AllItems
  <1>2. PICK p \in [1..Len(AllItems[h]) -> 1..Len(AllItems[h])] :
           AllItems' = [AllItems EXCEPT ![h] = [k \in 1..Len(AllItems[h]) |-> AllItems[h][p[k]]]]
    BY DEF Abstract!Arrange, AllItems
  <1> QED
    BY <1>1, <1>2, ArrangeKeyed

LEMMA ReverseStep ==
    ASSUME HeapInv, Owned(data, mine), Keyed, NEW h \in Handle, xlist_reverse(h)
    PROVE  HeapInv' /\ Owned(data', mine') /\ Keyed' /\ Abstract!Next
  <1>1. /\ ItemsOf(h)' = Reverse(ItemsOf(h)) /\ head[h] # NULL
        /\ Moves({h}, {}) /\ Owned(data', mine')
    BY ReverseCall DEF Turned
  <1>2. HeapInv'
    <2>1. {h} \in SUBSET Handle
      OBVIOUS
    <2> QED
      BY <1>1, <2>1, MovesKeepsHeap
  <1>3. Abstract!Arrange(h) /\ ItemsOf(h) # NULL
    BY ReverseIsArrange
  <1>4. Keyed'
    BY <1>3, ArrangedKeyed
  <1>5. Abstract!OfList(h)
    BY <1>3 DEF Abstract!OfList
  <1> QED
    BY <1>1, <1>2, <1>3, <1>4, <1>5, AbstractOne

LEMMA NotZeroStep ==
    ASSUME HeapInv, Owned(data, mine), Keyed, NEW h \in Handle, xlist_popv_notzero(h)
    PROVE  HeapInv' /\ Owned(data', mine') /\ Keyed' /\ Abstract!Next
  <1>1. Moves({h}, {}) /\ Owned(data', mine')
    BY NotZeroCall DEF Skipped
  <1>2. HeapInv'
    <2>1. {h} \in SUBSET Handle
      OBVIOUS
    <2> QED
      BY <1>1, <2>1, MovesKeepsHeap
  <1>3. PICK k \in 1..Len(ItemsOf(h)) : Abstract!Skip(h, k) /\ ItemsOf(h) # NULL
    BY NotZeroIsSkip
  <1>4. Keyed'
    <2>1. AllItems[h] = ItemsOf(h)
      BY DEF AllItems
    <2>2. AllItems' = [AllItems EXCEPT ![h] = SubSeq(AllItems[h], k + 1, Len(ItemsOf(h)))]
      BY <1>3, <2>1 DEF Abstract!Skip, AllItems
    <2>3. /\ k + 1 \in Nat \ {0} /\ Len(ItemsOf(h)) \in Int /\ Len(ItemsOf(h)) <= Len(ItemsOf(h))
      <3>1. ItemsOf(h) \in Seq(Listed)
        BY <1>3 DEF Keyed
      <3> QED
        BY <3>1
    <2> QED
      BY <1>3, <2>2, <2>3, PartKeyed
  <1>5. Abstract!OfList(h)
    <2>1. AllItems[h] = ItemsOf(h)
      BY DEF AllItems
    <2> QED
      BY <1>3, <2>1 DEF Abstract!OfList, AllItems
  <1> QED
    BY <1>1, <1>2, <1>3, <1>4, <1>5, AbstractOne

LEMMA OrdersStep ==
    ASSUME HeapInv, Owned(data, mine), Keyed, NEW h \in Handle, NEW big \in BOOLEAN,
           xlist_orders(h, big)
    PROVE  HeapInv' /\ Owned(data', mine') /\ Keyed' /\ Abstract!Next
  <1>1. Arranged(h, big)
    <2>1. head[h] # NULL
      BY NotEmpty DEF xlist_orders
    <2> QED
      BY <2>1, KeyedIsKeysOf, OrdersCall
  <1>2. Moves({h}, {}) /\ Owned(data', mine') /\ head[h] # NULL
    BY <1>1 DEF Arranged
  <1>3. HeapInv'
    <2>1. {h} \in SUBSET Handle
      OBVIOUS
    <2> QED
      BY <1>2, <2>1, MovesKeepsHeap
  <1>4. Abstract!Arrange(h) /\ ItemsOf(h) # NULL
    BY <1>1, ArrangedIsArrange
  <1>5. Keyed'
    BY <1>4, ArrangedKeyed
  <1>6. Abstract!OfList(h)
    BY <1>4 DEF Abstract!OfList
  <1> QED
    BY <1>2, <1>3, <1>4, <1>5, <1>6, AbstractOne

\* What the calls that loop leave, of the items alone.
LEMMA StepLoops ==
    ASSUME HeapInv, Owned(data, mine), Keyed, NEW h \in Handle
    PROVE  LET old == ItemsOf(h)
               new == ItemsOf(h)'
           IN
           /\ Duplicating(h) =>
                 /\ new = old
                 /\ \E g \in Handle :
                       head[g] = NULL /\ head'[g] # NULL /\ IsCopy(ItemsOf(g)', old)
           /\ xlist_reverse(h) => new = Reverse(old)
           /\ \A big \in BOOLEAN :
                 xlist_orders(h, big) =>
                     Len(new) = Len(old) /\ Rearranges(new, old) /\ IsOrdered(new, big)
           /\ xlist_popv_notzero(h) =>
                 \E k \in 1..Len(old) :
                     /\ old[k].value # NULL /\ \A j \in 1..k-1 : old[j].value = NULL
                     /\ new = SubSeq(old, k + 1, Len(old))
  <1>1. ASSUME xlist_reverse(h) PROVE ItemsOf(h)' = Reverse(ItemsOf(h))
    BY <1>1, ReverseCall DEF Turned
  <1>2. ASSUME NEW big \in BOOLEAN, xlist_orders(h, big)
        PROVE  /\ Len(ItemsOf(h)') = Len(ItemsOf(h)) /\ Rearranges(ItemsOf(h)', ItemsOf(h))
               /\ IsOrdered(ItemsOf(h)', big)
    <2> DEFINE old == ItemsOf(h)
               new == ItemsOf(h)'
               n == Len(old)
    <2>1. head[h] # NULL
      BY <1>2, NotEmpty DEF xlist_orders
    <2>2. Arranged(h, big)
      BY <1>2, <2>1, KeyedIsKeysOf, OrdersCall
    <2>3. PICK q \in [1..n -> 1..n] :
             IsInjective(q) /\ new = [k \in 1..n |-> old[q[k]]]
      BY <2>2 DEF Arranged
    <2>4. IsOrdered(new, big)
      BY <2>2 DEF Arranged
    <2>5. old \in Seq(Item) /\ n \in Nat
      BY <2>1, ItemsOfList
    <2>6. DOMAIN old = 1..n
      BY <2>5
    <2> HIDE DEF old, new, n
    <2>7. DOMAIN new = 1..n /\ \A k \in 1..n : new[k] = old[q[k]]
      BY <2>3
    <2>8. Len(new) = n
      <3>1. new = [k \in 1..n |-> old[q[k]]] /\ \A k \in 1..n : old[q[k]] \in Item
        BY <2>3, <2>5, <2>6
      <3>2. new \in Seq(Item) /\ Len(new) = n
        BY <2>5, <3>1
      <3> QED
        BY <3>2
    <2>9. Rearranges(new, old)
      BY <2>3, <2>6, <2>7 DEF Rearranges
    <2> QED
      BY <2>4, <2>8, <2>9 DEF old, new, n
  <1>3. ASSUME xlist_popv_notzero(h)
        PROVE  \E k \in 1..Len(ItemsOf(h)) :
                  /\ ItemsOf(h)[k].value # NULL
                  /\ \A j \in 1..k-1 : ItemsOf(h)[j].value = NULL
                  /\ ItemsOf(h)' = SubSeq(ItemsOf(h), k + 1, Len(ItemsOf(h)))
    BY <1>3, NotZeroCall DEF Skipped
  <1>4. ASSUME Duplicating(h)
        PROVE  /\ ItemsOf(h)' = ItemsOf(h)
               /\ \E g \in Handle :
                     head[g] = NULL /\ head'[g] # NULL /\ IsCopy(ItemsOf(g)', ItemsOf(h))
    <2>1. PICK g \in Handle : Copied(h, g)
      BY <1>4, DupCopies
    <2> QED
      BY <2>1, DupIsCopy
  <1> QED
    BY <1>1, <1>2, <1>3, <1>4

LEMMA LoopingStep ==
    ASSUME HeapInv, Owned(data, mine), Keyed, NEW h \in Handle, Looping(h)
    PROVE  HeapInv' /\ Owned(data', mine') /\ Keyed' /\ Abstract!Next
  BY DupStep, ReverseStep, NotZeroStep, OrdersStep DEF Looping

LEMMA InitMoreInv == Init => MoreInv
  BY InitListInv, InitKeyed DEF MoreInv

LEMMA StepMoreInv == MoreInv /\ [NextMore]_vars => MoreInv'
  <1> SUFFICES ASSUME ListInv, Keyed, [NextMore]_vars PROVE ListInv' /\ Keyed'
    BY DEF MoreInv
  <1>1. CASE [Next]_vars
    BY <1>1, StepListInv, StepKeyed
  <1>2. ASSUME NEW h \in Handle, Looping(h) PROVE ListInv' /\ Keyed'
    BY <1>2, LoopingStep DEF ListInv
  <1> QED
    BY <1>1, <1>2 DEF NextMore

LEMMA StepMoreAbstract == MoreInv /\ [NextMore]_vars => [Abstract!Next]_(Abstract!vars)
  <1> SUFFICES ASSUME ListInv, Keyed, [NextMore]_vars PROVE [Abstract!Next]_(Abstract!vars)
    BY DEF MoreInv
  <1>1. CASE [Next]_vars
    BY <1>1, StepAbstract
  <1>2. ASSUME NEW h \in Handle, Looping(h) PROVE Abstract!Next
    BY <1>2, LoopingStep DEF ListInv
  <1> QED
    BY <1>1, <1>2 DEF NextMore

LEMMA AlwaysMoreInv == SpecMore => []MoreInv
  BY InitMoreInv, StepMoreInv, PTL DEF SpecMore

-----------------------------------------------------------------------------

\* The links of every list, and what is allocated, always fit together, whatever
\* calls come in which order: no node is in two places, leaked, or freed while in
\* use (all of xlist.cpp).
THEOREM ListsStaySound == SpecMore => []IInv
  <1>1. MoreInv => IInv
    BY HeapInvIsIInv DEF MoreInv, ListInv, Owned
  <1> QED
    BY <1>1, AlwaysMoreInv, PTL

\* No string that was handed to a list is lost, freed twice or in two nodes.
THEOREM StringsStayOwned == SpecMore => []StringsOwned
  <1>1. MoreInv => StringsOwned
    BY OwnedIsStringsOwned DEF MoreInv, ListInv
  <1> QED
    BY <1>1, AlwaysMoreInv, PTL

\* Every call does to the sequence of the items what its name says: it adds first,
\* last or at the index, takes the first, the last, the one at the index or the
\* first one with the key, and nothing else changes.
THEOREM CallsAreTheirs == SpecMore => CallsDoTheirs
  <1>1. MoreInv => [\A h \in Handle : Calls(h)]_vars
    BY StepCalls DEF MoreInv, ListInv
  <1> QED
    BY <1>1, AlwaysMoreInv, PTL DEF CallsDoTheirs

\* The lists of xlist.cpp implement the lists of Lists: whatever it does with
\* nodes and links, the items are those of a sequence to which one call of Lists
\* is made, or nothing has changed.
THEOREM ListsAreSequences == SpecMore => ImplementsLists
  BY InitAbstract, StepMoreAbstract, AlwaysMoreInv, PTL
     DEF SpecMore, ImplementsLists, Abstract!Spec

\* The calls that loop end, with every list whole, and do what their names say:
\* xlist_dup leaves the list as it is and another one with the same items, but that
\* each of its strings is one of its own, xlist_reverse turns the items round,
\* xlist_order and xlist_order_big put them in the order of their keys, and
\* xlist_popv_notzero takes the items up to the first one with a value.
THEOREM LoopsAreTheirs == SpecMore => LoopsDoTheirs
  <1> DEFINE Loops(h) ==
         LET old == ItemsOf(h)
             new == ItemsOf(h)'
         IN
         /\ Duplicating(h) =>
               /\ new = old
               /\ \E g \in Handle :
                     head[g] = NULL /\ head'[g] # NULL /\ IsCopy(ItemsOf(g)', old)
         /\ xlist_reverse(h) => new = Reverse(old)
         /\ \A big \in BOOLEAN :
               xlist_orders(h, big) =>
                   Len(new) = Len(old) /\ Rearranges(new, old) /\ IsOrdered(new, big)
         /\ xlist_popv_notzero(h) =>
               \E k \in 1..Len(old) :
                   /\ old[k].value # NULL /\ \A j \in 1..k-1 : old[j].value = NULL
                   /\ new = SubSeq(old, k + 1, Len(old))
  <1>1. MoreInv => [\A h \in Handle : Loops(h)]_vars
    BY StepLoops DEF MoreInv, ListInv
  <1> QED
    BY <1>1, AlwaysMoreInv, PTL DEF LoopsDoTheirs
=============================================================================
