--------------------------- MODULE LibraryProofs ----------------------------
(***************************************************************************)
(* Proofs about four parts of the afx library.  The two byte streams,      *)
(* Socket and XChain, come first, with what both are made of: strings of   *)
(* bytes, put one after the other and cut.  Then the arrays, XArray, and   *)
(* the heap, XBigHeap.  For every size of head and buffers, all messages   *)
(* and every way in which the kernel cuts the stream, what xsk_recv hands  *)
(* out are the messages that xsk_send was given, whole and in order.  For  *)
(* every size of granules and all data, a chain is a queue of bytes.  For  *)
(* every size of cells and all indices, an array reads as it was set.  For *)
(* all weights, a heap in order hands out its heaviest node.               *)
(***************************************************************************)
EXTENDS Socket, XChain, XArray, XBigHeap, SequenceTheorems, NaturalsInduction,
        WellFoundedInduction, TLAPS

Bytestring == Seq(Byte)

-----------------------------------------------------------------------------
(* Recursion along the natural numbers.                                    *)

\* A set of natural numbers that has no least element is empty; so what holds of a number
\* whenever it holds of those below holds of all.
LEMMA LeastOne ==
    ASSUME NEW P \in SUBSET Nat,
           \A k \in Nat : (\A j \in Nat : j < k => j \in P) => k \in P
    PROVE  P = Nat
  <1> DEFINE lt == {ss \in Nat \X Nat : ss[1] < ss[2]}
             S == Nat \ P
  <1>1. \A x, y \in Nat : <<x, y>> \in lt <=> x < y
    OBVIOUS
  <1>2. IsWellFoundedOn(lt, Nat)
    BY NatLessThanWellFounded DEF OpToRel
  <1> HIDE DEF lt
  <1>3. CASE S # {}
    <2>1. PICK k \in S : \A j \in S : ~(<<j, k>> \in lt)
      BY <1>2, <1>3, WFMin
    <2>2. k \in Nat /\ \A j \in Nat : j < k => j \in P
      BY <1>1, <2>1
    <2> QED
      BY <2>1, <2>2
  <1> QED
    BY <1>3

\* Step by step, up to n.
LEMMA StepByStep ==
    ASSUME NEW n \in Nat, NEW P \in SUBSET Nat, 0 \in P,
           \A k \in 1..n : k - 1 \in P => k \in P
    PROVE  \A k \in 0..n : k \in P
  <1> DEFINE Q == {k \in Nat : k <= n => k \in P}
  <1>1. ASSUME NEW k \in Nat, \A j \in Nat : j < k => j \in Q PROVE k \in Q
    <2>1. CASE k = 0
      BY <2>1
    <2>2. CASE k # 0 /\ k <= n
      <3>1. k - 1 \in Nat /\ k - 1 < k /\ k - 1 <= n /\ k \in 1..n
        BY <2>2
      <3> QED
        BY <1>1, <3>1
    <2> QED
      BY <2>1, <2>2
  <1>2. Q = Nat
    <2>1. Q \in SUBSET Nat
      OBVIOUS
    <2> HIDE DEF Q
    <2> QED
      BY <1>1, <2>1, LeastOne
  <1> QED
    BY <1>2

\* A function defined from x0 by steps g along 0..n exists.
Steps(n, S) == [1..n -> [S -> S]]
Follows(f, n, x0, g) == f[0] = x0 /\ \A k \in 1..n : f[k] = g[k][f[k-1]]

LEMMA StepsExist ==
    ASSUME NEW n \in Nat, NEW S, NEW x0 \in S, NEW g \in Steps(n, S)
    PROVE  \E f \in [0..n -> S] : Follows(f, n, x0, g)
  <1> DEFINE Good(m) == \E f \in [0..m -> S] :
                           \A k \in 0..m : f[k] = IF k = 0 THEN x0 ELSE g[k][f[k-1]]
             P == {m \in Nat : m <= n => Good(m)}
  <1>0. g \in [1..n -> [S -> S]]
    BY DEF Steps
  <1>1. 0 \in P
    <2> DEFINE f == [k \in 0..0 |-> x0]
    <2>1. f \in [0..0 -> S] /\ \A k \in 0..0 : f[k] = IF k = 0 THEN x0 ELSE g[k][f[k-1]]
      OBVIOUS
    <2> QED
      BY <2>1
  <1>2. ASSUME NEW m \in 1..n, m - 1 \in P PROVE m \in P
    <2>1. m \in Nat /\ m - 1 \in Nat /\ m # 0
      OBVIOUS
    <2>2. Good(m - 1)
      BY <1>2, <2>1
    <2>3. PICK f \in [0..m-1 -> S] :
               \A k \in 0..m-1 : f[k] = IF k = 0 THEN x0 ELSE g[k][f[k-1]]
      BY <2>2
    <2> DEFINE h == [k \in 0..m |-> IF k = m THEN g[m][f[m-1]] ELSE f[k]]
    <2>4. f[m-1] \in S
      BY <2>1
    <2>5. g[m][f[m-1]] \in S
      BY <1>0, <2>4
    <2>6. h \in [0..m -> S]
      BY <2>1, <2>5
    <2>7. ASSUME NEW k \in 0..m PROVE h[k] = IF k = 0 THEN x0 ELSE g[k][h[k-1]]
      <3>1. CASE k = m
        <4>1. h[k] = g[m][f[m-1]] /\ h[m-1] = f[m-1]
          BY <2>1, <3>1
        <4> QED
          BY <2>1, <3>1, <4>1
      <3>2. CASE k # m
        <4>1. k \in 0..m-1 /\ h[k] = f[k]
          BY <2>1, <3>2
        <4>2. CASE k = 0
          BY <2>3, <4>1, <4>2
        <4>3. CASE k # 0
          <5>1. k - 1 \in 0..m /\ k - 1 # m
            BY <2>1, <3>2, <4>3
          <5>2. h[k-1] = f[k-1]
            BY <5>1
          <5> QED
            BY <2>3, <4>1, <4>3, <5>2
        <4> QED
          BY <4>2, <4>3
      <3> QED
        BY <3>1, <3>2
    <2> HIDE DEF h
    <2>8. Good(m)
      BY <2>6, <2>7
    <2> QED
      BY <2>1, <2>8
  <1>3. P \in SUBSET Nat
    OBVIOUS
  <1>4. n \in P
    <2> HIDE DEF P
    <2>1. \A k \in 0..n : k \in P
      BY <1>1, <1>2, <1>3, StepByStep
    <2> QED
      BY <2>1
  <1>5. PICK f \in [0..n -> S] : \A k \in 0..n : f[k] = IF k = 0 THEN x0 ELSE g[k][f[k-1]]
    BY <1>4
  <1>6. f[0] = x0 /\ \A k \in 1..n : f[k] = g[k][f[k-1]]
    <2>1. 0 \in 0..n /\ \A k \in 1..n : k \in 0..n /\ k # 0
      OBVIOUS
    <2> QED
      BY <1>5, <2>1
  <1> QED
    BY <1>6 DEF Follows

\* What is typed at 0, and at each next number if it is at the one before.
LEMMA StepsTyped ==
    ASSUME NEW n \in Nat, NEW S, NEW d, d[0] \in S, \A k \in 1..n : d[k-1] \in S => d[k] \in S
    PROVE  \A k \in 0..n : d[k] \in S
  <1> DEFINE P == {k \in Nat : d[k] \in S}
  <1>1. P \in SUBSET Nat /\ 0 \in P
    OBVIOUS
  <1>2. \A k \in 1..n : k - 1 \in P => k \in P
    OBVIOUS
  <1>3. \A k \in 0..n : k \in P
    <2> HIDE DEF P
    <2> QED
      BY <1>1, <1>2, StepByStep
  <1> QED
    BY <1>3

-----------------------------------------------------------------------------
(* The head.                                                               *)

LEMMA HeadLength == XSK_HEAD_LEN \in Nat \ {0}
  BY SocketAssumption

LEMMA ShiftedFacts ==
    ASSUME NEW n \in Nat
    PROVE  /\ \A k \in 0..XSK_HEAD_LEN : Shifted(n)[k] \in Nat
           /\ Shifted(n)[0] = n
           /\ \A k \in 1..XSK_HEAD_LEN : Shifted(n)[k] = Shifted(n)[k-1] \div 256
  <1> DEFINE H == XSK_HEAD_LEN
             D(d) == [k \in 0..H |-> IF k = 0 THEN n ELSE d[k-1] \div 256]
             g == [k \in 1..H |-> [x \in Nat |-> x \div 256]]
             s == Shifted(n)
  <1>1. H \in Nat
    BY HeadLength
  <1>2. \A x \in Nat : x \div 256 \in Nat
    OBVIOUS
  <1>3. \E d : d = D(d)
    <2>1. g \in [1..H -> [Nat -> Nat]] /\ \A k \in 1..H : \A x \in Nat : g[k][x] = x \div 256
      BY <1>2
    <2> HIDE DEF g, H
    <2>2. PICK f \in [0..H -> Nat] : f[0] = n /\ \A k \in 1..H : f[k] = g[k][f[k-1]]
      <3>1. g \in Steps(H, Nat)
        BY <2>1 DEF Steps
      <3>2. PICK f \in [0..H -> Nat] : Follows(f, H, n, g)
        BY <1>1, <3>1, StepsExist
      <3> QED
        BY <3>2 DEF Follows
    <2>3. ASSUME NEW k \in 0..H PROVE f[k] = IF k = 0 THEN n ELSE f[k-1] \div 256
      <3>1. CASE k = 0
        BY <2>2, <3>1
      <3>2. CASE k # 0
        <4>1. k \in 1..H /\ k - 1 \in 0..H
          BY <1>1, <3>2
        <4>2. f[k-1] \in Nat /\ f[k] = g[k][f[k-1]]
          BY <2>2, <3>2, <4>1
        <4>3. g[k][f[k-1]] = f[k-1] \div 256
          BY <2>1, <4>1, <4>2
        <4> QED
          BY <3>2, <4>2, <4>3
      <3> QED
        BY <3>1, <3>2
    <2>4. f = D(f)
      BY <2>2, <2>3
    <2> QED
      BY <2>4
  <1>4. s = D(s)
    <2>1. s = CHOOSE d : d = D(d)
      BY DEF Shifted
    <2> HIDE DEF s, D
    <2> QED
      BY <1>3, <2>1
  <1>5. s[0] = n /\ \A k \in 1..H : s[k] = s[k-1] \div 256
    <2>1. \A k \in 0..H : s[k] = D(s)[k]
      BY <1>4
    <2> HIDE DEF s
    <2> QED
      BY <1>1, <2>1
  <1>6. \A k \in 0..H : s[k] \in Nat
    <2> HIDE DEF s, H
    <2>1. s[0] \in Nat /\ \A k \in 1..H : s[k-1] \in Nat => s[k] \in Nat
      BY <1>2, <1>5
    <2> QED
      BY <1>1, <2>1, StepsTyped
  <1> QED
    BY <1>5, <1>6

\* The bytes of a head.
LEMMA HeadFacts ==
    ASSUME NEW n \in Nat
    PROVE  /\ htonl(n) \in Bytestring /\ Len(htonl(n)) = XSK_HEAD_LEN
           /\ \A k \in 1..XSK_HEAD_LEN : htonl(n)[k] = Shifted(n)[XSK_HEAD_LEN - k] % 256
  <1>1. \A k \in 1..XSK_HEAD_LEN : XSK_HEAD_LEN - k \in 0..XSK_HEAD_LEN
    BY HeadLength
  <1>2. ASSUME NEW x \in Nat PROVE x % 256 \in Byte
    BY DEF Byte
  <1>3. \A k \in 1..XSK_HEAD_LEN : Shifted(n)[XSK_HEAD_LEN - k] % 256 \in Byte
    BY <1>1, <1>2, ShiftedFacts
  <1> QED
    BY <1>3, HeadLength DEF htonl, Bytestring

\* What ntohl adds up, byte by byte.
LEMMA NtohlFacts ==
    ASSUME NEW head \in Bytestring
    PROVE  \E v : /\ ntohl(head) = v[Len(head)] /\ v[0] = 0
                  /\ \A k \in 1..Len(head) : v[k] = 256 * v[k-1] + head[k]
                  /\ \A k \in 0..Len(head) : v[k] \in Nat
  <1> DEFINE N == Len(head)
             D(d) == [k \in 0..N |-> IF k = 0 THEN 0 ELSE 256 * d[k-1] + head[k]]
             g == [k \in 1..N |-> [x \in Nat |-> 256 * x + head[k]]]
             v == CHOOSE d : d = D(d)
  <1>1. N \in Nat /\ \A k \in 1..N : head[k] \in Byte
    BY DEF Bytestring
  <1>2. \A x \in Nat : \A k \in 1..N : 256 * x + head[k] \in Nat
    <2> HIDE DEF N
    <2>0. Byte \subseteq Nat
      BY DEF Byte
    <2>1. \A k \in 1..N : head[k] \in Nat
      BY <1>1, <2>0
    <2>2. \A x, y \in Nat : 256 * x + y \in Nat
      OBVIOUS
    <2> QED
      BY <2>1, <2>2
  <1>3. \E d : d = D(d)
    <2>1. g \in [1..N -> [Nat -> Nat]] /\ \A k \in 1..N : \A x \in Nat : g[k][x] = 256 * x + head[k]
      BY <1>2
    <2> HIDE DEF g, N
    <2>2. PICK f \in [0..N -> Nat] : f[0] = 0 /\ \A k \in 1..N : f[k] = g[k][f[k-1]]
      <3>1. g \in Steps(N, Nat)
        BY <2>1 DEF Steps
      <3>2. PICK f \in [0..N -> Nat] : Follows(f, N, 0, g)
        BY <1>1, <3>1, StepsExist
      <3> QED
        BY <3>2 DEF Follows
    <2>3. ASSUME NEW k \in 0..N PROVE f[k] = IF k = 0 THEN 0 ELSE 256 * f[k-1] + head[k]
      <3>1. CASE k = 0
        BY <2>2, <3>1
      <3>2. CASE k # 0
        <4>1. k \in 1..N /\ k - 1 \in 0..N
          BY <1>1, <3>2
        <4>2. f[k-1] \in Nat /\ f[k] = g[k][f[k-1]]
          BY <2>2, <4>1
        <4>3. g[k][f[k-1]] = 256 * f[k-1] + head[k]
          BY <2>1, <4>1, <4>2
        <4> QED
          BY <3>2, <4>2, <4>3
      <3> QED
        BY <3>1, <3>2
    <2>4. f = D(f)
      BY <2>2, <2>3
    <2> QED
      BY <2>4
  <1>4. v = D(v)
    <2> HIDE DEF D
    <2> QED
      BY <1>3
  <1>5. v[0] = 0 /\ \A k \in 1..N : v[k] = 256 * v[k-1] + head[k]
    <2>1. \A k \in 0..N : v[k] = D(v)[k]
      BY <1>4
    <2> HIDE DEF v, N
    <2> QED
      BY <1>1, <2>1
  <1>6. \A k \in 0..N : v[k] \in Nat
    <2> HIDE DEF v, N
    <2>1. v[0] \in Nat /\ \A k \in 1..N : v[k-1] \in Nat => v[k] \in Nat
      BY <1>2, <1>5
    <2> QED
      BY <1>1, <2>1, StepsTyped
  <1>7. ntohl(head) = v[N]
    BY DEF ntohl
  <1> HIDE DEF v
  <1> QED
    BY <1>5, <1>6, <1>7

\* A length comes back from its head: the k bytes read so far are the length, shifted by
\* those that are still to be read.
LEMMA LengthComesBack ==
    ASSUME NEW n \in 0..MaxSize - 1
    PROVE  ntohl(htonl(n)) = n
  <1> DEFINE H == XSK_HEAD_LEN
             h == htonl(n)
             s == Shifted(n)
  <1>1. n \in Nat /\ H \in Nat /\ s[H] = 0
    BY HeadLength, SocketAssumption
  <1>2. h \in Bytestring /\ Len(h) = H /\ \A k \in 1..H : h[k] = s[H - k] % 256
    BY <1>1, HeadFacts
  <1>3. /\ \A k \in 0..H : s[k] \in Nat
        /\ s[0] = n /\ \A k \in 1..H : s[k] = s[k-1] \div 256
    BY <1>1, ShiftedFacts
  <1> HIDE DEF h, s, H
  <1>4. PICK v : /\ ntohl(h) = v[Len(h)] /\ v[0] = 0
                 /\ \A k \in 1..Len(h) : v[k] = 256 * v[k-1] + h[k]
                 /\ \A k \in 0..Len(h) : v[k] \in Nat
    BY <1>2, NtohlFacts
  <1> DEFINE P == {k \in Nat : v[k] = s[H - k]}
  <1>5. 0 \in P
    BY <1>1, <1>4
  <1>6. ASSUME NEW k \in 1..H, k - 1 \in P PROVE k \in P
    <2>1. k \in Nat /\ H - k \in 0..H /\ H - k + 1 \in 1..H /\ H - (k - 1) = H - k + 1
          /\ (H - k + 1) - 1 = H - k
      BY <1>1
    <2>2. v[k-1] = s[H - k + 1]
      BY <1>6, <2>1
    <2>3. s[H - k + 1] = s[H - k] \div 256
      BY <1>3, <2>1
    <2>4. v[k] = 256 * v[k-1] + (s[H - k] % 256)
      BY <1>2, <1>4
    <2>5. \A x \in Nat : 256 * (x \div 256) + (x % 256) = x
      OBVIOUS
    <2>6. s[H - k] \in Nat
      BY <1>3, <2>1
    <2> QED
      BY <2>1, <2>2, <2>3, <2>4, <2>5, <2>6
  <1>7. H \in P
    <2>1. P \in SUBSET Nat
      OBVIOUS
    <2> HIDE DEF P
    <2>2. \A k \in 0..H : k \in P
      BY <1>1, <1>5, <1>6, <2>1, StepByStep
    <2> QED
      BY <1>1, <2>2
  <1>8. v[H] = s[0]
    BY <1>1, <1>7
  <1> QED
    BY <1>2, <1>3, <1>4, <1>8 DEF h

-----------------------------------------------------------------------------
(* The bytes of messages.                                                  *)

LEMMA NilIs == Nil \in Bytestring /\ Len(Nil) = 0 /\ \A x \in Bytestring : x \o Nil = x /\ Nil \o x = x
  BY DEF Nil, Bytestring

LEMMA Joined ==
    ASSUME NEW x \in Bytestring, NEW y \in Bytestring
    PROVE  x \o y \in Bytestring /\ Len(x \o y) = Len(x) + Len(y)
  BY ConcatProperties DEF Bytestring

Regroups(x, y, z) == (x \o y) \o z = x \o (y \o z)

LEMMA Regrouped ==
    ASSUME NEW x \in Bytestring, NEW y \in Bytestring, NEW z \in Bytestring
    PROVE  Regroups(x, y, z)
  BY ConcatAssociative DEF Bytestring, Regroups

SameBytes(b, p, d, u, r) == b \o (p \o (d \o (u \o r))) = (((b \o p) \o d) \o u) \o r

LEMMA RegroupedAll ==
    ASSUME NEW b \in Bytestring, NEW p \in Bytestring, NEW d \in Bytestring,
           NEW u \in Bytestring, NEW r \in Bytestring
    PROVE  SameBytes(b, p, d, u, r)
  <1>1. b \o p \in Bytestring /\ (b \o p) \o d \in Bytestring
    BY DEF Bytestring
  <1>2. u \o r \in Bytestring /\ d \o (u \o r) \in Bytestring
    BY DEF Bytestring
  <1>3. Regroups(b, p, d \o (u \o r))
    BY <1>2, Regrouped
  <1>4. Regroups(b \o p, d, u \o r)
    BY <1>1, <1>2, Regrouped
  <1>5. Regroups((b \o p) \o d, u, r)
    BY <1>1, Regrouped
  <1> QED
    BY <1>3, <1>4, <1>5 DEF Regroups, SameBytes

-----------------------------------------------------------------------------
(* Byte strings in a row, and the frames of messages.                      *)

\* FlattenSeq goes along the row.
Along(b, s) == b[0] = Nil /\ \A k \in 1..Len(s) : b[k] = b[k-1] \o s[k]

LEMMA FlatAlong ==
    ASSUME NEW s \in Seq(Bytestring)
    PROVE  \E b \in [0..Len(s) -> Bytestring] : Along(b, s) /\ FlattenSeq(s) = b[Len(s)]
  <1> DEFINE N == Len(s)
             D(d) == [k \in 1..N |-> IF k = 1 THEN s[k] ELSE d[k-1] \o s[k]]
             g == [k \in 1..N |-> [x \in Bytestring |-> x \o s[k]]]
             c == CHOOSE d : d = D(d)
  <1>1. N \in Nat /\ Nil \in Bytestring /\ \A k \in 1..N : s[k] \in Bytestring
    BY NilIs
  <1>2. PICK b \in [0..N -> Bytestring] : Along(b, s)
    <2>1. \A x \in Bytestring : \A k \in 1..N : x \o s[k] \in Bytestring
      BY <1>1, Joined
    <2>2. /\ g \in Steps(N, Bytestring)
          /\ \A k \in 1..N : \A x \in Bytestring : g[k][x] = x \o s[k]
      BY <2>1 DEF Steps
    <2> HIDE DEF g
    <2>3. PICK b \in [0..N -> Bytestring] : Follows(b, N, Nil, g)
      BY <1>1, <2>2, StepsExist
    <2>4. ASSUME NEW k \in 1..N PROVE b[k] = b[k-1] \o s[k]
      <3>1. k - 1 \in 0..N
        BY <1>1
      <3> QED
        BY <2>2, <2>3, <3>1 DEF Follows
    <2> QED
      BY <2>3, <2>4 DEF Follows, Along
  <1>3. b[0] = Nil /\ \A k \in 1..N : b[k] = b[k-1] \o s[k] /\ b[k-1] \in Bytestring
    <2>1. \A k \in 1..N : k - 1 \in 0..N
      BY <1>1
    <2> QED
      BY <1>2, <2>1 DEF Along
  <1>4. CASE N = 0
    <2>1. FlattenSeq(s) = s /\ s = Nil
      BY <1>4 DEF FlattenSeq, Nil
    <2> QED
      BY <1>2, <1>3, <1>4, <2>1
  <1>5. CASE N # 0
    <2> DEFINE h == [k \in 1..N |-> b[k]]
    <2>1. ASSUME NEW k \in 1..N PROVE h[k] = IF k = 1 THEN s[k] ELSE h[k-1] \o s[k]
      <3>1. CASE k = 1
        <4>1. b[k] = Nil \o s[k]
          BY <1>3, <3>1
        <4>2. s[k] \in Bytestring
          BY <1>1
        <4> QED
          BY <3>1, <4>1, <4>2, NilIs
      <3>2. CASE k # 1
        <4>1. k - 1 \in 1..N
          BY <1>1, <3>2
        <4> QED
          BY <1>3, <3>2, <4>1
      <3> QED
        BY <3>1, <3>2
    <2>2. h = D(h)
      <3>1. h = [k \in 1..N |-> IF k = 1 THEN s[k] ELSE h[k-1] \o s[k]]
        BY <2>1
      <3> QED
        BY <3>1
    <2>3. c = D(c)
      <3> HIDE DEF D, h
      <3> QED
        BY <2>2
    <2>4. ASSUME NEW k \in 1..N PROVE c[k] = IF k = 1 THEN s[k] ELSE c[k-1] \o s[k]
      <3>1. c[k] = D(c)[k]
        BY <2>3
      <3> HIDE DEF c
      <3> QED
        BY <3>1
    <2>5. FlattenSeq(s) = c[N]
      BY <1>5 DEF FlattenSeq
    <2> HIDE DEF c, D, h
    <2> DEFINE P == {k \in Nat : k = 0 \/ c[k] = b[k]}
    <2>6. ASSUME NEW k \in 1..N, k - 1 \in P PROVE k \in P
      <3>1. CASE k = 1
        <4>1. b[k] = Nil \o s[k]
          BY <1>3, <3>1
        <4>2. s[k] \in Bytestring /\ k \in Nat
          BY <1>1
        <4>3. c[k] = s[k]
          BY <2>4, <3>1
        <4> QED
          BY <4>1, <4>2, <4>3, NilIs
      <3>2. CASE k # 1
        <4>1. k - 1 # 0 /\ c[k-1] = b[k-1] /\ k \in Nat
          BY <1>1, <2>6, <3>2
        <4> QED
          BY <1>3, <2>4, <3>2, <4>1
      <3> QED
        BY <3>1, <3>2
    <2>7. N \in P
      <3>1. P \in SUBSET Nat /\ 0 \in P
        OBVIOUS
      <3> HIDE DEF P, N
      <3>2. \A k \in 0..N : k \in P
        BY <1>1, <2>6, <3>1, StepByStep
      <3> QED
        BY <1>1, <3>2
    <2>8. c[N] = b[N]
      BY <1>5, <2>7
    <2> QED
      BY <1>2, <2>5, <2>8
  <1> QED
    BY <1>4, <1>5

LEMMA FlatIsBytes ==
    ASSUME NEW s \in Seq(Bytestring)
    PROVE  FlattenSeq(s) \in Bytestring
  <1>1. PICK b \in [0..Len(s) -> Bytestring] : FlattenSeq(s) = b[Len(s)]
    BY FlatAlong
  <1>2. Len(s) \in 0..Len(s)
    OBVIOUS
  <1> QED
    BY <1>1, <1>2

\* Two rows, one after the other.
LEMMA FlatConcat ==
    ASSUME NEW s \in Seq(Bytestring), NEW t \in Seq(Bytestring)
    PROVE  s \o t \in Seq(Bytestring) /\ FlattenSeq(s \o t) = FlattenSeq(s) \o FlattenSeq(t)
  <1> DEFINE m == Len(s)
             n == Len(t)
             st == s \o t
  <1>1. /\ m \in Nat /\ n \in Nat /\ st \in Seq(Bytestring) /\ Len(st) = m + n
        /\ \A k \in 1..m : st[k] = s[k]
        /\ \A k \in 1..n : st[m + k] = t[k] /\ t[k] \in Bytestring
    BY ConcatProperties
  <1>2. PICK b \in [0..m -> Bytestring] : Along(b, s) /\ FlattenSeq(s) = b[m]
    BY FlatAlong
  <1>3. PICK c \in [0..n -> Bytestring] : Along(c, t) /\ FlattenSeq(t) = c[n]
    BY FlatAlong
  <1>4. PICK d \in [0..m+n -> Bytestring] : Along(d, st) /\ FlattenSeq(st) = d[m+n]
    BY <1>1, FlatAlong
  <1> HIDE DEF m, n, st
  <1>5. /\ b[0] = Nil /\ \A k \in 1..m : b[k] = b[k-1] \o s[k]
        /\ c[0] = Nil /\ \A k \in 1..n : c[k] = c[k-1] \o t[k]
        /\ d[0] = Nil /\ \A k \in 1..m+n : d[k] = d[k-1] \o st[k]
    BY <1>1, <1>2, <1>3, <1>4 DEF Along, m, n
  <1>6. d[m] = b[m] /\ b[m] \in Bytestring
    <2> DEFINE P == {k \in Nat : d[k] = b[k]}
    <2>1. P \in SUBSET Nat /\ 0 \in P
      BY <1>5
    <2>2. ASSUME NEW k \in 1..m, k - 1 \in P PROVE k \in P
      <3>1. k \in 1..m+n /\ k \in Nat /\ d[k-1] = b[k-1] /\ st[k] = s[k]
        BY <1>1, <2>2
      <3> QED
        BY <1>5, <3>1
    <2> HIDE DEF P
    <2>3. \A k \in 0..m : k \in P
      BY <1>1, <2>1, <2>2, StepByStep
    <2>4. m \in P /\ m \in 0..m
      BY <1>1, <2>3
    <2> QED
      BY <1>2, <2>4 DEF P
  <1>7. d[m+n] = b[m] \o c[n]
    <2> DEFINE P == {k \in Nat : d[m+k] = b[m] \o c[k]}
    <2>1. 0 \in P
      <3>1. b[m] \o Nil = b[m]
        BY <1>6, NilIs
      <3>2. m + 0 = m
        BY <1>1
      <3> QED
        BY <1>5, <1>6, <3>1, <3>2
    <2>2. ASSUME NEW k \in 1..n, k - 1 \in P PROVE k \in P
      <3>1. /\ m + k \in 1..m+n /\ (m + k) - 1 = m + (k - 1) /\ k \in Nat
            /\ k - 1 \in 0..n
        BY <1>1
      <3>2. d[m+k] = (b[m] \o c[k-1]) \o t[k]
        <4>1. d[m+k] = d[m+(k-1)] \o st[m+k]
          BY <1>5, <3>1
        <4>2. d[m+(k-1)] = b[m] \o c[k-1] /\ st[m+k] = t[k]
          BY <1>1, <2>2
        <4> QED
          BY <4>1, <4>2
      <3>3. Regroups(b[m], c[k-1], t[k])
        <4>1. c[k-1] \in Bytestring /\ t[k] \in Bytestring
          BY <1>1, <1>3, <3>1
        <4> QED
          BY <1>6, <4>1, Regrouped
      <3>4. c[k] = c[k-1] \o t[k]
        BY <1>5
      <3>5. d[m+k] = b[m] \o c[k]
        BY <3>2, <3>3, <3>4 DEF Regroups
      <3> QED
        BY <3>1, <3>5
    <2>3. P \in SUBSET Nat
      OBVIOUS
    <2> HIDE DEF P
    <2>4. \A k \in 0..n : k \in P
      BY <1>1, <2>1, <2>2, <2>3, StepByStep
    <2>5. n \in P
      BY <1>1, <2>4
    <2> QED
      BY <2>5 DEF P
  <1> QED
    BY <1>1, <1>2, <1>3, <1>4, <1>6, <1>7 DEF st

LEMMA FlatNil == FlattenSeq(Nil) = Nil
  BY DEF FlattenSeq, Nil

LEMMA FlatOne ==
    ASSUME NEW x \in Bytestring
    PROVE  << x >> \in Seq(Bytestring) /\ FlattenSeq(<< x >>) = x
  <1>1. << x >> \in Seq(Bytestring) /\ Len(<< x >>) = 1 /\ << x >>[1] = x
    OBVIOUS
  <1>2. PICK b \in [0..1 -> Bytestring] : Along(b, << x >>) /\ FlattenSeq(<< x >>) = b[1]
    BY <1>1, FlatAlong
  <1>3. b[0] = Nil /\ b[1] = b[0] \o x
    <2>1. 1 \in 1..Len(<< x >>) /\ 1 - 1 = 0
      BY <1>1
    <2>2. b[1] = b[1-1] \o << x >>[1] /\ b[0] = Nil
      BY <1>2, <2>1 DEF Along
    <2> QED
      BY <1>1, <2>1, <2>2
  <1> QED
    BY <1>1, <1>2, <1>3, NilIs

\* A row that is made of another sequence, element by element.
RowOf(F, s) == [k \in DOMAIN s |-> F[s[k]]]

LEMMA RowFacts ==
    ASSUME NEW S, NEW F \in [S -> Bytestring], NEW s \in Seq(S)
    PROVE  /\ RowOf(F, s) \in Seq(Bytestring) /\ Len(RowOf(F, s)) = Len(s) /\ Len(s) \in Nat
           /\ \A k \in 1..Len(s) : RowOf(F, s)[k] = F[s[k]]
           /\ FlattenSeq(RowOf(F, s)) \in Bytestring
  <1>1. Len(s) \in Nat /\ DOMAIN s = 1..Len(s) /\ \A k \in 1..Len(s) : F[s[k]] \in Bytestring
    OBVIOUS
  <1>2. RowOf(F, s) = [k \in 1..Len(s) |-> F[s[k]]]
    BY <1>1 DEF RowOf
  <1>3. RowOf(F, s) \in Seq(Bytestring) /\ Len(RowOf(F, s)) = Len(s)
    BY <1>1, <1>2
  <1> QED
    BY <1>1, <1>2, <1>3, FlatIsBytes

LEMMA RowConcat ==
    ASSUME NEW s \in Seq(Bytestring), NEW t \in Seq(Bytestring)
    PROVE  /\ s \o t \in Seq(Bytestring) /\ Len(s \o t) = Len(s) + Len(t)
           /\ \A k \in 1..Len(s) : (s \o t)[k] = s[k]
           /\ \A k \in 1..Len(t) : (s \o t)[Len(s) + k] = t[k]
  BY ConcatProperties

LEMMA RowOfConcat ==
    ASSUME NEW S, NEW F \in [S -> Bytestring], NEW s \in Seq(S), NEW t \in Seq(S)
    PROVE  /\ s \o t \in Seq(S)
           /\ FlattenSeq(RowOf(F, s \o t)) = FlattenSeq(RowOf(F, s)) \o FlattenSeq(RowOf(F, t))
  <1>1. /\ s \o t \in Seq(S) /\ Len(s \o t) = Len(s) + Len(t)
        /\ \A k \in 1..Len(s) : (s \o t)[k] = s[k]
        /\ \A k \in 1..Len(t) : (s \o t)[Len(s) + k] = t[k]
    BY ConcatProperties
  <1> DEFINE st == s \o t
             fs == RowOf(F, s)
             ft == RowOf(F, t)
             f == RowOf(F, st)
  <1>2. /\ fs \in Seq(Bytestring) /\ Len(fs) = Len(s) /\ \A k \in 1..Len(s) : fs[k] = F[s[k]]
        /\ ft \in Seq(Bytestring) /\ Len(ft) = Len(t) /\ \A k \in 1..Len(t) : ft[k] = F[t[k]]
        /\ Len(s) \in Nat /\ Len(t) \in Nat
    BY RowFacts
  <1>3. f \in Seq(Bytestring) /\ Len(f) = Len(s) + Len(t)
        /\ \A k \in 1..Len(s) + Len(t) : f[k] = F[st[k]]
    <2>1. st \in Seq(S) /\ Len(st) = Len(s) + Len(t)
      BY <1>1
    <2> HIDE DEF st
    <2> QED
      BY <2>1, RowFacts
  <1> HIDE DEF st, fs, ft, f
  <1>4. /\ fs \o ft \in Seq(Bytestring) /\ Len(fs \o ft) = Len(s) + Len(t)
        /\ \A k \in 1..Len(s) : (fs \o ft)[k] = fs[k]
        /\ \A k \in 1..Len(t) : (fs \o ft)[Len(s) + k] = ft[k]
    <2>1. fs \in Seq(Bytestring) /\ ft \in Seq(Bytestring) /\ Len(fs) = Len(s) /\ Len(ft) = Len(t)
      BY <1>2
    <2>2. /\ fs \o ft \in Seq(Bytestring) /\ Len(fs \o ft) = Len(fs) + Len(ft)
          /\ \A k \in 1..Len(fs) : (fs \o ft)[k] = fs[k]
          /\ \A k \in 1..Len(ft) : (fs \o ft)[Len(fs) + k] = ft[k]
      BY <2>1, RowConcat
    <2> QED
      BY <2>1, <2>2
  <1>5. ASSUME NEW k \in 1..Len(s) + Len(t) PROVE f[k] = (fs \o ft)[k]
    <2>1. CASE k \in 1..Len(s)
      BY <1>1, <1>2, <1>3, <1>4, <2>1 DEF st
    <2>2. CASE k \notin 1..Len(s)
      <3>1. k - Len(s) \in 1..Len(t) /\ Len(s) + (k - Len(s)) = k
        BY <1>2, <2>2
      <3>2. (fs \o ft)[Len(s) + (k - Len(s))] = F[t[k - Len(s)]]
        BY <1>2, <1>4, <3>1
      <3>3. st[Len(s) + (k - Len(s))] = t[k - Len(s)]
        BY <1>1, <3>1 DEF st
      <3> QED
        BY <1>3, <3>1, <3>2, <3>3
    <2> QED
      BY <2>1, <2>2
  <1>6. f = fs \o ft
    BY <1>3, <1>4, <1>5, SeqEqual
  <1>7. FlattenSeq(fs \o ft) = FlattenSeq(fs) \o FlattenSeq(ft)
    BY <1>2, FlatConcat
  <1> QED
    BY <1>1, <1>6, <1>7 DEF st, fs, ft, f

LEMMA RowOfOne ==
    ASSUME NEW S, NEW F \in [S -> Bytestring], NEW x \in S
    PROVE  << x >> \in Seq(S) /\ FlattenSeq(RowOf(F, << x >>)) = F[x]
  <1> DEFINE one == << x >>
  <1>1. one \in Seq(S) /\ Len(one) = 1 /\ one[1] = x
    OBVIOUS
  <1> HIDE DEF one
  <1>2. /\ RowOf(F, one) \in Seq(Bytestring) /\ Len(RowOf(F, one)) = 1 /\ 1 \in 1..Len(one)
        /\ \A k \in 1..Len(one) : RowOf(F, one)[k] = F[one[k]]
    BY <1>1, RowFacts
  <1>3. RowOf(F, one) = << F[x] >>
    BY <1>1, <1>2
  <1>4. F[x] \in Bytestring
    OBVIOUS
  <1> QED
    BY <1>1, <1>3, <1>4, FlatOne DEF one

LEMMA RowOfNil ==
    ASSUME NEW S, NEW F \in [S -> Bytestring]
    PROVE  Nil \in Seq(S) /\ Len(Nil) = 0 /\ FlattenSeq(RowOf(F, Nil)) = Nil
  <1>1. Nil \in Seq(S) /\ Len(Nil) = 0
    BY DEF Nil
  <1>2. RowOf(F, Nil) \in Seq(Bytestring) /\ Len(RowOf(F, Nil)) = 0
    BY <1>1, RowFacts
  <1>3. RowOf(F, Nil) = Nil
    BY <1>2 DEF Nil
  <1> QED
    BY <1>1, <1>3, FlatNil

LEMMA FrameFacts ==
    ASSUME NEW m \in Bytestring
    PROVE  /\ Frame(m) \in Bytestring
           /\ htonl(Len(m)) \in Bytestring
           /\ Len(Frame(m)) = XSK_HEAD_LEN + Len(m)
  <1>1. Len(m) \in Nat
    BY DEF Bytestring
  <1>2. htonl(Len(m)) \in Bytestring /\ Len(htonl(Len(m))) = XSK_HEAD_LEN
    BY <1>1, HeadFacts
  <1> QED
    BY <1>2, ConcatProperties DEF Frame, Bytestring

FrameOf == [m \in Bytestring |-> Frame(m)]

LEMMA FramesAre ==
    ASSUME NEW m \in Seq(Bytestring)
    PROVE  Bytes(m) = FlattenSeq(RowOf(FrameOf, m)) /\ FrameOf \in [Bytestring -> Bytestring]
  <1>1. FrameOf \in [Bytestring -> Bytestring]
    BY FrameFacts DEF FrameOf
  <1>2. Frames(m) = RowOf(FrameOf, m)
    BY DEF Frames, RowOf, FrameOf
  <1> QED
    BY <1>1, <1>2 DEF Bytes

LEMMA BytesConcat ==
    ASSUME NEW s \in Seq(Bytestring), NEW t \in Seq(Bytestring)
    PROVE  s \o t \in Seq(Bytestring) /\ Bytes(s \o t) = Bytes(s) \o Bytes(t)
  <1>1. FrameOf \in [Bytestring -> Bytestring]
    BY FramesAre
  <1> DEFINE st == s \o t
  <1>2. /\ st \in Seq(Bytestring)
        /\ FlattenSeq(RowOf(FrameOf, st))
             = FlattenSeq(RowOf(FrameOf, s)) \o FlattenSeq(RowOf(FrameOf, t))
    BY <1>1, RowOfConcat
  <1> HIDE DEF st
  <1>3. Bytes(st) = Bytes(s) \o Bytes(t)
    BY <1>2, FramesAre
  <1> QED
    BY <1>2, <1>3 DEF st

LEMMA BytesAreBytes ==
    ASSUME NEW s \in Seq(Bytestring)
    PROVE  Bytes(s) \in Bytestring
  BY FramesAre, RowFacts

\* One message more.
LEMMA BytesAppend ==
    ASSUME NEW s \in Seq(Bytestring), NEW m \in Bytestring
    PROVE  Bytes(s) \in Bytestring /\ Bytes(Append(s, m)) = Bytes(s) \o Frame(m)
  <1>1. << m >> \in Seq(Bytestring) /\ Bytes(<< m >>) = Frame(m)
    BY FramesAre, RowOfOne DEF FrameOf
  <1>2. Append(s, m) = s \o << m >>
    BY AppendIsConcat
  <1>3. Bytes(s \o << m >>) = Bytes(s) \o Bytes(<< m >>)
    BY <1>1, BytesConcat
  <1> QED
    BY <1>1, <1>2, <1>3, BytesAreBytes

LEMMA BytesNil == Nil \in Seq(Bytestring) /\ Bytes(Nil) = Nil /\ Len(Nil) = 0
  <1>1. Nil \in Seq(Bytestring) /\ Len(Nil) = 0
    BY DEF Nil
  <1>2. Bytes(Nil) = FlattenSeq(RowOf(FrameOf, Nil)) /\ FrameOf \in [Bytestring -> Bytestring]
    BY <1>1, FramesAre
  <1> QED
    BY <1>1, <1>2, RowOfNil

-----------------------------------------------------------------------------
(* A stream of bytes that is cut.                                          *)

Gone(y, n) == SubSeq(y, 1, n)
Remaining(y, n) == SubSeq(y, n + 1, Len(y))

LEMMA LengthIs ==
    ASSUME NEW y \in Bytestring
    PROVE  Len(y) \in Nat /\ (Len(y) = 0 <=> y = Nil)
  BY DEF Bytestring, Nil

LEMMA SeqCut ==
    ASSUME NEW S, NEW y \in Seq(S), NEW n \in 0..Len(y)
    PROVE  /\ Gone(y, n) \in Seq(S) /\ Len(Gone(y, n)) = n
           /\ \A i \in 1..n : Gone(y, n)[i] = y[i]
           /\ Remaining(y, n) \in Seq(S) /\ Len(Remaining(y, n)) = Len(y) - n
           /\ \A i \in 1..Len(y) - n : Remaining(y, n)[i] = y[n + i]
           /\ y = Gone(y, n) \o Remaining(y, n)
           /\ n = Len(y) => Gone(y, n) = y
  <1>1. Len(y) \in Nat /\ n \in Nat /\ n <= Len(y)
    OBVIOUS
  <1>2. /\ Gone(y, n) \in Seq(S) /\ Len(Gone(y, n)) = n
        /\ \A i \in 1..n : Gone(y, n)[i] = y[i]
    <2>1. \A i \in 1..n : y[i] \in S
      BY <1>1
    <2> QED
      BY <1>1, <2>1, SubSeqProperties DEF Gone
  <1>3. /\ Remaining(y, n) \in Seq(S) /\ Len(Remaining(y, n)) = Len(y) - n
        /\ \A i \in 1..Len(y) - n : Remaining(y, n)[i] = y[n + i]
    <2>1. \A i \in n+1..Len(y) : y[i] \in S
      BY <1>1
    <2>2. /\ Remaining(y, n) \in Seq(S)
          /\ Len(Remaining(y, n)) = IF n + 1 <= Len(y) THEN Len(y) - (n + 1) + 1 ELSE 0
          /\ \A i \in 1..Len(y) - (n + 1) + 1 : Remaining(y, n)[i] = y[(n + 1) + i - 1]
      BY <1>1, <2>1, SubSeqProperties DEF Remaining
    <2> QED
      BY <1>1, <2>2
  <1>4. y = Gone(y, n) \o Remaining(y, n)
    <2>1. 1 \in 1..Len(y)+1 /\ n \in 1-1..Len(y) /\ Len(y) \in n..Len(y)
      BY <1>1
    <2>2. SubSeq(y, 1, n) \o SubSeq(y, n + 1, Len(y)) = SubSeq(y, 1, Len(y))
      BY <1>1, <2>1, ConcatAdjacentSubSeq
    <2>3. SubSeq(y, 1, Len(y)) = y
      BY <1>1, SubSeqFull
    <2> QED
      BY <2>2, <2>3 DEF Gone, Remaining
  <1>5. n = Len(y) => Gone(y, n) = y
    BY <1>1, <1>2, SeqEqual
  <1> QED
    BY <1>2, <1>3, <1>4, <1>5

LEMMA CutFacts ==
    ASSUME NEW y \in Bytestring, NEW n \in 0..Len(y)
    PROVE  /\ Gone(y, n) \in Bytestring /\ Len(Gone(y, n)) = n
           /\ Remaining(y, n) \in Bytestring /\ Len(Remaining(y, n)) = Len(y) - n
           /\ y = Gone(y, n) \o Remaining(y, n)
           /\ n = Len(y) => Gone(y, n) = y
  <1>1. y \in Seq(Byte)
    BY DEF Bytestring
  <1> QED
    BY <1>1, SeqCut DEF Bytestring

\* Bytes that go from the front of one buffer to the end of the one before it leave the
\* stream as it is.
Moves(x, y, z, n) == x \o (y \o z) = (x \o Gone(y, n)) \o (Remaining(y, n) \o z)

LEMMA BytesMove ==
    ASSUME NEW x \in Bytestring, NEW y \in Bytestring, NEW z \in Bytestring, NEW n \in 0..Len(y)
    PROVE  Moves(x, y, z, n)
  <1> DEFINE f == Gone(y, n)
             b == Remaining(y, n)
  <1>1. f \in Bytestring /\ b \in Bytestring /\ y = f \o b
    BY CutFacts
  <1> HIDE DEF f, b
  <1>2. b \in Bytestring /\ f \in Bytestring
    BY <1>1
  <1>3. b \o z \in Bytestring
    BY <1>2, Joined
  <1>4. Regroups(f, b, z)
    BY <1>2, Regrouped
  <1>5. Regroups(x, f, b \o z)
    BY <1>2, <1>3, Regrouped
  <1> QED
    BY <1>1, <1>4, <1>5 DEF f, b, Regroups, Moves

\* Two streams that are equal are equal part by part.
LEMMA SameParts ==
    ASSUME NEW a \in Bytestring, NEW b \in Bytestring, NEW c \in Bytestring, NEW d \in Bytestring,
           Len(a) = Len(c), a \o b = c \o d
    PROVE  a = c /\ b = d
  <1>1. \A i \in 1..Len(a) : a[i] = (a \o b)[i]
    BY LengthIs, ConcatProperties DEF Bytestring
  <1>2. \A i \in 1..Len(c) : c[i] = (c \o d)[i]
    BY LengthIs, ConcatProperties DEF Bytestring
  <1>3. a = c
    BY <1>1, <1>2, SeqEqual DEF Bytestring
  <1>4. b = d
    BY <1>3, ConcatSimplifications DEF Bytestring
  <1> QED
    BY <1>3, <1>4

\* The messages received are the first of those sent.
AreFirst(g, a) == Len(g) <= Len(a) /\ \A k \in 1..Len(g) : g[k] = a[k]

\* The bytes of all messages are those of the first, the next one's, and others.
LEMMA BytesGoOn ==
    ASSUME NEW s \in Seq(Bytestring), NEW g \in Seq(Bytestring), AreFirst(g, s), Len(g) < Len(s)
    PROVE  \E r \in Bytestring : Bytes(s) = Bytes(g) \o (Frame(s[Len(g)+1]) \o r)
  <1> DEFINE n == Len(g)
             m == s[n+1]
             q == Remaining(s, n + 1)
             first == Append(g, m)
  <1>1. /\ n \in Nat /\ Len(s) \in Nat /\ n + 1 \in 0..Len(s) /\ n + 1 \in 1..Len(s)
        /\ m \in Bytestring /\ \A k \in 1..n : g[k] = s[k]
    BY DEF AreFirst
  <1>2. /\ Gone(s, n + 1) \in Seq(Bytestring) /\ Len(Gone(s, n + 1)) = n + 1
        /\ \A k \in 1..n+1 : Gone(s, n + 1)[k] = s[k]
        /\ q \in Seq(Bytestring)
        /\ s = Gone(s, n + 1) \o q
    BY <1>1, SeqCut
  <1>3. /\ first \in Seq(Bytestring) /\ Len(first) = n + 1
        /\ \A k \in 1..n+1 : first[k] = s[k]
    <2>1. /\ first \in Seq(Bytestring) /\ Len(first) = n + 1 /\ first[n+1] = m
          /\ \A k \in 1..n : first[k] = g[k]
      BY <1>1
    <2>2. \A k \in 1..n+1 : k \in 1..n \/ k = n + 1
      BY <1>1
    <2> QED
      BY <1>1, <2>1, <2>2
  <1>4. Gone(s, n + 1) = first
    <2> HIDE DEF first
    <2> QED
      BY <1>2, <1>3, SeqEqual
  <1>5. Bytes(s) = Bytes(first) \o Bytes(q)
    <2> HIDE DEF first, q
    <2> QED
      BY ZenonT(40), <1>2, <1>3, <1>4, BytesConcat
  <1>6. Bytes(first) = Bytes(g) \o Frame(m) /\ Frame(m) \in Bytestring /\ Bytes(g) \in Bytestring
    BY <1>1, BytesAppend, FrameFacts
  <1>7. Bytes(q) \in Bytestring
    BY <1>2, BytesAreBytes
  <1>8. Regroups(Bytes(g), Frame(m), Bytes(q))
    BY <1>6, <1>7, Regrouped
  <1> QED
    BY <1>5, <1>6, <1>7, <1>8 DEF Regroups

\* Whatever follows the messages received in the bytes of all begins with the next one.
LEMMA NextMessage ==
    ASSUME NEW s \in Seq(Bytestring), NEW g \in Seq(Bytestring), AreFirst(g, s),
           NEW h \in Bytestring, NEW z \in Bytestring,
           Bytes(s) = Bytes(g) \o (h \o z), Len(h) = XSK_HEAD_LEN
    PROVE  /\ Len(g) < Len(s)
           /\ h = htonl(Len(s[Len(g)+1]))
           /\ \A m, w \in Bytestring : z = m \o w /\ Len(m) = Len(s[Len(g)+1]) => m = s[Len(g)+1]
  <1> DEFINE n == Len(g)
  <1>1. Bytes(g) \in Bytestring /\ h \o z \in Bytestring /\ Len(s) \in Nat /\ n \in Nat
    <2>1. Bytes(g) \in Bytestring
      BY BytesAreBytes
    <2>2. h \o z \in Bytestring
      BY Joined
    <2> QED
      BY <2>1, <2>2
  <1>2. Len(h \o z) > 0
    BY Joined, HeadLength, LengthIs
  <1>3. n < Len(s)
    <2>1. CASE n = Len(s)
      <3>1. g = s
        BY <2>1, SeqEqual DEF AreFirst
      <3>2. Bytes(g) = Bytes(g) \o (h \o z)
        BY <3>1
      <3>3. h \o z = << >>
        BY <1>1, <3>2, ConcatSimplifications DEF Bytestring
      <3> QED
        BY <1>2, <3>3
    <2> QED
      BY <1>1, <2>1 DEF AreFirst
  <1>4. s[n+1] \in Bytestring
    BY <1>1, <1>3
  <1>5. PICK r \in Bytestring : Bytes(s) = Bytes(g) \o (Frame(s[n+1]) \o r)
    BY <1>3, BytesGoOn
  <1> DEFINE H == htonl(Len(s[n+1]))
             M == s[n+1]
  <1>6. H \in Bytestring /\ Len(H) = XSK_HEAD_LEN /\ Frame(M) = H \o M /\ Frame(M) \in Bytestring
    BY <1>4, FrameFacts, HeadFacts, LengthIs DEF Frame
  <1>7. h \o z = Frame(M) \o r
    <2>1. Frame(M) \o r \in Bytestring
      BY <1>6, Joined
    <2> HIDE DEF H, M
    <2>2. Bytes(g) \o (h \o z) = Bytes(g) \o (Frame(M) \o r)
      BY <1>5 DEF M
    <2> QED
      BY <1>1, <2>1, <2>2, ConcatSimplifications DEF Bytestring
  <1>8. h \o z = H \o (M \o r) /\ M \o r \in Bytestring
    <2> HIDE DEF H, M
    <2>1. M \in Bytestring
      BY <1>4 DEF M
    <2>2. Regroups(H, M, r)
      BY <1>6, <2>1, Regrouped
    <2>3. M \o r \in Bytestring
      BY <2>1, Joined
    <2> QED
      BY <1>6, <1>7, <2>2, <2>3 DEF Regroups
  <1>9. h = H /\ z = M \o r
    <2> HIDE DEF H, M
    <2> QED
      BY <1>6, <1>8, SameParts
  <1>10. ASSUME NEW m \in Bytestring, NEW w \in Bytestring, z = m \o w, Len(m) = Len(M)
         PROVE  m = M
    <2>1. M \in Bytestring /\ m \o w = M \o r
      BY <1>4, <1>9, <1>10
    <2> HIDE DEF M
    <2> QED
      BY <1>10, <2>1, SameParts
  <1> QED
    BY <1>3, <1>9, <1>10

-----------------------------------------------------------------------------
(* The inductive invariant.                                                *)

TxType == [at : {"idle", "head", "body", "failed"}, left : Bytestring, body : Bytestring,
           timeout : 0..1, wild : BOOLEAN]
RxType == [at : {"head", "body", "failed", "overrun"}, buf : Bytestring, need : Nat,
           wild : BOOLEAN]

\* What the sender still has to give of its message, and what the receiver has of one.
ToSend(t) == IF t.at = "head" THEN t.left \o t.body ELSE IF t.at = "body" THEN t.left ELSE Nil
Part(r) == IF r.at = "body" THEN htonl(r.need) \o r.buf ELSE r.buf

\* A receiver that reads waits for a byte at least, and for a message that it believes.
Waits(r) ==
    /\ r.at = "head" => r.need = XSK_HEAD_LEN /\ Len(r.buf) < r.need
    /\ r.at = "body" => r.need \in 0..MaxSize - 1 /\ Len(r.buf) < r.need

\* No message is longer than the receiver believes.
Believed(a) == \A k \in 1..Len(a) : Len(a[k]) \in 0..MaxSize - 1

\* The bytes of all messages: those of the received ones, what the receiver has of the
\* next, what is on its way, and the rest.
Stream(a, g, p, d, u, rest) == Bytes(a) = Bytes(g) \o (p \o (d \o (u \o rest)))
Flows(a, g, r, d, u, t) ==
    \E rest \in Bytestring :
       /\ Stream(a, g, Part(r), d, u, rest)
       /\ t.at # "failed" => rest = ToSend(t)

SockInv ==
    /\ up \in Bytestring /\ down \in Bytestring /\ spoilt \in BOOLEAN
    /\ tx \in TxType /\ rx \in RxType /\ Waits(rx)
    /\ asked \in Seq(Bytestring) /\ Believed(asked)
    /\ got \in Seq(Bytestring)
    /\ ~ spoilt => AreFirst(got, asked)
    /\ ~ spoilt /\ rx.at \in {"head", "body"} => Flows(asked, got, rx, down, up, tx)

LEMMA PartFacts ==
    ASSUME NEW r \in RxType
    PROVE  Part(r) \in Bytestring /\ r.buf \in Bytestring
  <1>1. r.buf \in Bytestring /\ r.need \in Nat
    BY DEF RxType
  <1>2. htonl(r.need) \in Bytestring
    BY <1>1, HeadFacts
  <1> QED
    BY <1>1, <1>2, Joined DEF Part

LEMMA ToSendFacts ==
    ASSUME NEW t \in TxType
    PROVE  ToSend(t) \in Bytestring /\ t.left \in Bytestring /\ t.body \in Bytestring
  <1>1. t.left \in Bytestring /\ t.body \in Bytestring
    BY DEF TxType
  <1> QED
    BY <1>1, Joined, NilIs DEF ToSend

\* The stream before anything is sent.
LEMMA FreshInv ==
    ASSUME NEW t, t = TxIdle, NEW r, r = RxHead
    PROVE  /\ t \in TxType /\ r \in RxType /\ Waits(r)
           /\ AreFirst(Nil, Nil) /\ Flows(Nil, Nil, r, Nil, Nil, t)
  <1>1. t \in TxType /\ t.at = "idle"
    BY NilIs DEF TxIdle, TxType
  <1>2. r \in RxType /\ r.at = "head" /\ r.buf = Nil /\ r.need = XSK_HEAD_LEN
    BY NilIs, HeadLength DEF RxHead, RxType
  <1>3. Waits(r)
    BY <1>2, NilIs, HeadLength DEF Waits
  <1>4. AreFirst(Nil, Nil)
    BY BytesNil DEF AreFirst
  <1>5. ToSend(t) = Nil /\ Part(r) = Nil
    BY <1>1, <1>2 DEF ToSend, Part
  <1>6. Stream(Nil, Nil, Nil, Nil, Nil, Nil)
    BY BytesNil, NilIs DEF Stream
  <1>7. Flows(Nil, Nil, r, Nil, Nil, t)
    BY <1>5, <1>6, NilIs DEF Flows
  <1> QED
    BY <1>1, <1>2, <1>3, <1>4, <1>7

LEMMA InitSockInv == SockInit => SockInv
  <1> SUFFICES ASSUME SockInit PROVE SockInv
    OBVIOUS
  <1>1. /\ tx \in TxType /\ rx \in RxType /\ Waits(rx)
        /\ AreFirst(Nil, Nil) /\ Flows(Nil, Nil, rx, Nil, Nil, tx)
    BY FreshInv DEF SockInit
  <1>2. /\ up = Nil /\ down = Nil /\ asked = Nil /\ got = Nil /\ spoilt = FALSE
    BY DEF SockInit
  <1>3. Believed(asked)
    BY <1>2, BytesNil DEF Believed
  <1>4. AreFirst(got, asked) /\ Flows(asked, got, rx, down, up, tx)
    BY <1>1, <1>2
  <1>5. up \in Bytestring /\ down \in Bytestring /\ asked \in Seq(Bytestring) /\ got \in Seq(Bytestring)
    BY <1>2, BytesNil, NilIs
  <1> QED
    BY <1>1, <1>2, <1>3, <1>4, <1>5 DEF SockInv

-----------------------------------------------------------------------------
(* One step for each call.                                                 *)

\* The steps that move no byte: at most an end fails, or is interrupted.
LEMMA QuietStep ==
    ASSUME SockInv, UNCHANGED << up, down, asked, got, spoilt >>,
           tx' \in TxType, rx' \in RxType,
           \/ tx'.at = "failed"
           \/ tx'.at = tx.at /\ tx'.left = tx.left /\ tx'.body = tx.body,
           \/ rx'.at = "failed"
           \/ rx'.at = rx.at /\ rx'.buf = rx.buf /\ rx'.need = rx.need
    PROVE  SockInv'
  <1>1. Waits(rx')
    BY DEF Waits, SockInv
  <1>2. ASSUME ~ spoilt, rx'.at \in {"head", "body"}
        PROVE  Flows(asked, got, rx', down, up, tx')
    <2>1. Part(rx') = Part(rx) /\ rx.at \in {"head", "body"}
      BY <1>2 DEF Part
    <2>2. PICK rest \in Bytestring : /\ Stream(asked, got, Part(rx), down, up, rest)
                                     /\ tx.at # "failed" => rest = ToSend(tx)
      BY <1>2, <2>1 DEF SockInv, Flows
    <2>3. tx'.at # "failed" => ToSend(tx') = ToSend(tx) /\ tx.at # "failed"
      BY DEF ToSend
    <2> QED
      BY <2>1, <2>2, <2>3 DEF Flows
  <1> QED
    BY <1>1, <1>2 DEF SockInv

LEMMA FreshStep ==
    ASSUME SockInv, Fresh
    PROVE  SockInv'
  <1>1. /\ tx' \in TxType /\ rx' \in RxType /\ Waits(rx')
        /\ AreFirst(Nil, Nil) /\ Flows(Nil, Nil, rx', Nil, Nil, tx')
    BY FreshInv DEF Fresh
  <1>2. /\ up' = Nil /\ down' = Nil /\ asked' = Nil /\ got' = Nil /\ spoilt' = FALSE
    BY DEF Fresh
  <1>3. Believed(asked')
    BY <1>2, BytesNil DEF Believed
  <1>4. AreFirst(got', asked') /\ Flows(asked', got', rx', down', up', tx')
    BY <1>1, <1>2
  <1>5. /\ up' \in Bytestring /\ down' \in Bytestring
        /\ asked' \in Seq(Bytestring) /\ got' \in Seq(Bytestring)
    BY <1>2, BytesNil, NilIs
  <1> QED
    BY <1>1, <1>2, <1>3, <1>4, <1>5 DEF SockInv

LEMMA ConnectingStep ==
    ASSUME SockInv, UNCHANGED streams
    PROVE  SockInv'
  BY QuietStep DEF streams, SockInv

LEMMA FailingStep ==
    ASSUME SockInv,
           SendInterrupted \/ SendFails \/ SendTimesOut \/ ReceiveInterrupted \/ ReceiveFails
    PROVE  SockInv'
  <1>1. tx \in TxType /\ rx \in RxType
    BY DEF SockInv
  <1>2. CASE SendInterrupted
    <2>1. tx' \in TxType /\ tx'.at = tx.at /\ tx'.left = tx.left /\ tx'.body = tx.body
      BY <1>1, <1>2 DEF SendInterrupted, TxType
    <2> QED
      BY <1>1, <1>2, <2>1, QuietStep DEF SendInterrupted
  <1>3. CASE SendFails \/ SendTimesOut
    <2>1. tx' \in TxType /\ tx'.at = "failed"
      BY <1>1, <1>3 DEF SendFails, SendTimesOut, TxType
    <2> QED
      BY <1>1, <1>3, <2>1, QuietStep DEF SendFails, SendTimesOut
  <1>4. CASE ReceiveInterrupted
    <2>1. rx' \in RxType /\ rx'.at = rx.at /\ rx'.buf = rx.buf /\ rx'.need = rx.need
      BY <1>1, <1>4 DEF ReceiveInterrupted, RxType
    <2> QED
      BY <1>1, <1>4, <2>1, QuietStep DEF ReceiveInterrupted
  <1>5. CASE ReceiveFails
    <2>1. rx' \in RxType /\ rx'.at = "failed"
      BY <1>1, <1>5 DEF ReceiveFails, RxType
    <2> QED
      BY <1>1, <1>5, <2>1, QuietStep DEF ReceiveFails
  <1> QED
    BY <1>2, <1>3, <1>4, <1>5

\* A message that is begun is the rest, of which nothing has gone.
LEMMA SendStep ==
    ASSUME SockInv, NEW message \in Message, NEW timeout \in 0..1, xsk_send(message, timeout)
    PROVE  SockInv'
  <1>1. message \in Bytestring /\ Len(message) \in 0..MaxSize - 1
    BY SocketAssumption, LengthIs DEF xsk_send, Bytestring
  <1>2. /\ asked \in Seq(Bytestring) /\ got \in Seq(Bytestring)
        /\ up \in Bytestring /\ down \in Bytestring /\ rx \in RxType
        /\ Believed(asked)
    BY DEF SockInv
  <1>3. /\ asked' = Append(asked, message)
        /\ UNCHANGED << link, up, down, rx, got, spoilt >>
        /\ tx' = [at |-> "head", left |-> htonl(Len(message)), body |-> message,
                  timeout |-> timeout, wild |-> FALSE]
        /\ tx.at = "idle"
    BY DEF xsk_send
  <1>4. tx' \in TxType /\ ToSend(tx') = Frame(message) /\ Frame(message) \in Bytestring
    <2>1. htonl(Len(message)) \in Bytestring /\ Frame(message) \in Bytestring
      BY <1>1, FrameFacts
    <2>2. tx' \in TxType
      BY <1>1, <1>3, <2>1 DEF TxType
    <2>3. ToSend(tx') = Frame(message)
      BY <1>3 DEF ToSend, Frame
    <2> QED
      BY <2>1, <2>2, <2>3
  <1>5. /\ asked' \in Seq(Bytestring) /\ Len(asked') = Len(asked) + 1
        /\ \A k \in 1..Len(asked) : asked'[k] = asked[k]
        /\ asked'[Len(asked) + 1] = message /\ Len(asked) \in Nat
    BY <1>1, <1>2, <1>3
  <1>6. Believed(asked')
    <2>1. \A k \in 1..Len(asked') : k \in 1..Len(asked) \/ k = Len(asked) + 1
      BY <1>5
    <2> QED
      BY <1>1, <1>2, <1>5, <2>1 DEF Believed
  <1>7. ~ spoilt => AreFirst(got, asked')
    <2>1. ~ spoilt => AreFirst(got, asked)
      BY DEF SockInv
    <2>2. Len(got) \in Nat
      BY <1>2
    <2> QED
      BY <1>5, <2>1, <2>2 DEF AreFirst
  <1>8. ASSUME ~ spoilt, rx.at \in {"head", "body"}
        PROVE  Flows(asked', got, rx, down, up, tx')
    <2> DEFINE p == Part(rx)
               g == Bytes(got)
               b == Bytes(asked)
               f == Frame(message)
    <2>1. Stream(asked, got, Part(rx), down, up, Nil)
      <3>1. PICK rest \in Bytestring : /\ Stream(asked, got, Part(rx), down, up, rest)
                                       /\ tx.at # "failed" => rest = ToSend(tx)
        BY <1>8 DEF SockInv, Flows
      <3>2. rest = Nil
        BY <1>3, <3>1 DEF ToSend
      <3> QED
        BY <3>1, <3>2
    <2>2. p \in Bytestring /\ g \in Bytestring /\ b \in Bytestring
          /\ f \in Bytestring
          /\ Bytes(asked') = b \o f
      <3>1. Bytes(asked) \in Bytestring /\ Bytes(got) \in Bytestring
            /\ Bytes(asked') = Bytes(asked) \o Frame(message)
        BY <1>1, <1>2, <1>3, BytesAppend
      <3> QED
        BY <1>2, <1>4, <3>1, PartFacts
    <2> HIDE DEF p, g, b, f
    <2>3. b = g \o (p \o (down \o up))
      <3>1. b = g \o (p \o (down \o (up \o Nil)))
        BY <2>1 DEF Stream, p, g, b
      <3>2. up \o Nil = up
        BY <1>2, NilIs
      <3> QED
        BY <3>1, <3>2
    <2>4. down \o up \in Bytestring /\ p \o (down \o up) \in Bytestring
      BY <1>2, <2>2, Joined
    <2>5. b \o f = g \o (p \o (down \o (up \o f)))
      <3>1. Regroups(g, p \o (down \o up), f)
        BY <2>2, <2>4, Regrouped
      <3>2. Regroups(p, down \o up, f)
        BY <2>2, <2>4, Regrouped
      <3>3. Regroups(down, up, f)
        BY <1>2, <2>2, Regrouped
      <3> QED
        BY <2>3, <3>1, <3>2, <3>3 DEF Regroups
    <2>6. Stream(asked', got, Part(rx), down, up, f)
      BY <2>2, <2>5 DEF Stream, p, g
    <2> QED
      BY <1>4, <2>2, <2>6 DEF Flows, f
  <1> QED
    BY <1>2, <1>3, <1>4, <1>5, <1>6, <1>7, <1>8 DEF SockInv

\* The kernel takes n bytes of the sender's.  Beyond the sender's own, the stream is spoilt.
LEMMA SentFacts ==
    ASSUME NEW left \in Bytestring, NEW n \in 1..Len(left) + Len(Junk)
    PROVE  /\ SubSeq(left \o Junk, 1, n) \in Bytestring
           /\ n <= Len(left) => SubSeq(left \o Junk, 1, n) = Gone(left, n)
  <1>1. Junk \in Bytestring /\ left \o Junk \in Bytestring
        /\ Len(left \o Junk) = Len(left) + Len(Junk) /\ Len(left) \in Nat /\ Len(Junk) \in Nat
    BY SocketAssumption, Joined, LengthIs DEF Bytestring
  <1>2. SubSeq(left \o Junk, 1, n) \in Bytestring
    <2>1. n \in 0..Len(left \o Junk)
      BY <1>1
    <2> QED
      BY <1>1, <2>1, CutFacts DEF Gone
  <1>3. ASSUME n <= Len(left) PROVE SubSeq(left \o Junk, 1, n) = Gone(left, n)
    <2>1. 1 \in 1..Len(left) /\ n \in 1..Len(left)
      BY <1>1, <1>3
    <2> QED
      BY <1>1, <2>1, SubSeqOfConcat1 DEF Gone, Bytestring
  <1> QED
    BY <1>2, <1>3

\* What the sender still has to send, after n bytes of what it is at.
LEMMA TxAfterFacts ==
    ASSUME NEW t \in TxType, t = tx, t.at \in {"head", "body"}, NEW n \in 1..Len(t.left)
    PROVE  /\ TxAfter(n) \in TxType
           /\ \E z \in Bytestring : /\ ToSend(t) = t.left \o z
                                    /\ TxAfter(n).at # "failed"
                                    /\ ToSend(TxAfter(n)) = Remaining(t.left, n) \o z
  <1> DEFINE r == Remaining(t.left, n)
  <1>1. /\ t.left \in Bytestring /\ t.body \in Bytestring /\ n \in 0..Len(t.left)
        /\ t.left \o Nil = t.left
    BY ToSendFacts, NilIs, LengthIs
  <1>2. r \in Bytestring /\ r \o Nil = r /\ Nil \o t.body = t.body
    BY <1>1, CutFacts, NilIs
  <1>3. r = SubSeq(tx.left, n + 1, Len(tx.left))
    BY DEF Remaining
  <1> HIDE DEF r
  <1>4. CASE r # Nil
    <2>1. TxAfter(n) = [t EXCEPT !.left = r, !.wild = FALSE]
      BY <1>3, <1>4 DEF TxAfter
    <2>2. TxAfter(n) \in TxType /\ TxAfter(n).at = t.at
          /\ TxAfter(n).left = r /\ TxAfter(n).body = t.body
      BY <1>2, <2>1 DEF TxType
    <2>3. CASE t.at = "head"
      BY <1>1, <2>2, <2>3 DEF ToSend, r
    <2>4. CASE t.at = "body"
      BY <1>1, <1>2, <2>2, <2>4, NilIs DEF ToSend, r
    <2> QED
      BY <2>2, <2>3, <2>4
  <1>5. CASE r = Nil /\ t.at = "head"
    <2>1. TxAfter(n) = [t EXCEPT !.at = "body", !.left = t.body, !.wild = FALSE]
      BY <1>3, <1>5 DEF TxAfter
    <2>2. TxAfter(n) \in TxType /\ TxAfter(n).at = "body" /\ TxAfter(n).left = t.body
      BY <1>1, <2>1 DEF TxType
    <2>3. ToSend(t) = t.left \o t.body /\ ToSend(TxAfter(n)) = t.body
      BY <1>5, <2>2 DEF ToSend
    <2>4. Remaining(t.left, n) \o t.body = t.body
      BY <1>2, <1>5 DEF r
    <2> QED
      BY <1>1, <2>2, <2>3, <2>4
  <1>6. CASE r = Nil /\ t.at = "body"
    <2>1. TxAfter(n) = TxIdle
      BY <1>3, <1>6 DEF TxAfter
    <2>2. TxAfter(n) \in TxType /\ TxAfter(n).at = "idle"
      BY <2>1, FreshInv DEF TxIdle
    <2>3. ToSend(t) = t.left \o Nil /\ ToSend(TxAfter(n)) = Nil
      BY <1>1, <1>6, <2>2 DEF ToSend
    <2>4. Remaining(t.left, n) \o Nil = Nil
      BY <1>2, <1>6 DEF r
    <2> QED
      BY <2>2, <2>3, <2>4, NilIs
  <1> QED
    BY <1>4, <1>5, <1>6

LEMMA SndStep ==
    ASSUME SockInv, NEW n \in 1..Room, xsk_snd(n)
    PROVE  SockInv'
  <1> DEFINE left == tx.left
             sent == SubSeq(left \o Junk, 1, n)
  <1>1. /\ tx \in TxType /\ rx \in RxType /\ left \in Bytestring /\ up \in Bytestring /\ down \in Bytestring
        /\ asked \in Seq(Bytestring) /\ got \in Seq(Bytestring)
    BY ToSendFacts DEF SockInv
  <1>2. Len(left) \in Nat /\ Len(Junk) \in Nat /\ n \in Nat
    BY <1>1, LengthIs, SocketAssumption
  <1>3. n \in 1..Len(left) + Len(Junk)
    BY <1>2, SocketAssumption DEF xsk_snd, Smaller
  <1>4. sent \in Bytestring /\ (n <= Len(left) => sent = Gone(left, n))
    BY <1>1, <1>3, SentFacts
  <1>5. /\ up' = up \o sent /\ tx.at \in {"head", "body"}
        /\ tx' = IF n > Len(left) THEN [tx EXCEPT !.at = "failed"] ELSE TxAfter(n)
        /\ spoilt' = (spoilt \/ n > Len(left))
        /\ UNCHANGED << link, down, rx, asked, got >>
    BY DEF xsk_snd, Sending
  <1> HIDE DEF left, sent
  <1>6. up' \in Bytestring /\ spoilt' \in BOOLEAN
    BY <1>1, <1>4, <1>5, Joined
  <1>7. CASE n > Len(left)
    <2>1. tx' \in TxType
      BY <1>1, <1>5, <1>7 DEF TxType
    <2>2. spoilt'
      BY <1>5, <1>7
    <2> QED
      BY <1>5, <1>6, <2>1, <2>2 DEF SockInv
  <1>8. CASE n <= Len(left)
    <2>1. n \in 1..Len(tx.left) /\ n \in 0..Len(left) /\ ~ (n > Len(left))
      BY <1>2, <1>8 DEF left
    <2>2. tx' = TxAfter(n) /\ spoilt' = spoilt /\ sent = Gone(left, n)
      BY <1>4, <1>5, <1>8, <2>1 DEF SockInv
    <2>3. tx' \in TxType
      BY <1>1, <1>5, <2>1, <2>2, TxAfterFacts
    <2>4. PICK z \in Bytestring : /\ ToSend(tx) = left \o z /\ TxAfter(n).at # "failed"
                                  /\ ToSend(TxAfter(n)) = Remaining(left, n) \o z
      BY <1>1, <1>5, <2>1, TxAfterFacts DEF left
    <2>5. ASSUME ~ spoilt, rx.at \in {"head", "body"}
          PROVE  Flows(asked, got, rx, down, up', tx')
      <3>1. PICK rest \in Bytestring : /\ Stream(asked, got, Part(rx), down, up, rest)
                                       /\ tx.at # "failed" => rest = ToSend(tx)
        BY <2>5 DEF SockInv, Flows
      <3>2. rest = left \o z
        BY <1>5, <2>4, <3>1
      <3>3. Moves(up, left, z, n)
        BY <1>1, <2>1, BytesMove
      <3>4. Stream(asked, got, Part(rx), down, up', Remaining(left, n) \o z)
        BY <1>5, <2>2, <3>1, <3>2, <3>3 DEF Stream, Moves
      <3>5. Remaining(left, n) \o z \in Bytestring
        BY <1>1, <2>1, CutFacts, Joined
      <3> QED
        BY <2>2, <2>4, <3>4, <3>5 DEF Flows
    <2> QED
      BY <1>5, <1>6, <2>2, <2>3, <2>5 DEF SockInv
  <1> QED
    BY <1>2, <1>7, <1>8

\* The forwarder hands on what it read, or the stream is spoilt.
LEMMA ForwardStep ==
    ASSUME SockInv, NEW n \in 1..Smaller(Len(up), BUFFER_SIZE), NEW k \in 1..n, xsk_forward(n, k)
    PROVE  SockInv'
  <1>1. /\ rx \in RxType /\ up \in Bytestring /\ down \in Bytestring
        /\ asked \in Seq(Bytestring) /\ got \in Seq(Bytestring)
    BY DEF SockInv
  <1>2. Len(up) \in Nat /\ BUFFER_SIZE \in Nat
    BY <1>1, LengthIs, SocketAssumption
  <1>3. n \in 0..Len(up) /\ k \in 0..Len(up) /\ n \in Nat /\ k \in Nat /\ k <= n
    BY <1>2 DEF Smaller
  <1>4. /\ down' = down \o Gone(up, k) /\ up' = Remaining(up, n)
        /\ spoilt' = (spoilt \/ k < n)
        /\ UNCHANGED << link, tx, rx, asked, got >>
    BY DEF xsk_forward, Gone, Remaining
  <1>5. up' \in Bytestring /\ down' \in Bytestring /\ spoilt' \in BOOLEAN
    BY <1>1, <1>3, <1>4, CutFacts, Joined
  <1>6. ASSUME ~ spoilt', rx.at \in {"head", "body"}
        PROVE  Flows(asked, got, rx, down', up', tx)
    <2>1. ~ spoilt /\ k = n
      <3>1. ~ spoilt /\ ~ (k < n)
        BY <1>4, <1>6
      <3> QED
        BY <1>3, <3>1
    <2>2. PICK rest \in Bytestring : /\ Stream(asked, got, Part(rx), down, up, rest)
                                     /\ tx.at # "failed" => rest = ToSend(tx)
      BY <1>6, <2>1 DEF SockInv, Flows
    <2>3. Moves(down, up, rest, n)
      BY <1>1, <1>3, BytesMove
    <2>4. Stream(asked, got, Part(rx), down', up', rest)
      BY <1>4, <2>1, <2>2, <2>3 DEF Stream, Moves
    <2> QED
      BY <2>2, <2>4 DEF Flows
  <1>7. ~ spoilt' => ~ spoilt
    BY <1>4
  <1> QED
    BY <1>4, <1>5, <1>6, <1>7 DEF SockInv

\* A head that is complete is that of the next message.
Follow(a, g, h, z) == Bytes(a) = Bytes(g) \o (h \o z)
NextIs(z, length, next) == \A m, w \in Bytestring : z = m \o w /\ Len(m) = length => m = next

LEMMA HeadIsNext ==
    ASSUME NEW a \in Seq(Bytestring), NEW g \in Seq(Bytestring), AreFirst(g, a),
           Believed(a),
           NEW h \in Bytestring, Len(h) = XSK_HEAD_LEN, NEW z \in Bytestring,
           Follow(a, g, h, z)
    PROVE  /\ Len(g) + 1 \in 1..Len(a)
           /\ ntohl(h) = Len(a[Len(g) + 1])
           /\ h = htonl(ntohl(h))
           /\ NextIs(z, ntohl(h), a[Len(g) + 1])
  <1>3. /\ Len(g) < Len(a) /\ h = htonl(Len(a[Len(g)+1]))
        /\ \A m, w \in Bytestring : z = m \o w /\ Len(m) = Len(a[Len(g)+1]) => m = a[Len(g)+1]
    BY NextMessage DEF Follow
  <1>4. Len(g) + 1 \in 1..Len(a)
    <2>1. Len(g) \in Nat /\ Len(a) \in Nat
      OBVIOUS
    <2> QED
      BY <1>3, <2>1
  <1>5. Len(a[Len(g)+1]) \in 0..MaxSize - 1
    BY <1>4 DEF Believed
  <1>6. ntohl(h) = Len(a[Len(g)+1])
    BY <1>3, <1>5, LengthComesBack
  <1> QED
    BY <1>3, <1>4, <1>6 DEF NextIs

\* The receiver has n bytes more.
LEMMA PartGrows ==
    ASSUME SockInv, ~ spoilt, rx.at \in {"head", "body"}, NEW n \in 0..Len(down)
    PROVE  \E rest \in Bytestring :
              /\ Stream(asked, got, Part(rx) \o Gone(down, n), Remaining(down, n), up, rest)
              /\ tx.at # "failed" => rest = ToSend(tx)
  <1>1. PICK rest \in Bytestring : /\ Stream(asked, got, Part(rx), down, up, rest)
                                   /\ tx.at # "failed" => rest = ToSend(tx)
    BY DEF SockInv, Flows
  <1>2. rx \in RxType /\ up \in Bytestring /\ down \in Bytestring
    BY DEF SockInv
  <1>3. up \o rest \in Bytestring /\ Part(rx) \in Bytestring
    BY <1>2, Joined, PartFacts
  <1>4. Moves(Part(rx), down, up \o rest, n)
    BY <1>2, <1>3, BytesMove
  <1>5. Stream(asked, got, Part(rx) \o Gone(down, n), Remaining(down, n), up, rest)
    BY <1>1, <1>4 DEF Stream, Moves
  <1> QED
    BY <1>1, <1>5

\* With the bytes that are read, the receiver has a longer part of the same message.
LEMMA LongerPart ==
    ASSUME NEW r \in RxType, NEW x \in Bytestring, r.at \in {"head", "body"}
    PROVE  /\ r.buf \o x \in Bytestring /\ Len(r.buf \o x) = Len(r.buf) + Len(x)
           /\ Part(r) \o x = IF r.at = "body" THEN htonl(r.need) \o (r.buf \o x) ELSE r.buf \o x
  <1>1. r.buf \in Bytestring /\ r.need \in Nat
    BY PartFacts DEF RxType
  <1>2. htonl(r.need) \in Bytestring
    BY <1>1, HeadFacts
  <1>3. Regroups(htonl(r.need), r.buf, x)
    BY <1>1, <1>2, Regrouped
  <1> QED
    BY <1>1, <1>3, Joined DEF Part, Regroups

\* A head is complete: what it says is the next message's length.
LEMMA HeadComplete ==
    ASSUME SockInv, rx.at = "head", NEW n \in 0..Len(down), NEW buf \in Bytestring,
           buf = rx.buf \o Gone(down, n), Len(buf) = XSK_HEAD_LEN,
           rx' = RxAfter(buf), down' = Remaining(down, n),
           UNCHANGED << up, tx, asked, got, spoilt >>
    PROVE  SockInv'
  <1>1. /\ rx \in RxType /\ up \in Bytestring /\ down \in Bytestring
        /\ asked \in Seq(Bytestring) /\ got \in Seq(Bytestring)
        /\ Believed(asked)
    BY DEF SockInv
  <1>2. down' \in Bytestring /\ Gone(down, n) \in Bytestring
    BY <1>1, CutFacts
  <1>3. ntohl(buf) \in Nat
    <2>1. PICK v : ntohl(buf) = v[Len(buf)] /\ \A k \in 0..Len(buf) : v[k] \in Nat
      BY NtohlFacts
    <2>2. Len(buf) \in 0..Len(buf)
      BY LengthIs
    <2> QED
      BY <2>1, <2>2
  <1>4. CASE ntohl(buf) = 0 \/ ntohl(buf) >= MaxSize
    <2>1. rx' = [rx EXCEPT !.at = "failed"]
      BY <1>4 DEF RxAfter
    <2>2. rx' \in RxType /\ rx'.at = "failed"
      BY <1>1, <2>1 DEF RxType
    <2>3. Waits(rx')
      BY <2>2 DEF Waits
    <2> QED
      BY <1>1, <1>2, <2>2, <2>3 DEF SockInv
  <1>5. CASE ~ (ntohl(buf) = 0 \/ ntohl(buf) >= MaxSize)
    <2>1. rx' = [at |-> "body", buf |-> Nil, need |-> ntohl(buf), wild |-> FALSE]
      BY <1>5 DEF RxAfter
    <2>2. rx' \in RxType /\ rx'.at = "body" /\ rx'.buf = Nil /\ rx'.need = ntohl(buf)
      BY <1>3, <2>1, NilIs DEF RxType
    <2>3. Waits(rx')
      <3>1. ntohl(buf) \in 0..MaxSize - 1 /\ 0 < ntohl(buf)
        BY <1>3, <1>5, SocketAssumption
      <3> QED
        BY <2>2, <3>1, NilIs DEF Waits
    <2>4. ASSUME ~ spoilt PROVE Flows(asked, got, rx', down', up, tx)
      <3>1. PICK rest \in Bytestring :
                 /\ Stream(asked, got, Part(rx) \o Gone(down, n), Remaining(down, n), up, rest)
                 /\ tx.at # "failed" => rest = ToSend(tx)
        BY <2>4, PartGrows
      <3>2. Part(rx) \o Gone(down, n) = buf
        BY <1>1, <1>2, LongerPart
      <3>3. Bytes(asked) = Bytes(got) \o (buf \o (down' \o (up \o rest)))
        BY <3>1, <3>2 DEF Stream
      <3>4. down' \o (up \o rest) \in Bytestring
        <4>1. up \o rest \in Bytestring
          BY <1>1, Joined
        <4> QED
          BY <1>2, <4>1, Joined
      <3>5. buf = htonl(ntohl(buf))
        <4>1. AreFirst(got, asked)
          BY <2>4 DEF SockInv
        <4> DEFINE z == down' \o (up \o rest)
        <4>2. z \in Bytestring /\ Follow(asked, got, buf, z)
          BY <3>3, <3>4 DEF Follow
        <4> HIDE DEF z
        <4> QED
          BY <1>1, <4>1, <4>2, HeadIsNext
      <3>6. Part(rx') = buf
        <4>1. Part(rx') = htonl(ntohl(buf)) \o Nil
          BY <2>2 DEF Part
        <4> QED
          BY <3>5, <4>1, NilIs
      <3>7. Stream(asked, got, Part(rx'), down', up, rest)
        BY <3>3, <3>6 DEF Stream
      <3> QED
        BY <3>1, <3>7 DEF Flows
    <2> QED
      BY <1>1, <1>2, <2>2, <2>3, <2>4 DEF SockInv
  <1> QED
    BY <1>4, <1>5

\* A message is complete: it is the next one.
LEMMA MessageComplete ==
    ASSUME SockInv, rx.at = "body", NEW n \in 0..Len(down), NEW buf \in Bytestring,
           buf = rx.buf \o Gone(down, n), Len(buf) = rx.need,
           rx' = RxHead, down' = Remaining(down, n), got' = Append(got, buf),
           UNCHANGED << up, tx, asked, spoilt >>
    PROVE  SockInv'
  <1>1. /\ rx \in RxType /\ up \in Bytestring /\ down \in Bytestring
        /\ asked \in Seq(Bytestring) /\ got \in Seq(Bytestring)
        /\ Believed(asked)
        /\ rx.need \in 0..MaxSize - 1 /\ rx.need \in Nat
    BY DEF SockInv, Waits, RxType
  <1>2. down' \in Bytestring /\ Gone(down, n) \in Bytestring
    BY <1>1, CutFacts
  <1>3. rx' \in RxType /\ Waits(rx') /\ Part(rx') = Nil
    BY FreshInv DEF RxHead, Part
  <1>4. got' \in Seq(Bytestring)
    BY <1>1
  <1> DEFINE h == htonl(rx.need)
  <1>5. /\ h \in Bytestring /\ Len(h) = XSK_HEAD_LEN /\ ntohl(h) = rx.need
        /\ Frame(buf) = h \o buf
    BY <1>1, HeadFacts, LengthComesBack DEF Frame
  <1> HIDE DEF h
  <1>6. ASSUME ~ spoilt
        PROVE  AreFirst(got', asked) /\ Flows(asked, got', rx', down', up, tx)
    <2>1. PICK rest \in Bytestring :
               /\ Stream(asked, got, Part(rx) \o Gone(down, n), Remaining(down, n), up, rest)
               /\ tx.at # "failed" => rest = ToSend(tx)
      BY <1>6, PartGrows
    <2> DEFINE z == down' \o (up \o rest)
    <2>2. z \in Bytestring
      <3>1. up \o rest \in Bytestring
        BY <1>1, Joined
      <3> QED
        BY <1>2, <3>1, Joined
    <2>3. Part(rx) \o Gone(down, n) = h \o buf
      BY <1>1, <1>2, LongerPart DEF h
    <2>4. Bytes(asked) = Bytes(got) \o ((h \o buf) \o z)
      BY <2>1, <2>3 DEF Stream
    <2> HIDE DEF z
    <2>5. (h \o buf) \o z = h \o (buf \o z) /\ buf \o z \in Bytestring
      <3>1. Regroups(h, buf, z)
        BY <1>5, <2>2, Regrouped
      <3>2. buf \o z \in Bytestring
        BY <2>2, Joined
      <3> QED
        BY <3>1, <3>2 DEF Regroups
    <2>6. AreFirst(got, asked)
      BY <1>6 DEF SockInv
    <2>7. Len(got) + 1 \in 1..Len(asked) /\ buf = asked[Len(got) + 1]
      <3>1. Bytes(asked) = Bytes(got) \o (h \o (buf \o z))
        BY <2>4, <2>5
      <3>2. /\ Len(got) + 1 \in 1..Len(asked)
            /\ \A m, w \in Bytestring :
                  buf \o z = m \o w /\ Len(m) = ntohl(h) => m = asked[Len(got) + 1]
        <4> DEFINE y == buf \o z
        <4>1. y \in Bytestring /\ Follow(asked, got, h, y)
          BY <2>5, <3>1 DEF Follow
        <4> HIDE DEF y
        <4>2. /\ Len(got) + 1 \in 1..Len(asked)
              /\ NextIs(y, ntohl(h), asked[Len(got) + 1])
          BY <1>1, <1>5, <2>6, <4>1, HeadIsNext
        <4> QED
          BY <4>2 DEF y, NextIs
      <3> QED
        BY <1>5, <2>2, <3>2
    <2>8. AreFirst(got', asked)
      <3>1. /\ Len(got') = Len(got) + 1 /\ Len(got) \in Nat /\ Len(asked) \in Nat
            /\ got'[Len(got) + 1] = buf /\ \A k \in 1..Len(got) : got'[k] = got[k]
        BY <1>1
      <3>2. Len(got') <= Len(asked)
        BY <2>7, <3>1
      <3>3. ASSUME NEW k \in 1..Len(got') PROVE got'[k] = asked[k]
        <4>1. k \in 1..Len(got) \/ k = Len(got) + 1
          BY <3>1
        <4> QED
          BY <2>6, <2>7, <3>1, <4>1 DEF AreFirst
      <3> QED
        BY <3>2, <3>3 DEF AreFirst
    <2>9. Stream(asked, got', Part(rx'), down', up, rest)
      <3>1. Bytes(got) \in Bytestring /\ Bytes(got') = Bytes(got) \o (h \o buf)
        BY <1>1, <1>5, BytesAppend
      <3>2. h \o buf \in Bytestring
        BY <1>5, Joined
      <3>3. Regroups(Bytes(got), h \o buf, z)
        BY <2>2, <3>1, <3>2, Regrouped
      <3>4. Nil \o z = z
        BY <2>2, NilIs
      <3>5. Bytes(asked) = Bytes(got') \o (Part(rx') \o z)
        BY <1>3, <2>4, <3>1, <3>3, <3>4 DEF Regroups
      <3> QED
        BY <3>5 DEF Stream, z
    <2> QED
      BY <2>1, <2>8, <2>9 DEF Flows
  <1> QED
    BY <1>1, <1>2, <1>3, <1>4, <1>6 DEF SockInv

\* One recv gives part of what is needed, all of it, or, after a signal, more.
LEMMA RcvStep ==
    ASSUME SockInv, NEW n \in 1..Room, xsk_rcv(n)
    PROVE  SockInv'
  <1> DEFINE need == rx.need - Len(rx.buf)
             buf == rx.buf \o Gone(down, n)
  <1>1. /\ rx \in RxType /\ tx \in TxType /\ up \in Bytestring /\ down \in Bytestring
        /\ asked \in Seq(Bytestring) /\ got \in Seq(Bytestring) /\ Believed(asked)
        /\ Waits(rx)
    BY DEF SockInv
  <1>2. /\ rx.at \in {"head", "body"} /\ n <= Len(down)
        /\ down' = Remaining(down, n)
        /\ rx' = IF n > need THEN [rx EXCEPT !.at = "overrun"]
                 ELSE IF n < need THEN [rx EXCEPT !.buf = buf, !.wild = FALSE]
                 ELSE RxAfter(buf)
        /\ got' = IF n = need /\ rx.at = "body" THEN Append(got, buf) ELSE got
        /\ UNCHANGED << up, tx, asked, spoilt >>
    BY DEF xsk_rcv, Receiving, Gone, Remaining
  <1>3. /\ Len(rx.buf) \in Nat /\ rx.need \in Nat /\ Len(down) \in Nat /\ n \in Nat
        /\ rx.buf \in Bytestring /\ Len(rx.buf) < rx.need /\ n \in 0..Len(down)
    <2>1. rx.buf \in Bytestring /\ rx.need \in Nat
      BY <1>1, PartFacts DEF RxType
    <2>2. Len(rx.buf) < rx.need
      BY <1>1, <1>2 DEF Waits
    <2> QED
      BY <1>1, <1>2, <2>1, <2>2, LengthIs
  <1>4. /\ Gone(down, n) \in Bytestring /\ Len(Gone(down, n)) = n
        /\ down' \in Bytestring
    BY <1>1, <1>2, <1>3, CutFacts
  <1>5. /\ buf \in Bytestring /\ Len(buf) = Len(rx.buf) + n
        /\ Part(rx) \o Gone(down, n) = IF rx.at = "body" THEN htonl(rx.need) \o buf ELSE buf
    BY <1>1, <1>2, <1>4, LongerPart
  <1>6. need \in Int /\ need > 0
    BY <1>3
  <1>7. n = need => Len(buf) = rx.need
    BY <1>3, <1>5
  <1>8. n < need => Len(buf) < rx.need
    BY <1>3, <1>5
  <1>9. buf = rx.buf \o Gone(down, n)
    OBVIOUS
  <1> HIDE DEF need, buf
  <1>10. CASE n > need
    <2>1. rx' = [rx EXCEPT !.at = "overrun"] /\ got' = got
      BY <1>2, <1>3, <1>6, <1>10
    <2>2. rx' \in RxType /\ rx'.at = "overrun"
      BY <1>1, <2>1 DEF RxType
    <2>3. Waits(rx')
      BY <2>2 DEF Waits
    <2> QED
      BY <1>1, <1>2, <1>4, <2>1, <2>2, <2>3 DEF SockInv
  <1>11. CASE n < need
    <2>1. rx' = [rx EXCEPT !.buf = buf, !.wild = FALSE] /\ got' = got
      BY <1>2, <1>3, <1>6, <1>11
    <2>2. rx' \in RxType /\ rx'.at = rx.at /\ rx'.buf = buf /\ rx'.need = rx.need
      BY <1>1, <1>5, <2>1 DEF RxType
    <2>3. Waits(rx')
      BY <1>1, <1>8, <1>11, <2>2 DEF Waits
    <2>4. Part(rx') = Part(rx) \o Gone(down, n)
      BY <1>5, <2>2 DEF Part
    <2>5. ASSUME ~ spoilt PROVE Flows(asked, got, rx', down', up, tx)
      <3>1. PICK rest \in Bytestring :
                 /\ Stream(asked, got, Part(rx) \o Gone(down, n), Remaining(down, n), up, rest)
                 /\ tx.at # "failed" => rest = ToSend(tx)
        BY <1>2, <1>3, <2>5, PartGrows
      <3>2. Stream(asked, got, Part(rx'), down', up, rest)
        BY <1>2, <2>4, <3>1
      <3> QED
        BY <3>1, <3>2 DEF Flows
    <2> QED
      BY <1>1, <1>2, <1>4, <2>1, <2>2, <2>3, <2>5 DEF SockInv
  <1>12. CASE n = need
    <2>1. rx' = RxAfter(buf) /\ (rx.at = "body" => got' = Append(got, buf))
          /\ (rx.at = "head" => got' = got)
      BY <1>2, <1>3, <1>6, <1>12
    <2>2. CASE rx.at = "head"
      <3>1. Len(buf) = XSK_HEAD_LEN
        BY <1>1, <1>7, <1>12, <2>2 DEF Waits
      <3> QED
        BY <1>2, <1>3, <1>5, <1>9, <2>1, <2>2, <3>1, HeadComplete
    <2>3. CASE rx.at = "body"
      <3>1. rx' = RxHead
        BY <2>1, <2>3 DEF RxAfter
      <3> QED
        BY <1>2, <1>3, <1>5, <1>7, <1>9, <1>12, <2>1, <2>3, <3>1, MessageComplete
    <2> QED
      BY <1>2, <2>2, <2>3
  <1> QED
    BY <1>3, <1>6, <1>10, <1>11, <1>12

LEMMA NextSockInv == SockInv /\ [SockNext]_sockVars => SockInv'
  <1> SUFFICES ASSUME SockInv, [SockNext]_sockVars PROVE SockInv'
    OBVIOUS
  <1>1. CASE \E init_func, bound \in BOOLEAN : xsk_init_listen_socket(init_func, bound)
    BY <1>1, ConnectingStep DEF xsk_init_listen_socket
  <1>2. CASE \E timeout \in 0..1, a \in KernelAnswers : xsk_init_client(timeout, a)
    BY <1>2, ConnectingStep DEF xsk_init_client
  <1>3. CASE \E block \in BOOLEAN : xsk_accept(block)
    BY <1>3, ConnectingStep DEF xsk_accept
  <1>4. CASE \E message \in Message, timeout \in 0..1 : xsk_send(message, timeout)
    BY <1>4, SendStep
  <1>5. CASE \E n \in 1..Room : xsk_snd(n) \/ xsk_rcv(n)
    BY <1>5, SndStep, RcvStep
  <1>6. CASE \E n \in 1..Smaller(Len(up), BUFFER_SIZE) : \E k \in 1..n : xsk_forward(n, k)
    BY <1>6, ForwardStep
  <1>7. CASE SendInterrupted \/ SendFails \/ SendTimesOut \/ ReceiveInterrupted \/ ReceiveFails
    BY <1>7, FailingStep
  <1>8. CASE xsk_disconnect
    BY <1>8, FreshStep DEF xsk_disconnect
  <1>9. CASE UNCHANGED sockVars
    BY <1>9, ConnectingStep DEF sockVars, streams
  <1> QED
    BY <1>1, <1>2, <1>3, <1>4, <1>5, <1>6, <1>7, <1>8, <1>9 DEF SockNext

-----------------------------------------------------------------------------
(* What the invariant says.                                                *)

\* A sequence that others follow is a prefix.
LEMMA PrefixOf ==
    ASSUME NEW S, NEW x \in Seq(S), NEW y \in Seq(S), Len(x) <= Len(y),
           \A k \in 1..Len(x) : x[k] = y[k]
    PROVE  IsPrefix(x, y)
  <1>1. Len(x) \in Nat /\ Len(y) \in Nat
    OBVIOUS
  <1>2. SubSeq(x, 1, Len(x)) = x
    BY SubSeqFull
  <1>3. /\ SubSeq(y, 1, Len(x)) \in Seq(S) /\ Len(SubSeq(y, 1, Len(x))) = Len(x)
        /\ \A k \in 1..Len(x) : SubSeq(y, 1, Len(x))[k] = y[k]
    <2>1. \A i \in 1..Len(x) : y[i] \in S
      BY <1>1
    <2> QED
      BY <1>1, <2>1, SubSeqProperties
  <1>4. SubSeq(y, 1, Len(x)) = x
    BY <1>1, <1>3, SeqEqual
  <1> QED
    BY <1>1, <1>2, <1>4 DEF IsPrefix

LEMMA PrefixOfConcat ==
    ASSUME NEW x \in Bytestring, NEW z \in Bytestring
    PROVE  IsPrefix(x, x \o z)
  <1>1. x \in Seq(Byte) /\ x \o z \in Seq(Byte) /\ Len(x) <= Len(x \o z)
    BY Joined, LengthIs DEF Bytestring
  <1>2. \A k \in 1..Len(x) : x[k] = (x \o z)[k]
    BY LengthIs, ConcatProperties DEF Bytestring
  <1> QED
    BY <1>1, <1>2, PrefixOf

\* The stream without its rest, as MessagesWhole writes it.
Seen(g, p, d, u) == ((Bytes(g) \o p) \o d) \o u

LEMMA StreamIsSeen ==
    ASSUME NEW a \in Seq(Bytestring), NEW g \in Seq(Bytestring), NEW p \in Bytestring,
           NEW d \in Bytestring, NEW u \in Bytestring, NEW rest \in Bytestring,
           Stream(a, g, p, d, u, rest)
    PROVE  Seen(g, p, d, u) \in Bytestring /\ Bytes(a) = Seen(g, p, d, u) \o rest
  <1>1. PICK b \in Bytestring : b = Bytes(g)
    BY BytesAppend, NilIs
  <1>2. b \in Bytestring
    BY <1>1
  <1>3. SameBytes(b, p, d, u, rest)
    BY <1>2, RegroupedAll
  <1>4. ((b \o p) \o d) \o u \in Bytestring
    BY <1>2 DEF Bytestring
  <1> QED
    BY <1>1, <1>3, <1>4 DEF SameBytes, Stream, Seen

LEMMA InvWhole == SockInv => MessagesWhole
  <1> SUFFICES ASSUME SockInv, ~ spoilt PROVE MessagesWhole
    BY DEF MessagesWhole
  <1>1. /\ up \in Bytestring /\ down \in Bytestring /\ Part(rx) \in Bytestring
        /\ asked \in Seq(Bytestring) /\ got \in Seq(Bytestring) /\ AreFirst(got, asked)
    BY PartFacts DEF SockInv
  <1>2. IsPrefix(got, asked)
    <2>1. Len(got) <= Len(asked) /\ \A k \in 1..Len(got) : got[k] = asked[k]
      BY <1>1 DEF AreFirst
    <2> QED
      BY <1>1, <2>1, PrefixOf
  <1> DEFINE seen == Seen(got, Part(rx), down, up)
  <1>3. ASSUME rx.at \in {"head", "body"}
        PROVE  IsPrefix(seen, Bytes(asked)) /\ (tx.at = "idle" => seen = Bytes(asked))
    <2>1. PICK rest \in Bytestring : /\ Stream(asked, got, Part(rx), down, up, rest)
                                     /\ tx.at # "failed" => rest = ToSend(tx)
      BY <1>3 DEF SockInv, Flows
    <2>2. seen \in Bytestring /\ Bytes(asked) = seen \o rest
      BY <1>1, <2>1, StreamIsSeen
    <2> HIDE DEF seen
    <2>3. IsPrefix(seen, Bytes(asked))
      BY <2>2, PrefixOfConcat
    <2>4. ASSUME tx.at = "idle" PROVE seen = Bytes(asked)
      <3>1. rest = Nil
        BY <2>1, <2>4 DEF ToSend
      <3> QED
        BY <2>2, <3>1, NilIs
    <2> QED
      BY <2>3, <2>4
  <1> QED
    BY <1>2, <1>3 DEF MessagesWhole, Part, Seen

\* Between xsk_send and xsk_recv (xsocket.cpp:330, :393), whatever parts send and
\* recv take and give, whichever of them fail, time out or are interrupted, however often
\* the two ends connect again, and for messages of every length below 32 megabytes: as
\* long as the forwarder loses no byte and a repeated call adds none, the receiver gets
\* the messages that were sent, whole and in order, and what it did not get is on its way.
THEOREM MessagesComeWhole == SockSpec => []MessagesWhole
  BY InitSockInv, NextSockInv, InvWhole, PTL DEF SockSpec

-----------------------------------------------------------------------------
(* The chain: what its granules hold.                                      *)

GranuleType ==
    {g \in [bufpos : Nat, data : Bytestring] :
        Len(g.data) > 0 /\ g.bufpos + Len(g.data) <= BUFFER_GRANULE}
DataOf == [g \in GranuleType |-> g.data]
ContentOf(gs) == FlattenSeq(RowOf(DataOf, gs))

Full(g) == buflen(g) = BUFFER_GRANULE

\* Granules in a row: all but the last reach to their end.
Row(gs) == gs \in Seq(GranuleType) /\ \A k \in 1..Len(gs) - 1 : Full(gs[k])

LEMMA GranuleSize == BUFFER_GRANULE \in Nat /\ BUFFER_GRANULE > 0
  BY ChainAssumption

LEMMA DataIs == DataOf \in [GranuleType -> Bytestring] /\ \A g \in GranuleType : DataOf[g] = g.data
  BY DEF DataOf, GranuleType

LEMMA GranuleFacts ==
    ASSUME NEW pos \in Nat, NEW d \in Bytestring, Len(d) > 0, pos + Len(d) <= BUFFER_GRANULE
    PROVE  /\ Granule(pos, d) \in GranuleType
           /\ Granule(pos, d).data = d /\ Granule(pos, d).bufpos = pos
           /\ buflen(Granule(pos, d)) = pos + Len(d)
           /\ DataOf[Granule(pos, d)] = d
  <1>1. /\ Granule(pos, d) \in [bufpos : Nat, data : Bytestring]
        /\ Granule(pos, d).data = d /\ Granule(pos, d).bufpos = pos
    BY DEF Granule
  <1>2. Granule(pos, d) \in GranuleType
    BY <1>1 DEF GranuleType
  <1> QED
    BY <1>1, <1>2, DataIs DEF buflen

LEMMA ContentIs ==
    ASSUME NEW ch, ch.granules \in Seq(GranuleType)
    PROVE  Content(ch) = ContentOf(ch.granules) /\ ContentOf(ch.granules) \in Bytestring
  <1> DEFINE gs == ch.granules
  <1>1. gs \in Seq(GranuleType) /\ DOMAIN gs = 1..Len(gs)
        /\ \A k \in DOMAIN gs : gs[k] \in GranuleType
    OBVIOUS
  <1> HIDE DEF gs
  <1>2. \A k \in DOMAIN gs : gs[k].data = DataOf[gs[k]]
    BY <1>1, DataIs
  <1>3. [k \in DOMAIN gs |-> gs[k].data] = RowOf(DataOf, gs)
    BY <1>2 DEF RowOf
  <1>4. ContentOf(gs) \in Bytestring
    BY <1>1, DataIs, RowFacts DEF ContentOf
  <1> QED
    BY <1>3, <1>4 DEF Content, ContentOf, gs

LEMMA ContentConcat ==
    ASSUME NEW s \in Seq(GranuleType), NEW t \in Seq(GranuleType)
    PROVE  /\ s \o t \in Seq(GranuleType) /\ ContentOf(s \o t) = ContentOf(s) \o ContentOf(t)
           /\ ContentOf(s) \in Bytestring /\ ContentOf(t) \in Bytestring
  BY ZenonT(40), DataIs, RowOfConcat, RowFacts DEF ContentOf

LEMMA ContentOne ==
    ASSUME NEW g \in GranuleType
    PROVE  << g >> \in Seq(GranuleType) /\ ContentOf(<< g >>) = g.data /\ Row(<< g >>)
  <1>1. << g >> \in Seq(GranuleType) /\ ContentOf(<< g >>) = DataOf[g]
    BY DataIs, RowOfOne DEF ContentOf
  <1> QED
    BY <1>1, DataIs DEF Row

LEMMA ContentNil == Nil \in Seq(GranuleType) /\ Len(Nil) = 0 /\ ContentOf(Nil) = Nil /\ Row(Nil)
  <1>1. Nil \in Seq(GranuleType) /\ Len(Nil) = 0 /\ ContentOf(Nil) = Nil
    BY DataIs, RowOfNil DEF ContentOf
  <1> QED
    BY <1>1 DEF Row

LEMMA GranulesConcat ==
    ASSUME NEW s \in Seq(GranuleType), NEW t \in Seq(GranuleType)
    PROVE  /\ s \o t \in Seq(GranuleType) /\ Len(s \o t) = Len(s) + Len(t)
           /\ \A k \in 1..Len(s) : (s \o t)[k] = s[k]
           /\ \A k \in 1..Len(t) : (s \o t)[Len(s) + k] = t[k]
  BY ConcatProperties

\* A row after a row whose last granule reaches to its end is a row.
LEMMA RowGoesOn ==
    ASSUME NEW s, NEW t, Row(s), Row(t),
           s = Nil \/ t = Nil \/ Full(s[Len(s)])
    PROVE  Row(s \o t) /\ Len(s \o t) = Len(s) + Len(t)
  <1>1. s \in Seq(GranuleType) /\ t \in Seq(GranuleType) /\ Len(s) \in Nat /\ Len(t) \in Nat
    BY DEF Row
  <1> DEFINE st == s \o t
  <1>2. /\ st \in Seq(GranuleType) /\ Len(st) = Len(s) + Len(t)
        /\ \A k \in 1..Len(s) : st[k] = s[k]
        /\ \A k \in 1..Len(t) : st[Len(s) + k] = t[k]
    BY <1>1, GranulesConcat
  <1>3. (s = Nil <=> Len(s) = 0) /\ (t = Nil <=> Len(t) = 0)
    BY <1>1 DEF Nil
  <1> HIDE DEF st
  <1>4. ASSUME NEW k \in 1..Len(st) - 1 PROVE Full(st[k])
    <2>1. CASE k < Len(s)
      <3>1. k \in 1..Len(s) /\ k \in 1..Len(s) - 1
        BY <1>1, <1>2, <2>1
      <3> QED
        BY <1>2, <3>1 DEF Row
    <2>2. CASE k = Len(s)
      <3>1. k \in 1..Len(s) /\ s # Nil /\ t # Nil
        BY <1>1, <1>2, <1>3, <2>2
      <3> QED
        BY <1>2, <2>2, <3>1
    <2>3. CASE k > Len(s)
      <3>1. /\ k - Len(s) \in 1..Len(t) /\ k - Len(s) \in 1..Len(t) - 1
            /\ Len(s) + (k - Len(s)) = k
        BY <1>1, <1>2, <2>3
      <3>2. st[Len(s) + (k - Len(s))] = t[k - Len(s)] /\ Full(t[k - Len(s)])
        BY <1>2, <3>1 DEF Row
      <3> QED
        BY <3>1, <3>2
    <2> QED
      BY <1>1, <1>2, <2>1, <2>2, <2>3
  <1> QED
    BY <1>2, <1>4 DEF Row, st

\* The first granule, and the others.
LEMMA FirstGranule ==
    ASSUME NEW gs, Row(gs), gs # Nil
    PROVE  /\ gs[1] \in GranuleType /\ Row(Tail(gs)) /\ gs = << gs[1] >> \o Tail(gs)
           /\ Len(gs) \in Nat /\ Len(gs) > 0 /\ Len(Tail(gs)) = Len(gs) - 1
           /\ Tail(gs) = Nil \/ Full(gs[1])
           /\ ContentOf(gs) = gs[1].data \o ContentOf(Tail(gs))
  <1>1. /\ gs \in Seq(GranuleType) /\ Len(gs) \in Nat /\ Len(gs) > 0
        /\ \A k \in 1..Len(gs) - 1 : Full(gs[k])
    BY DEF Row, Nil
  <1>2. /\ gs[1] \in GranuleType /\ Tail(gs) \in Seq(GranuleType) /\ Len(Tail(gs)) = Len(gs) - 1
        /\ \A k \in 1..Len(gs) - 1 : Tail(gs)[k] = gs[k+1]
    BY <1>1
  <1>3. Row(Tail(gs))
    <2>1. ASSUME NEW k \in 1..Len(Tail(gs)) - 1 PROVE Full(Tail(gs)[k])
      <3>1. k \in 1..Len(gs) - 1 /\ k + 1 \in 1..Len(gs) - 1
        BY <1>1, <1>2
      <3> QED
        BY <1>1, <1>2, <3>1
    <2> QED
      BY <1>2, <2>1 DEF Row
  <1>4. gs = << gs[1] >> \o Tail(gs)
    <2> DEFINE one == << gs[1] >>
               t == Tail(gs)
               r == one \o t
    <2>1. one \in Seq(GranuleType) /\ Len(one) = 1 /\ one[1] = gs[1]
      BY <1>2
    <2>2. t \in Seq(GranuleType) /\ Len(t) = Len(gs) - 1 /\ \A k \in 1..Len(t) : t[k] = gs[k+1]
      BY <1>2
    <2> HIDE DEF one, t
    <2>3. /\ r \in Seq(GranuleType) /\ Len(r) = 1 + Len(t)
          /\ \A k \in 1..Len(one) : r[k] = one[k]
          /\ \A k \in 1..Len(t) : r[Len(one) + k] = t[k]
      <3>1. one \in Seq(GranuleType) /\ t \in Seq(GranuleType)
        BY <2>1, <2>2
      <3>2. /\ one \o t \in Seq(GranuleType) /\ Len(one \o t) = Len(one) + Len(t)
            /\ \A k \in 1..Len(one) : (one \o t)[k] = one[k]
            /\ \A k \in 1..Len(t) : (one \o t)[Len(one) + k] = t[k]
        BY <3>1, GranulesConcat
      <3> QED
        BY <2>1, <3>2
    <2> HIDE DEF r
    <2>4. ASSUME NEW k \in 1..Len(gs) PROVE gs[k] = r[k]
      <3>1. CASE k = 1
        BY <2>1, <2>3, <3>1
      <3>2. CASE k # 1
        <4>1. k - 1 \in 1..Len(t) /\ 1 + (k - 1) = k /\ (k - 1) + 1 = k
          BY <1>1, <2>2, <3>2
        <4>2. r[1 + (k - 1)] = t[k - 1]
          BY <2>1, <2>3, <4>1
        <4>3. t[k - 1] = gs[(k - 1) + 1]
          BY <2>2, <4>1
        <4> QED
          BY <4>1, <4>2, <4>3
      <3> QED
        BY <3>1, <3>2
    <2>5. Len(r) = Len(gs)
      BY <1>1, <2>2, <2>3
    <2>6. gs = r
      BY <1>1, <2>3, <2>4, <2>5, SeqEqual
    <2> QED
      BY <2>6 DEF r, one, t
  <1>5. Tail(gs) = Nil \/ Full(gs[1])
    <2> DEFINE t == Tail(gs)
               n == Len(gs)
    <2>0. t \in Seq(GranuleType) /\ Len(t) = n - 1 /\ n \in Nat /\ n > 0
      BY <1>1, <1>2
    <2> HIDE DEF t, n
    <2>1. CASE n = 1
      <3>1. t = Nil
        BY <2>0, <2>1 DEF Nil
      <3> QED
        BY <3>1 DEF t
    <2>2. CASE n # 1
      <3>1. 1 \in 1..n - 1
        BY <2>0, <2>2
      <3> QED
        BY <1>1, <3>1 DEF n
    <2> QED
      BY <2>1, <2>2
  <1>6. ContentOf(gs) = gs[1].data \o ContentOf(Tail(gs))
    <2> DEFINE one == << gs[1] >>
               t == Tail(gs)
    <2>1. one \in Seq(GranuleType) /\ ContentOf(one) = gs[1].data /\ t \in Seq(GranuleType)
      BY <1>2, ContentOne
    <2>2. gs = one \o t
      BY <1>4
    <2> HIDE DEF one, t
    <2>3. ContentOf(one \o t) = ContentOf(one) \o ContentOf(t)
      BY <2>1, ContentConcat
    <2>4. ContentOf(gs) = gs[1].data \o ContentOf(t)
      BY <2>1, <2>2, <2>3
    <2> QED
      BY <2>4 DEF t
  <1> QED
    BY <1>1, <1>2, <1>3, <1>4, <1>5, <1>6

-----------------------------------------------------------------------------
(* Data that is cut into pieces.                                           *)

LEMMA PartsOf ==
    ASSUME NEW d \in Bytestring, NEW n \in Nat
    PROVE  /\ FirstOf(n, d) \in Bytestring
           /\ Len(FirstOf(n, d)) = IF n <= Len(d) THEN n ELSE Len(d)
           /\ \A i \in 1..Len(FirstOf(n, d)) : FirstOf(n, d)[i] = d[i]
           /\ WithoutFirst(n, d) \in Bytestring
           /\ Len(WithoutFirst(n, d)) = IF n <= Len(d) THEN Len(d) - n ELSE 0
           /\ \A i \in 1..Len(WithoutFirst(n, d)) : WithoutFirst(n, d)[i] = d[n + i]
           /\ d = FirstOf(n, d) \o WithoutFirst(n, d)
  <1>0. d \in Seq(Byte) /\ Len(d) \in Nat
    BY LengthIs DEF Bytestring
  <1>1. CASE n <= Len(d)
    <2>1. FirstOf(n, d) = Gone(d, n) /\ WithoutFirst(n, d) = Remaining(d, n) /\ n \in 0..Len(d)
      BY <1>0, <1>1 DEF FirstOf, WithoutFirst, Least, Gone, Remaining
    <2>2. /\ Gone(d, n) \in Seq(Byte) /\ Len(Gone(d, n)) = n
          /\ \A i \in 1..n : Gone(d, n)[i] = d[i]
          /\ Remaining(d, n) \in Seq(Byte) /\ Len(Remaining(d, n)) = Len(d) - n
          /\ \A i \in 1..Len(d) - n : Remaining(d, n)[i] = d[n + i]
          /\ d = Gone(d, n) \o Remaining(d, n)
      BY ZenonT(40), <1>0, <2>1, SeqCut
    <2> QED
      BY <1>1, <2>1, <2>2 DEF Bytestring
  <1>2. CASE n > Len(d)
    <2>1. FirstOf(n, d) = d
      BY <1>0, <1>2, SubSeqFull DEF FirstOf, Least
    <2>2. WithoutFirst(n, d) = Nil
      BY <1>0, <1>2 DEF WithoutFirst, Nil
    <2> QED
      BY <1>0, <1>2, <2>1, <2>2, NilIs
  <1> QED
    BY <1>0, <1>1, <1>2

\* The first n bytes and the m that follow are the first n + m.
LEMMA FirstOfMore ==
    ASSUME NEW d \in Bytestring, NEW n \in 0..Len(d), NEW m \in Nat
    PROVE  FirstOf(n, d) \o FirstOf(m, WithoutFirst(n, d)) = FirstOf(n + m, d)
  <1> DEFINE f == FirstOf(n, d)
             w == WithoutFirst(n, d)
             g == FirstOf(m, w)
             h == FirstOf(n + m, d)
             L == Len(d)
  <1>0. L \in Nat /\ n \in Nat /\ n <= L /\ n + m \in Nat
    BY LengthIs
  <1>1. /\ f \in Bytestring /\ Len(f) = n /\ \A i \in 1..n : f[i] = d[i]
        /\ w \in Bytestring /\ Len(w) = L - n /\ \A i \in 1..L-n : w[i] = d[n + i]
    BY <1>0, PartsOf
  <1> DEFINE k == IF m <= L - n THEN m ELSE L - n
  <1> HIDE DEF f, w
  <1>2. g \in Bytestring /\ Len(g) = k /\ \A i \in 1..Len(g) : g[i] = w[i]
    BY <1>1, PartsOf
  <1>3. h \in Bytestring /\ Len(h) = n + k /\ \A i \in 1..Len(h) : h[i] = d[i]
    <2>1. /\ h \in Bytestring /\ Len(h) = IF n + m <= L THEN n + m ELSE L
          /\ \A i \in 1..Len(h) : h[i] = d[i]
      BY <1>0, PartsOf
    <2> QED
      BY <1>0, <2>1
  <1> HIDE DEF g, h
  <1>4. k \in Nat /\ k <= L - n
    BY <1>0
  <1> HIDE DEF k, L
  <1>5. f \in Seq(Byte) /\ g \in Seq(Byte) /\ h \in Seq(Byte)
    BY <1>1, <1>2, <1>3 DEF Bytestring
  <1> DEFINE fg == f \o g
  <1>6. /\ fg \in Seq(Byte) /\ Len(fg) = n + k
        /\ \A i \in 1..Len(f) : fg[i] = f[i]
        /\ \A i \in 1..Len(g) : fg[Len(f) + i] = g[i]
    <2>1. /\ f \o g \in Seq(Byte) /\ Len(f \o g) = Len(f) + Len(g)
          /\ \A i \in 1..Len(f) : (f \o g)[i] = f[i]
          /\ \A i \in 1..Len(g) : (f \o g)[Len(f) + i] = g[i]
      BY <1>5, ConcatProperties
    <2> QED
      BY <1>1, <1>2, <2>1
  <1> HIDE DEF fg
  <1>7. ASSUME NEW i \in 1..n + k PROVE fg[i] = h[i]
    <2>1. CASE i <= n
      <3>1. i \in 1..n /\ i \in 1..Len(f) /\ i \in 1..Len(h)
        BY <1>0, <1>1, <1>3, <1>4, <2>1
      <3> QED
        BY <1>1, <1>3, <1>6, <3>1
    <2>2. CASE i > n
      <3>1. i - n \in 1..k /\ i - n \in 1..L - n /\ n + (i - n) = i /\ i \in 1..Len(h)
        BY <1>0, <1>3, <1>4, <2>2
      <3>2. fg[n + (i - n)] = g[i - n] /\ g[i - n] = w[i - n]
        BY <1>1, <1>2, <1>6, <3>1
      <3>3. w[i - n] = d[n + (i - n)]
        BY <1>1, <3>1
      <3> QED
        BY <1>3, <3>1, <3>2, <3>3
    <2> QED
      BY <1>0, <1>4, <2>1, <2>2
  <1>8. fg = h
    BY <1>3, <1>5, <1>6, <1>7, SeqEqual
  <1> QED
    BY <1>8 DEF fg, f, g, h, w

\* How many pieces data of that length makes.
PieceCount(length) == (length + BUFFER_GRANULE - 1) \div BUFFER_GRANULE

LEMMA PieceCountFacts ==
    ASSUME NEW length \in Nat
    PROVE  /\ PieceCount(length) \in Nat
           /\ length <= PieceCount(length) * BUFFER_GRANULE
           /\ length > 0 => (PieceCount(length) - 1) * BUFFER_GRANULE < length
  <1> DEFINE G == BUFFER_GRANULE
             a == length + G - 1
             q == a \div G
             r == a % G
  <1>1. G \in Nat /\ G > 0 /\ a \in Nat
    BY GranuleSize
  <1>2. q \in Nat /\ r \in 0..G-1 /\ a = G * q + r
    <2> HIDE DEF a, G
    <2> QED
      BY <1>1
  <1>3. a = length + G - 1 /\ PieceCount(length) = q
    BY DEF PieceCount
  <1> HIDE DEF a, G, q, r
  <1> DEFINE p == q * G
  <1>4. p = G * q /\ (q - 1) * G = p - G /\ p \in Int
    BY <1>1, <1>2
  <1> HIDE DEF p
  <1>5. length <= p /\ (length > 0 => p - G < length)
    BY <1>1, <1>2, <1>3, <1>4
  <1> QED
    BY <1>2, <1>3, <1>4, <1>5 DEF p, G

LEMMA GranuleTimes ==
    ASSUME NEW a \in Nat, NEW b \in Nat
    PROVE  /\ a * BUFFER_GRANULE \in Nat
           /\ (a + 1) * BUFFER_GRANULE = a * BUFFER_GRANULE + BUFFER_GRANULE
           /\ 0 * BUFFER_GRANULE = 0
           /\ a <= b => a * BUFFER_GRANULE <= b * BUFFER_GRANULE
           /\ a >= 1 => a * BUFFER_GRANULE >= BUFFER_GRANULE
  <1> DEFINE G == BUFFER_GRANULE
  <1>1. G \in Nat
    BY GranuleSize
  <1> HIDE DEF G
  <1>2. a * G \in Nat /\ (a + 1) * G = a * G + G /\ 0 * G = 0
    BY <1>1
  <1>3. ASSUME a <= b PROVE a * G <= b * G
    <2>1. PICK c \in Nat : b = a + c
      <3>1. b - a \in Nat /\ b = a + (b - a)
        BY <1>3
      <3> QED
        BY <3>1
    <2>2. b * G = a * G + c * G /\ c * G \in Nat
      BY <1>1, <2>1
    <2> QED
      BY <1>2, <2>2
  <1>4. ASSUME a >= 1 PROVE a * G >= G
    <2>1. PICK c \in Nat : a = c + 1
      <3>1. a - 1 \in Nat /\ a = (a - 1) + 1
        BY <1>4
      <3> QED
        BY <3>1
    <2>2. a * G = c * G + G /\ c * G \in Nat
      BY <1>1, <2>1
    <2> QED
      BY <1>1, <2>2
  <1> QED
    BY <1>2, <1>3, <1>4 DEF G

\* No data makes no piece; no more than a granule's worth makes one at most.
LEMMA FewPieces ==
    ASSUME NEW length \in Nat
    PROVE  /\ length = 0 => PieceCount(length) = 0
           /\ length > 0 => PieceCount(length) > 0
           /\ length <= BUFFER_GRANULE => PieceCount(length) <= 1
  <1> DEFINE G == BUFFER_GRANULE
             q == PieceCount(length)
  <1>1. G \in Nat /\ G > 0 /\ q \in Nat /\ length <= q * G /\ (length > 0 => (q - 1) * G < length)
    BY GranuleSize, PieceCountFacts
  <1>2. ASSUME length = 0 PROVE q = 0
    <2>1. q = (G - 1) \div G
      BY <1>1, <1>2 DEF PieceCount
    <2> HIDE DEF q, G
    <2> QED
      BY <1>1, <2>1
  <1>3. ASSUME length > 0 PROVE q > 0
    <2>1. CASE q = 0
      <3>1. q * G = 0
        BY <2>1, GranuleTimes
      <3> QED
        BY <1>1, <1>3, <3>1
    <2> HIDE DEF q
    <2> QED
      BY <1>1, <2>1
  <1>4. ASSUME length <= G PROVE q <= 1
    <2>1. CASE q >= 2
      <3>1. q - 1 \in Nat /\ q - 1 >= 1
        BY <1>1, <2>1
      <3> HIDE DEF q
      <3>2. (q - 1) * G >= G
        BY <3>1, GranuleTimes
      <3>3. length > 0 /\ (q - 1) * G \in Int
        <4>1. q > 0
          BY <2>1, <1>1
        <4>2. length # 0
          BY <1>2, <4>1
        <4> QED
          BY <3>1, <4>2, GranuleTimes
      <3> HIDE DEF G
      <3> QED
        BY <1>1, <1>4, <3>2, <3>3
    <2> HIDE DEF q
    <2> QED
      BY <1>1, <2>1
  <1> QED
    BY <1>2, <1>3, <1>4

PieceOf(d, k) == FirstOf(BUFFER_GRANULE, WithoutFirst((k - 1) * BUFFER_GRANULE, d))

LEMMA PiecesFacts ==
    ASSUME NEW d \in Bytestring
    PROVE  /\ Pieces(d) \in Seq(Bytestring) /\ Len(Pieces(d)) = PieceCount(Len(d))
           /\ Len(Pieces(d)) \in Nat
           /\ \A k \in 1..Len(Pieces(d)) :
                 /\ Len(Pieces(d)[k]) > 0 /\ Len(Pieces(d)[k]) <= BUFFER_GRANULE
                 /\ k < Len(Pieces(d)) => Len(Pieces(d)[k]) = BUFFER_GRANULE
           /\ FlattenSeq(Pieces(d)) = d
  <1> DEFINE G == BUFFER_GRANULE
             L == Len(d)
             n == PieceCount(L)
             ps == Pieces(d)
  <1>1. G \in Nat /\ G > 0 /\ L \in Nat /\ n \in Nat /\ L <= n * G
        /\ (L > 0 => (n - 1) * G < L)
    BY GranuleSize, LengthIs, PieceCountFacts
  <1>2. ps = [k \in 1..n |-> PieceOf(d, k)]
    BY DEF Pieces, PieceOf, PieceCount
  <1> HIDE DEF n, ps
  <1>3. ASSUME NEW k \in 1..n
        PROVE  /\ k - 1 \in Nat /\ (k - 1) * G \in Nat /\ (k - 1) * G < L
               /\ k * G = (k - 1) * G + G
               /\ k < n => k * G < L
    <2>1. k - 1 \in Nat /\ k \in Nat /\ n - 1 \in Nat /\ k - 1 <= n - 1 /\ (k - 1) + 1 = k
          /\ (k < n => k <= n - 1)
      BY <1>1
    <2>2. /\ (k - 1) * G \in Nat /\ (k - 1) * G <= (n - 1) * G /\ (n - 1) * G \in Nat
          /\ k * G \in Nat
          /\ k <= n - 1 => k * G <= (n - 1) * G
          /\ ((k - 1) + 1) * G = (k - 1) * G + G
      BY <2>1, GranuleTimes
    <2>3. L > 0
      <3>1. n > 0
        BY <1>1
      <3>2. L # 0
        BY <1>1, <3>1, FewPieces DEF n
      <3> QED
        BY <1>1, <3>2
    <2> HIDE DEF G, L
    <2>4. (n - 1) * G < L
      BY <1>1, <2>3
    <2>5. k * G = (k - 1) * G + G
      BY <2>1, <2>2
    <2> DEFINE x == (k - 1) * G
               y == (n - 1) * G
               z == k * G
    <2>6. x \in Nat /\ y \in Nat /\ z \in Nat /\ x <= y /\ y < L /\ (k <= n - 1 => z <= y)
      BY <2>2, <2>4
    <2> HIDE DEF x, y, z
    <2>7. x < L /\ (k < n => z < L)
      BY <1>1, <2>1, <2>6
    <2> QED
      BY <2>1, <2>2, <2>5, <2>7 DEF x, z
  <1>4. ASSUME NEW k \in 1..n
        PROVE  /\ PieceOf(d, k) \in Bytestring
               /\ Len(PieceOf(d, k)) > 0 /\ Len(PieceOf(d, k)) <= G
               /\ k < n => Len(PieceOf(d, k)) = G
    <2> DEFINE x == (k - 1) * G
               w == WithoutFirst(x, d)
    <2>1. x \in Nat /\ x < L /\ (k < n => x + G < L)
      BY <1>3
    <2> HIDE DEF x
    <2>2. w \in Bytestring /\ Len(w) = L - x
      <3>1. w \in Bytestring /\ Len(w) = IF x <= L THEN L - x ELSE 0
        BY <2>1, PartsOf
      <3> QED
        BY <1>1, <2>1, <3>1
    <2> HIDE DEF w
    <2>3. FirstOf(G, w) \in Bytestring /\ Len(FirstOf(G, w)) = IF G <= Len(w) THEN G ELSE Len(w)
      BY <1>1, <2>2, PartsOf
    <2>4. Len(FirstOf(G, w)) > 0 /\ Len(FirstOf(G, w)) <= G /\ (k < n => Len(FirstOf(G, w)) = G)
      <3> HIDE DEF G, L
      <3> QED
        BY <1>1, <2>1, <2>2, <2>3
    <2> QED
      BY <2>3, <2>4 DEF PieceOf, w, x
  <1>5. ps \in Seq(Bytestring) /\ Len(ps) = n /\ \A k \in 1..n : ps[k] = PieceOf(d, k)
    BY <1>1, <1>2, <1>4
  <1>6. FlattenSeq(ps) = d
    <2>1. PICK b \in [0..n -> Bytestring] : Along(b, ps) /\ FlattenSeq(ps) = b[n]
      BY <1>5, FlatAlong
    <2>2. b[0] = Nil /\ \A k \in 1..n : b[k] = b[k-1] \o PieceOf(d, k)
      BY <1>5, <2>1 DEF Along
    <2> DEFINE P == {k \in Nat : b[k] = FirstOf(k * G, d)}
    <2>3. 0 \in P
      <3>1. 0 * G = 0 /\ FirstOf(0, d) = Nil
        <4>1. 0 * G = 0
          BY GranuleTimes
        <4>2. FirstOf(0, d) \in Bytestring /\ Len(FirstOf(0, d)) = 0
          BY <1>1, PartsOf
        <4> QED
          BY <4>1, <4>2, LengthIs
      <3> QED
        BY <2>2, <3>1
    <2>4. ASSUME NEW k \in 1..n, k - 1 \in P PROVE k \in P
      <3> DEFINE x == (k - 1) * G
      <3>1. x \in 0..L /\ k * G = x + G /\ k \in Nat
        BY <1>1, <1>3
      <3>2. b[k] = FirstOf(x, d) \o PieceOf(d, k) /\ PieceOf(d, k) = FirstOf(G, WithoutFirst(x, d))
        BY <2>2, <2>4 DEF PieceOf
      <3> HIDE DEF x
      <3>3. FirstOf(x, d) \o FirstOf(G, WithoutFirst(x, d)) = FirstOf(x + G, d)
        BY <1>1, <3>1, FirstOfMore
      <3>4. b[k] = FirstOf(k * G, d)
        BY <3>1, <3>2, <3>3
      <3> QED
        BY <3>1, <3>4
    <2>5. P \in SUBSET Nat
      OBVIOUS
    <2> HIDE DEF P
    <2>6. \A k \in 0..n : k \in P
      BY <1>1, <2>3, <2>4, <2>5, StepByStep
    <2>7. b[n] = FirstOf(n * G, d)
      BY <1>1, <2>6 DEF P
    <2>8. FirstOf(n * G, d) = d
      <3>1. Least(n * G, L) = L
        <4> DEFINE m == n * G
        <4>1. m \in Nat /\ L <= m
          BY <1>1, GranuleTimes
        <4> HIDE DEF m, L
        <4>2. Least(m, L) = L
          BY <1>1, <4>1 DEF Least
        <4> QED
          BY <4>2 DEF m
      <3>2. SubSeq(d, 1, L) = d
        BY SubSeqFull DEF Bytestring
      <3> QED
        BY <3>1, <3>2 DEF FirstOf
    <2> QED
      BY <2>1, <2>7, <2>8
  <1>7. \A k \in 1..n : Len(ps[k]) > 0 /\ Len(ps[k]) <= G /\ (k < n => Len(ps[k]) = G)
    BY <1>4, <1>5
  <1> QED
    BY <1>1, <1>5, <1>6, <1>7 DEF ps, n

\* The same strings the other way round hold as many bytes.
LEMMA ReversedFacts ==
    ASSUME NEW s \in Seq(Bytestring)
    PROVE  /\ Reverse(s) \in Seq(Bytestring) /\ Len(Reverse(s)) = Len(s)
           /\ \A k \in 1..Len(s) : Reverse(s)[k] = s[(Len(s) - k) + 1]
           /\ Len(FlattenSeq(Reverse(s))) = Len(FlattenSeq(s))
           /\ Len(s) <= 1 => Reverse(s) = s
  <1> DEFINE n == Len(s)
             r == Reverse(s)
  <1>1. n \in Nat /\ \A k \in 1..n : s[k] \in Bytestring /\ (n - k) + 1 \in 1..n
    OBVIOUS
  <1>2. r = [k \in 1..n |-> s[(n - k) + 1]]
    BY DEF Reverse
  <1>3. r \in Seq(Bytestring) /\ Len(r) = n /\ \A k \in 1..n : r[k] = s[(n - k) + 1]
    <2> HIDE DEF n, r
    <2> QED
      BY <1>1, <1>2
  <1> HIDE DEF r
  <1>4. PICK b \in [0..n -> Bytestring] : Along(b, s) /\ FlattenSeq(s) = b[n]
    BY FlatAlong
  <1>5. PICK c \in [0..n -> Bytestring] : Along(c, r) /\ FlattenSeq(r) = c[n]
    BY <1>3, FlatAlong
  <1>6. b[0] = Nil /\ \A k \in 1..n : b[k] = b[k-1] \o s[k]
    BY <1>4 DEF Along
  <1>7. c[0] = Nil /\ \A k \in 1..n : c[k] = c[k-1] \o r[k]
    BY <1>3, <1>5 DEF Along
  <1> HIDE DEF n
  <1> DEFINE P == {k \in Nat : Len(c[k]) + Len(b[n - k]) = Len(b[n])}
  <1>8. 0 \in P
    <2>1. n - 0 = n /\ n \in 0..n
      BY <1>1
    <2>2. Len(c[0]) = 0 /\ Len(b[n]) \in Nat
      BY <1>4, <1>7, <2>1, NilIs, LengthIs
    <2> QED
      BY <2>1, <2>2
  <1>9. ASSUME NEW k \in 1..n, k - 1 \in P PROVE k \in P
    <2> DEFINE j == (n - k) + 1
    <2>1. /\ k \in Nat /\ k - 1 \in 0..n /\ j \in 1..n /\ j - 1 = n - k /\ n - k \in 0..n
          /\ n - (k - 1) = j
      BY <1>1
    <2>2. c[k] = c[k-1] \o s[j]
      BY <1>3, <1>7
    <2>3. b[j] = b[n - k] \o s[j]
      <3> HIDE DEF j
      <3>1. b[j] = b[j-1] \o s[j]
        BY <1>6, <2>1
      <3> QED
        BY <2>1, <3>1
    <2>4. Len(c[k-1]) + Len(b[j]) = Len(b[n])
      BY <1>9, <2>1
    <2> HIDE DEF j
    <2>5. c[k-1] \in Bytestring /\ b[n - k] \in Bytestring /\ s[j] \in Bytestring
      BY <1>1, <1>4, <1>5, <2>1
    <2>6. /\ Len(c[k]) = Len(c[k-1]) + Len(s[j]) /\ Len(b[j]) = Len(b[n - k]) + Len(s[j])
      BY <2>2, <2>3, <2>5, Joined
    <2>7. Len(c[k]) + Len(b[n - k]) = Len(b[n])
      <3> DEFINE p == Len(c[k-1])
                 q == Len(s[j])
                 r0 == Len(b[n - k])
                 ck == Len(c[k])
                 bj == Len(b[j])
                 bn == Len(b[n])
      <3>1. p \in Nat /\ q \in Nat /\ r0 \in Nat
        BY <2>5, LengthIs
      <3>2. ck = p + q /\ bj = r0 + q /\ p + bj = bn
        BY <2>4, <2>6
      <3> HIDE DEF p, q, r0, ck, bj, bn
      <3>3. ck + r0 = bn
        BY <3>1, <3>2
      <3> QED
        BY <3>3 DEF ck, r0, bn
    <2> QED
      BY <2>1, <2>7
  <1>10. Len(c[n]) = Len(b[n])
    <2>1. P \in SUBSET Nat
      OBVIOUS
    <2> HIDE DEF P
    <2>2. \A k \in 0..n : k \in P
      BY <1>1, <1>8, <1>9, <2>1, StepByStep
    <2>3. Len(c[n]) + Len(b[n - n]) = Len(b[n])
      BY <1>1, <2>2 DEF P
    <2>4. n - n = 0 /\ n \in 0..n
      BY <1>1
    <2>5. Len(b[n - n]) = 0 /\ Len(c[n]) \in Nat
      BY <1>5, <1>6, <2>4, NilIs, LengthIs
    <2> QED
      BY <2>3, <2>5
  <1>11. ASSUME n <= 1 PROVE r = s
    <2>1. \A k \in 1..n : r[k] = s[k]
      <3>1. \A k \in 1..n : (n - k) + 1 = k
        BY <1>1, <1>11
      <3> QED
        BY <1>3, <3>1
    <2> QED
      BY <1>3, <2>1, SeqEqual DEF n
  <1> QED
    BY <1>3, <1>4, <1>5, <1>10, <1>11 DEF n, r

\* The granules that xchain_add makes, and those that xchain_pre_add makes.
AddedRow(d) == [k \in DOMAIN Pieces(d) |-> Granule(0, Pieces(d)[k])]
BeforeRow(d) == [k \in DOMAIN Pieces(d) |->
                    Granule(BUFFER_GRANULE - Len(Pieces(d)[k]), Pieces(d)[k])]

LEMMA AddedRowFacts ==
    ASSUME NEW d \in Bytestring
    PROVE  Row(AddedRow(d)) /\ ContentOf(AddedRow(d)) = d /\ (Len(d) = 0 => AddedRow(d) = Nil)
  <1> DEFINE ps == Pieces(d)
             n == Len(ps)
             gs == AddedRow(d)
             ds == RowOf(DataOf, gs)
  <1>0. /\ ps \in Seq(Bytestring) /\ n \in Nat
        /\ \A k \in 1..n : /\ Len(ps[k]) > 0 /\ Len(ps[k]) <= BUFFER_GRANULE
                           /\ k < n => Len(ps[k]) = BUFFER_GRANULE
        /\ FlattenSeq(ps) = d
        /\ n = PieceCount(Len(d))
    BY PiecesFacts
  <1>1. /\ ps \in Seq(Bytestring) /\ n \in Nat /\ DOMAIN ps = 1..n
        /\ \A k \in 1..n : /\ ps[k] \in Bytestring
                           /\ Len(ps[k]) > 0 /\ Len(ps[k]) <= BUFFER_GRANULE
                           /\ k < n => Len(ps[k]) = BUFFER_GRANULE
        /\ FlattenSeq(ps) = d
        /\ n = PieceCount(Len(d))
    <2> HIDE DEF ps
    <2>1. DOMAIN ps = 1..n /\ \A k \in 1..n : ps[k] \in Bytestring
      BY <1>0
    <2> QED
      BY <1>0, <2>1
  <1>2. gs = [k \in 1..n |-> Granule(0, ps[k])]
    BY <1>1 DEF AddedRow
  <1> HIDE DEF ps, n, gs
  <1>3. ASSUME NEW k \in 1..n
        PROVE  /\ Granule(0, ps[k]) \in GranuleType /\ DataOf[Granule(0, ps[k])] = ps[k]
               /\ k < n => Full(Granule(0, ps[k]))
    <2> DEFINE p == ps[k]
    <2>1. p \in Bytestring /\ Len(p) > 0 /\ 0 + Len(p) <= BUFFER_GRANULE
          /\ (k < n => Len(p) = BUFFER_GRANULE) /\ Len(p) \in Nat /\ 0 + Len(p) = Len(p)
      BY <1>1, LengthIs
    <2> HIDE DEF p
    <2>2. /\ Granule(0, p) \in GranuleType /\ DataOf[Granule(0, p)] = p
          /\ buflen(Granule(0, p)) = 0 + Len(p)
      BY <2>1, GranuleFacts
    <2> QED
      BY <2>1, <2>2 DEF Full, p
  <1>4. gs \in Seq(GranuleType) /\ Len(gs) = n /\ \A k \in 1..n : gs[k] = Granule(0, ps[k])
    BY <1>1, <1>2, <1>3
  <1>5. Row(gs)
    <2>1. \A k \in 1..n - 1 : k \in 1..n /\ k < n
      BY <1>1
    <2> QED
      BY <1>3, <1>4, <2>1 DEF Row
  <1>6. ds \in Seq(Bytestring) /\ Len(ds) = n /\ \A k \in 1..n : ds[k] = ps[k]
    <2>1. /\ ds \in Seq(Bytestring) /\ Len(ds) = n
          /\ \A k \in 1..n : ds[k] = DataOf[gs[k]]
      BY <1>4, DataIs, RowFacts
    <2> HIDE DEF ds
    <2> QED
      BY <1>3, <1>4, <2>1
  <1>7. ds = ps
    <2> HIDE DEF ds
    <2> QED
      BY <1>1, <1>6, SeqEqual DEF n
  <1>8. ContentOf(gs) = d
    BY <1>1, <1>7 DEF ContentOf
  <1>9. Len(d) = 0 => gs = Nil
    <2>1. Len(d) = 0 => n = 0
      BY <1>1, FewPieces, LengthIs
    <2> QED
      BY <1>4, <2>1 DEF Nil
  <1> QED
    BY <1>5, <1>8, <1>9 DEF gs

LEMMA BeforeRowFacts ==
    ASSUME NEW d \in Bytestring
    PROVE  /\ Row(Reverse(BeforeRow(d))) /\ Len(ContentOf(Reverse(BeforeRow(d)))) = Len(d)
           /\ \A k \in 1..Len(Reverse(BeforeRow(d))) : Full(Reverse(BeforeRow(d))[k])
           /\ Len(d) <= BUFFER_GRANULE => ContentOf(Reverse(BeforeRow(d))) = d
           /\ Len(d) = 0 => Reverse(BeforeRow(d)) = Nil
  <1> DEFINE ps == Pieces(d)
             n == Len(ps)
             bs == BeforeRow(d)
             gs == Reverse(bs)
             ds == RowOf(DataOf, gs)
             rs == Reverse(ps)
             G == BUFFER_GRANULE
             g(p) == Granule(G - Len(p), p)
  <1>0. /\ ps \in Seq(Bytestring) /\ n \in Nat
        /\ \A k \in 1..n : Len(ps[k]) > 0 /\ Len(ps[k]) <= G
        /\ FlattenSeq(ps) = d
        /\ n = PieceCount(Len(d))
    BY PiecesFacts
  <1>1. /\ ps \in Seq(Bytestring) /\ n \in Nat /\ DOMAIN ps = 1..n
        /\ \A k \in 1..n : /\ ps[k] \in Bytestring
                           /\ Len(ps[k]) > 0 /\ Len(ps[k]) <= G
        /\ FlattenSeq(ps) = d
        /\ n = PieceCount(Len(d))
    <2> HIDE DEF ps
    <2>1. DOMAIN ps = 1..n /\ \A k \in 1..n : ps[k] \in Bytestring
      BY <1>0
    <2> QED
      BY <1>0, <2>1
  <1>2. bs = [k \in 1..n |-> g(ps[k])]
    BY <1>1 DEF BeforeRow
  <1>3. /\ rs \in Seq(Bytestring) /\ Len(rs) = n
        /\ \A k \in 1..n : rs[k] = ps[(n - k) + 1]
        /\ Len(FlattenSeq(rs)) = Len(d)
        /\ n <= 1 => rs = ps
    BY <1>1, ReversedFacts
  <1> HIDE DEF ps, n, bs, rs
  <1>4. ASSUME NEW k \in 1..n
        PROVE  g(ps[k]) \in GranuleType /\ DataOf[g(ps[k])] = ps[k] /\ Full(g(ps[k]))
    <2> DEFINE p == ps[k]
    <2>1. /\ p \in Bytestring /\ Len(p) > 0 /\ Len(p) <= G /\ Len(p) \in Nat /\ G \in Nat
          /\ G - Len(p) \in Nat /\ (G - Len(p)) + Len(p) = G
      BY <1>1, LengthIs, GranuleSize
    <2> HIDE DEF p
    <2>2. /\ g(p) \in GranuleType /\ DataOf[g(p)] = p
          /\ buflen(g(p)) = (G - Len(p)) + Len(p)
      BY <2>1, GranuleFacts
    <2> QED
      BY <2>1, <2>2 DEF Full, p
  <1> HIDE DEF g
  <1>5. Len(bs) = n /\ \A k \in 1..n : bs[k] = g(ps[k])
    BY <1>1, <1>2
  <1>6. gs = [k \in 1..n |-> bs[(n - k) + 1]]
    BY <1>5 DEF Reverse
  <1> HIDE DEF gs
  <1>7. \A k \in 1..n : (n - k) + 1 \in 1..n
    BY <1>1
  <1>8. gs \in Seq(GranuleType) /\ Len(gs) = n /\ \A k \in 1..n : gs[k] = g(ps[(n - k) + 1])
    <2>1. \A k \in 1..n : bs[(n - k) + 1] = g(ps[(n - k) + 1])
      BY <1>5, <1>7
    <2>2. \A k \in 1..n : g(ps[(n - k) + 1]) \in GranuleType
      BY <1>4, <1>7
    <2>3. gs = [k \in 1..n |-> g(ps[(n - k) + 1])]
      BY <1>6, <2>1
    <2> DEFINE v(k) == g(ps[(n - k) + 1])
    <2>4. gs = [k \in 1..n |-> v(k)] /\ \A k \in 1..n : v(k) \in GranuleType
      BY <2>2, <2>3
    <2> HIDE DEF v
    <2>5. gs \in Seq(GranuleType) /\ Len(gs) = n /\ \A k \in 1..n : gs[k] = v(k)
      BY <1>1, <2>4
    <2> QED
      BY <2>5 DEF v
  <1>9. \A k \in 1..n : Full(gs[k])
    BY <1>4, <1>7, <1>8
  <1>10. Row(gs)
    <2>1. \A k \in 1..n - 1 : k \in 1..n
      BY <1>1
    <2> QED
      BY <1>8, <1>9, <2>1 DEF Row
  <1>11. ds \in Seq(Bytestring) /\ Len(ds) = n /\ \A k \in 1..n : ds[k] = rs[k]
    <2>1. /\ ds \in Seq(Bytestring) /\ Len(ds) = n
          /\ \A k \in 1..n : ds[k] = DataOf[gs[k]]
      BY <1>8, DataIs, RowFacts
    <2> HIDE DEF ds
    <2> QED
      BY <1>3, <1>4, <1>7, <1>8, <2>1, SMTT(60)
  <1>12. ds = rs
    <2> HIDE DEF ds
    <2> QED
      BY <1>3, <1>11, SeqEqual
  <1>13. Len(ContentOf(gs)) = Len(d)
    BY <1>3, <1>12 DEF ContentOf
  <1>14. Len(d) <= G => ContentOf(gs) = d
    <2>1. Len(d) <= G => n <= 1
      BY <1>1, FewPieces, LengthIs
    <2> QED
      BY <1>1, <1>3, <1>12, <2>1 DEF ContentOf
  <1>15. Len(d) = 0 => gs = Nil
    <2>1. Len(d) = 0 => n = 0
      BY <1>1, FewPieces, LengthIs
    <2> QED
      BY <1>8, <2>1 DEF Nil
  <1> QED
    BY <1>8, <1>9, <1>10, <1>13, <1>14, <1>15 DEF gs, bs

-----------------------------------------------------------------------------
(* The granules at the two ends are filled.                                *)

LEMMA Assembled ==
    ASSUME NEW a \in Seq(GranuleType), NEW b \in Seq(GranuleType), NEW e \in Seq(GranuleType),
           Len(e) = Len(a) + Len(b),
           \A k \in 1..Len(a) : e[k] = a[k],
           \A k \in 1..Len(b) : e[Len(a) + k] = b[k]
    PROVE  e = a \o b
  <1> DEFINE ab == a \o b
             m == Len(a)
             n == Len(b)
  <1>1. /\ ab \in Seq(GranuleType) /\ Len(ab) = m + n
        /\ \A k \in 1..m : ab[k] = a[k]
        /\ \A k \in 1..n : ab[m + k] = b[k]
    BY GranulesConcat
  <1>2. m \in Nat /\ n \in Nat
    OBVIOUS
  <1>3. Len(e) = m + n /\ (\A k \in 1..m : e[k] = a[k]) /\ (\A k \in 1..n : e[m + k] = b[k])
    OBVIOUS
  <1> HIDE DEF ab, m, n
  <1>4. ASSUME NEW k \in 1..m + n PROVE e[k] = ab[k]
    <2>1. CASE k \in 1..m
      BY <1>1, <1>3, <2>1
    <2>2. CASE k \notin 1..m
      <3>1. k - m \in 1..n /\ m + (k - m) = k
        BY <1>2, <2>2
      <3>2. ab[m + (k - m)] = b[k - m] /\ e[m + (k - m)] = b[k - m]
        BY <1>1, <1>3, <3>1
      <3> QED
        BY <3>1, <3>2
    <2> QED
      BY <2>1, <2>2
  <1>5. e = ab
    BY <1>1, <1>3, <1>4, SeqEqual
  <1> QED
    BY <1>5 DEF ab

\* All but the last, and another last one.
LEMMA LastReplaced ==
    ASSUME NEW gs \in Seq(GranuleType), gs # Nil, NEW g \in GranuleType
    PROVE  /\ [gs EXCEPT ![Len(gs)] = g] = Gone(gs, Len(gs) - 1) \o << g >>
           /\ gs = Gone(gs, Len(gs) - 1) \o << gs[Len(gs)] >>
           /\ gs[Len(gs)] \in GranuleType
           /\ Gone(gs, Len(gs) - 1) \in Seq(GranuleType)
           /\ Len(Gone(gs, Len(gs) - 1)) = Len(gs) - 1
           /\ \A k \in 1..Len(gs) - 1 : Gone(gs, Len(gs) - 1)[k] = gs[k]
           /\ Len(gs) \in Nat /\ Len(gs) > 0
  <1> DEFINE n == Len(gs)
             a == Gone(gs, n - 1)
             e == [gs EXCEPT ![n] = g]
  <1>1. n \in Nat /\ n > 0 /\ n - 1 \in 0..n /\ n \in 1..n /\ gs[n] \in GranuleType /\ (n - 1) + 1 = n
    BY DEF Nil
  <1>2. a \in Seq(GranuleType) /\ Len(a) = n - 1 /\ \A k \in 1..n - 1 : a[k] = gs[k]
    BY <1>1, SeqCut
  <1>3. /\ e \in Seq(GranuleType) /\ Len(e) = n /\ e[n] = g
        /\ \A k \in 1..n - 1 : e[k] = gs[k]
    BY <1>1
  <1> HIDE DEF n, a, e
  <1>4. ASSUME NEW h \in GranuleType, NEW f \in Seq(GranuleType), Len(f) = n, f[n] = h,
               \A k \in 1..n - 1 : f[k] = gs[k]
        PROVE  f = a \o << h >>
    <2> DEFINE one == << h >>
    <2>1. one \in Seq(GranuleType) /\ Len(one) = 1 /\ one[1] = h
      OBVIOUS
    <2> HIDE DEF one
    <2>2. /\ Len(f) = Len(a) + Len(one)
          /\ \A k \in 1..Len(a) : f[k] = a[k]
          /\ \A k \in 1..Len(one) : f[Len(a) + k] = one[k]
      <3>1. Len(f) = Len(a) + Len(one)
        BY <1>1, <1>2, <1>4, <2>1
      <3>2. \A k \in 1..Len(a) : f[k] = a[k]
        BY <1>2, <1>4
      <3>3. Len(a) + 1 = n
        BY <1>1, <1>2
      <3>4. \A k \in 1..Len(one) : f[Len(a) + k] = one[k]
        BY <1>4, <2>1, <3>3
      <3> QED
        BY <3>1, <3>2, <3>4
    <2>3. f = a \o one
      BY <1>2, <2>1, <2>2, Assembled
    <2> QED
      BY <2>3 DEF one
  <1>5. e = a \o << g >>
    BY <1>3, <1>4
  <1>6. gs = a \o << gs[n] >>
    BY <1>1, <1>4 DEF n
  <1> QED
    BY <1>1, <1>2, <1>5, <1>6 DEF n, a, e

\* Another first one, and the rest.
LEMMA FirstReplaced ==
    ASSUME NEW gs \in Seq(GranuleType), gs # Nil, NEW g \in GranuleType
    PROVE  [gs EXCEPT ![1] = g] = << g >> \o Tail(gs)
  <1> DEFINE n == Len(gs)
             one == << g >>
             t == Tail(gs)
             e == [gs EXCEPT ![1] = g]
  <1>1. n \in Nat /\ n > 0
    BY DEF Nil
  <1>2. /\ e \in Seq(GranuleType) /\ Len(e) = n /\ e[1] = g
        /\ \A k \in 1..n - 1 : e[1 + k] = gs[k + 1]
    BY <1>1
  <1>3. t \in Seq(GranuleType) /\ Len(t) = n - 1 /\ \A k \in 1..n - 1 : t[k] = gs[k + 1]
    BY <1>1
  <1>4. one \in Seq(GranuleType) /\ Len(one) = 1 /\ one[1] = g
    OBVIOUS
  <1> HIDE DEF n, one, t, e
  <1>5. /\ Len(e) = Len(one) + Len(t)
        /\ \A k \in 1..Len(one) : e[k] = one[k]
        /\ \A k \in 1..Len(t) : e[Len(one) + k] = t[k]
    BY <1>1, <1>2, <1>3, <1>4
  <1>6. e = one \o t
    BY <1>2, <1>3, <1>4, <1>5, Assembled
  <1> QED
    BY <1>6 DEF e, one, t

\* More is written behind the end of the last granule.
LastFilled(gs, f) == [gs EXCEPT ![Len(gs)].data = @ \o f]

LEMMA LastFilledFacts ==
    ASSUME NEW gs, Row(gs), gs # Nil, NEW f \in Bytestring,
           buflen(gs[Len(gs)]) + Len(f) <= BUFFER_GRANULE
    PROVE  /\ Row(LastFilled(gs, f)) /\ LastFilled(gs, f) # Nil
           /\ ContentOf(LastFilled(gs, f)) = ContentOf(gs) \o f
           /\ LET fl == LastFilled(gs, f) IN buflen(fl[Len(fl)]) = buflen(gs[Len(gs)]) + Len(f)
  <1> DEFINE n == Len(gs)
             a == Gone(gs, n - 1)
             l == gs[n]
             g == Granule(l.bufpos, l.data \o f)
             fl == LastFilled(gs, f)
  <1>1. gs \in Seq(GranuleType) /\ \A k \in 1..n - 1 : Full(gs[k])
    BY DEF Row
  <1>2. n \in Nat /\ n > 0 /\ l \in GranuleType
    BY <1>1 DEF Nil
  <1>3. /\ l \in [bufpos : Nat, data : Bytestring]
        /\ l.bufpos \in Nat /\ l.data \in Bytestring /\ Len(l.data) > 0
        /\ buflen(l) = l.bufpos + Len(l.data)
    BY <1>2 DEF GranuleType, buflen
  <1>4. /\ l.data \o f \in Bytestring /\ Len(l.data \o f) = Len(l.data) + Len(f)
        /\ Len(l.data) \in Nat /\ Len(f) \in Nat
    BY <1>3, Joined, LengthIs
  <1>5. /\ g \in GranuleType /\ g.data = l.data \o f
        /\ buflen(g) = buflen(l) + Len(f)
    <2> DEFINE p == l.bufpos
               b == l.data \o f
    <2>1. p \in Nat /\ b \in Bytestring /\ Len(b) > 0 /\ p + Len(b) = buflen(l) + Len(f)
          /\ p + Len(b) <= BUFFER_GRANULE
      BY <1>3, <1>4
    <2> HIDE DEF p, b
    <2>2. Granule(p, b) \in GranuleType /\ Granule(p, b).data = b /\ buflen(Granule(p, b)) = p + Len(b)
      BY <2>1, GranuleFacts
    <2> QED
      BY <2>1, <2>2 DEF p, b
  <1>6. fl = [gs EXCEPT ![n] = g]
    <2>1. fl = [gs EXCEPT ![n] = [l EXCEPT !.data = @ \o f]]
      BY DEF LastFilled
    <2>2. [l EXCEPT !.data = @ \o f] = g
      <3> DEFINE b == l.data \o f
      <3>1. l \in [bufpos : Nat, data : Bytestring]
        BY <1>3
      <3> HIDE DEF l, b
      <3>2. [l EXCEPT !.data = b] = [bufpos |-> l.bufpos, data |-> b]
        BY <3>1
      <3> QED
        BY <3>2 DEF Granule, b
    <2> QED
      BY <2>1, <2>2
  <1> HIDE DEF g, fl
  <1>7. /\ fl = a \o << g >> /\ gs = a \o << l >>
        /\ a \in Seq(GranuleType) /\ Len(a) = n - 1
        /\ \A k \in 1..n - 1 : a[k] = gs[k]
    BY <1>1, <1>5, <1>6, LastReplaced
  <1> HIDE DEF a, l, n
  <1>8. \A k \in 1..Len(a) : Full(a[k])
    BY <1>1, <1>7
  <1>9. Row(a) /\ (a = Nil \/ Full(a[Len(a)]))
    <2>1. Len(a) \in Nat /\ (a # Nil => Len(a) > 0) /\ \A k \in 1..Len(a) - 1 : k \in 1..Len(a)
      BY <1>7 DEF Nil
    <2> QED
      BY <1>7, <1>8, <2>1 DEF Row
  <1>10. /\ << g >> \in Seq(GranuleType) /\ ContentOf(<< g >>) = g.data /\ Row(<< g >>)
         /\ << l >> \in Seq(GranuleType) /\ ContentOf(<< l >>) = l.data
    BY <1>2, <1>5, ContentOne
  <1>11. Row(fl) /\ Len(fl) = n /\ fl[n] = g
    <2> DEFINE one == << g >>
    <2>1. Row(one) /\ Len(one) = 1 /\ one[1] = g /\ one \in Seq(GranuleType)
      BY <1>10
    <2> HIDE DEF one
    <2>2. Row(a \o one) /\ Len(a \o one) = Len(a) + Len(one)
      BY <1>9, <2>1, RowGoesOn
    <2>3. (a \o one)[Len(a) + 1] = one[1]
      BY <1>7, <2>1, GranulesConcat
    <2>4. fl = a \o one
      BY <1>7 DEF one
    <2> QED
      BY <1>2, <1>7, <2>1, <2>2, <2>3, <2>4
  <1>12. ContentOf(fl) = ContentOf(gs) \o f
    <2>1. /\ ContentOf(fl) = ContentOf(a) \o (l.data \o f)
          /\ ContentOf(gs) = ContentOf(a) \o l.data
          /\ ContentOf(a) \in Bytestring
      <3> DEFINE u == << g >>
                 w == << l >>
      <3>1. u \in Seq(GranuleType) /\ ContentOf(u) = l.data \o f
        BY <1>5, <1>10
      <3>2. w \in Seq(GranuleType) /\ ContentOf(w) = l.data
        BY <1>10
      <3>3. fl = a \o u /\ gs = a \o w
        BY <1>7
      <3> HIDE DEF u, w
      <3>4. /\ ContentOf(a \o u) = ContentOf(a) \o ContentOf(u)
            /\ ContentOf(a) \in Bytestring
        BY <1>7, <3>1, ContentConcat
      <3>5. ContentOf(a \o w) = ContentOf(a) \o ContentOf(w)
        BY <1>7, <3>2, ContentConcat
      <3> QED
        BY <3>1, <3>2, <3>3, <3>4, <3>5
    <2>2. Regroups(ContentOf(a), l.data, f)
      BY <1>3, <2>1, Regrouped
    <2> QED
      BY <2>1, <2>2 DEF Regroups
  <1>13. fl # Nil
    BY <1>2, <1>11 DEF Nil
  <1> QED
    BY <1>5, <1>11, <1>12, <1>13 DEF n, l, fl

\* The first granule becomes another that ends where it did.
LEMMA FirstChanged ==
    ASSUME NEW gs, Row(gs), gs # Nil, NEW g \in GranuleType, buflen(g) = buflen(gs[1])
    PROVE  /\ Row([gs EXCEPT ![1] = g])
           /\ ContentOf([gs EXCEPT ![1] = g]) = g.data \o ContentOf(Tail(gs))
           /\ ContentOf(Tail(gs)) \in Bytestring
  <1> DEFINE t == Tail(gs)
             one == << g >>
  <1>1. gs \in Seq(GranuleType) /\ Row(t) /\ t \in Seq(GranuleType) /\ (t = Nil \/ Full(gs[1]))
    BY FirstGranule DEF Row
  <1>2. [gs EXCEPT ![1] = g] = one \o t
    BY <1>1, FirstReplaced
  <1>3. one \in Seq(GranuleType) /\ ContentOf(one) = g.data /\ Row(one)
    BY ContentOne
  <1>4. t = Nil \/ Full(one[Len(one)])
    <2>1. Len(one) = 1 /\ one[1] = g
      OBVIOUS
    <2> HIDE DEF one, t
    <2> QED
      BY <1>1, <2>1 DEF Full
  <1> HIDE DEF one, t
  <1>5. Row(one \o t)
    BY <1>1, <1>3, <1>4, RowGoesOn
  <1>6. ContentOf(one \o t) = ContentOf(one) \o ContentOf(t) /\ ContentOf(t) \in Bytestring
    BY <1>1, <1>3, ContentConcat
  <1> QED
    BY <1>2, <1>3, <1>5, <1>6 DEF t

\* More is written before the begin of the first granule.
FirstFilled(gs, n, f) == [gs EXCEPT ![1].bufpos = @ - n, ![1].data = f \o @]

LEMMA FirstFilledFacts ==
    ASSUME NEW gs, Row(gs), gs # Nil, NEW f \in Bytestring, NEW n, n = Len(f), n <= gs[1].bufpos
    PROVE  Row(FirstFilled(gs, n, f)) /\ ContentOf(FirstFilled(gs, n, f)) = f \o ContentOf(gs)
  <1> DEFINE l == gs[1]
             t == Tail(gs)
             g == Granule(l.bufpos - n, f \o l.data)
             fl == FirstFilled(gs, n, f)
  <1>1. /\ gs \in Seq(GranuleType) /\ l \in GranuleType /\ Row(t)
        /\ Len(gs) \in Nat /\ Len(gs) > 0
        /\ t = Nil \/ Full(l)
        /\ ContentOf(gs) = l.data \o ContentOf(t)
    BY FirstGranule DEF Row
  <1> HIDE DEF t
  <1>2. /\ l \in [bufpos : Nat, data : Bytestring]
        /\ l.bufpos \in Nat /\ l.data \in Bytestring /\ Len(l.data) > 0
        /\ l.bufpos + Len(l.data) <= BUFFER_GRANULE /\ buflen(l) = l.bufpos + Len(l.data)
    BY <1>1 DEF GranuleType, buflen
  <1>3. /\ f \o l.data \in Bytestring /\ Len(f \o l.data) = n + Len(l.data)
        /\ Len(l.data) \in Nat /\ n \in Nat
    BY <1>2, Joined, LengthIs
  <1>4. g \in GranuleType /\ g.data = f \o l.data /\ buflen(g) = buflen(l)
    <2> DEFINE p == l.bufpos - n
               b == f \o l.data
    <2>1. p \in Nat /\ b \in Bytestring /\ Len(b) > 0 /\ p + Len(b) = buflen(l)
          /\ p + Len(b) <= BUFFER_GRANULE
      BY <1>2, <1>3
    <2> HIDE DEF p, b
    <2>2. Granule(p, b) \in GranuleType /\ Granule(p, b).data = b /\ buflen(Granule(p, b)) = p + Len(b)
      BY <2>1, GranuleFacts
    <2> QED
      BY <2>1, <2>2 DEF p, b
  <1>5. fl = [gs EXCEPT ![1] = g]
    <2> DEFINE p == l.bufpos - n
               b == f \o l.data
               gs1 == [gs EXCEPT ![1] = [l EXCEPT !.bufpos = p]]
    <2>0. 1 \in DOMAIN gs /\ gs = [k \in DOMAIN gs |-> gs[k]]
      BY <1>1
    <2>1. gs1[1] = [l EXCEPT !.bufpos = p] /\ gs1[1].data = l.data
      BY <1>2, <2>0
    <2>2. fl = [gs1 EXCEPT ![1] = [gs1[1] EXCEPT !.data = f \o gs1[1].data]]
      BY DEF FirstFilled
    <2>3. fl = [gs1 EXCEPT ![1] = [[l EXCEPT !.bufpos = p] EXCEPT !.data = b]]
      BY <2>1, <2>2
    <2>4. [[l EXCEPT !.bufpos = p] EXCEPT !.data = b] = g
      <3>1. l \in [bufpos : Nat, data : Bytestring]
        BY <1>2
      <3> HIDE DEF l, b, p
      <3> DEFINE m == [l EXCEPT !.bufpos = p]
      <3>2. m = [bufpos |-> p, data |-> l.data]
        BY <3>1
      <3> HIDE DEF m
      <3>3. [m EXCEPT !.data = b] = [bufpos |-> p, data |-> b]
        BY <3>2
      <3> QED
        BY <3>3 DEF Granule, m, b, p
    <2>5. fl = [gs1 EXCEPT ![1] = g]
      BY <2>3, <2>4
    <2> HIDE DEF g, fl, l, p, b
    <2> QED
      BY <2>0, <2>5
  <1> HIDE DEF g, fl
  <1>6. /\ Row(fl) /\ ContentOf(fl) = (f \o l.data) \o ContentOf(t)
        /\ ContentOf(t) \in Bytestring
    BY <1>1, <1>4, <1>5, FirstChanged DEF t
  <1> HIDE DEF l
  <1>7. Regroups(f, l.data, ContentOf(t))
    BY <1>2, <1>6, Regrouped
  <1>8. ContentOf(fl) = f \o ContentOf(gs)
    BY <1>1, <1>6, <1>7 DEF Regroups
  <1> QED
    BY <1>6, <1>8 DEF fl

\* New granules behind a row, and before it.
LEMMA RowAdded ==
    ASSUME NEW fl, Row(fl), NEW w \in Bytestring,
           Len(w) = 0 \/ fl = Nil \/ Full(fl[Len(fl)])
    PROVE  /\ Row(fl \o AddedRow(w))
           /\ ContentOf(fl \o AddedRow(w)) = ContentOf(fl) \o w
  <1> DEFINE new == AddedRow(w)
  <1>1. Row(new) /\ ContentOf(new) = w /\ (Len(w) = 0 => new = Nil)
    BY AddedRowFacts
  <1> HIDE DEF new
  <1>2. Row(fl \o new)
    BY <1>1, RowGoesOn
  <1>3. ContentOf(fl \o new) = ContentOf(fl) \o ContentOf(new)
    BY <1>1, ContentConcat DEF Row
  <1> QED
    BY <1>1, <1>2, <1>3 DEF new

LEMMA RowBefore ==
    ASSUME NEW fl, Row(fl), NEW d \in Bytestring
    PROVE  /\ Row(Reverse(BeforeRow(d)) \o fl)
           /\ Len(ContentOf(Reverse(BeforeRow(d)) \o fl)) = Len(d) + Len(ContentOf(fl))
           /\ Len(d) <= BUFFER_GRANULE =>
                 ContentOf(Reverse(BeforeRow(d)) \o fl) = d \o ContentOf(fl)
  <1> DEFINE new == Reverse(BeforeRow(d))
  <1>1. /\ Row(new) /\ Len(ContentOf(new)) = Len(d)
        /\ \A k \in 1..Len(new) : Full(new[k])
        /\ Len(d) <= BUFFER_GRANULE => ContentOf(new) = d
    BY BeforeRowFacts
  <1> HIDE DEF new
  <1>2. new \in Seq(GranuleType) /\ fl \in Seq(GranuleType)
    BY <1>1 DEF Row
  <1>3. new = Nil \/ Full(new[Len(new)])
    <2>1. new # Nil => Len(new) \in 1..Len(new)
      BY <1>2 DEF Nil
    <2> QED
      BY <1>1, <2>1
  <1>4. Row(new \o fl)
    BY <1>1, <1>3, RowGoesOn
  <1>5. /\ ContentOf(new \o fl) = ContentOf(new) \o ContentOf(fl)
        /\ ContentOf(new) \in Bytestring /\ ContentOf(fl) \in Bytestring
    BY <1>2, ContentConcat
  <1>6. Len(ContentOf(new \o fl)) = Len(d) + Len(ContentOf(fl))
    BY <1>1, <1>5, Joined
  <1> QED
    BY <1>1, <1>4, <1>5, <1>6 DEF new

-----------------------------------------------------------------------------
(* What the operations do to a chain whose granules are in a row and whose *)
(* count is that of their bytes.                                           *)

Chains == [granules : Seq(GranuleType), buffersize : Nat, update : {0, 1},
           string : Bytestring \cup {NULL}]

Sound(ch) ==
    /\ ch \in Chains
    /\ Row(ch.granules)
    /\ ch.buffersize = Len(ContentOf(ch.granules))

LEMMA SoundFacts ==
    ASSUME NEW ch, Sound(ch)
    PROVE  /\ ch \in Chains /\ Row(ch.granules) /\ ch.granules \in Seq(GranuleType)
           /\ Content(ch) = ContentOf(ch.granules) /\ Content(ch) \in Bytestring
           /\ ch.buffersize = Len(Content(ch)) /\ ch.buffersize \in Nat
           /\ (ch.granules = Nil <=> ch.buffersize = 0)
  <1>1. /\ ch \in Chains /\ ch.granules \in Seq(GranuleType) /\ Row(ch.granules)
        /\ ch.buffersize = Len(ContentOf(ch.granules)) /\ ch.buffersize \in Nat
    BY DEF Sound, Chains
  <1>2. Content(ch) = ContentOf(ch.granules) /\ Content(ch) \in Bytestring
    BY <1>1, ContentIs
  <1>3. ch.granules = Nil => ch.buffersize = 0
    BY <1>1, ContentNil
  <1>4. ASSUME ch.granules # Nil PROVE ch.buffersize # 0
    <2> DEFINE gs == ch.granules
    <2>1. Row(gs) /\ gs # Nil
      BY <1>1, <1>4
    <2> HIDE DEF gs
    <2>2. /\ gs[1] \in GranuleType /\ Tail(gs) \in Seq(GranuleType)
          /\ ContentOf(gs) = gs[1].data \o ContentOf(Tail(gs))
      BY <2>1, FirstGranule DEF Row
    <2>3. gs[1].data \in Bytestring /\ Len(gs[1].data) > 0 /\ Len(gs[1].data) \in Nat
      BY <2>2, LengthIs DEF GranuleType
    <2>4. ContentOf(Tail(gs)) \in Bytestring
      BY <2>2, ContentConcat
    <2> DEFINE b == gs[1].data
               c == ContentOf(Tail(gs))
    <2>5. b \in Bytestring /\ c \in Bytestring /\ Len(b) > 0
      BY <2>3, <2>4
    <2> HIDE DEF b, c
    <2>6. Len(b \o c) = Len(b) + Len(c) /\ Len(b) \in Nat /\ Len(c) \in Nat
      BY <2>5, Joined, LengthIs
    <2>7. Len(b \o c) # 0
      BY <2>5, <2>6
    <2> QED
      BY <1>1, <2>2, <2>7 DEF b, c, gs
  <1> QED
    BY <1>1, <1>2, <1>3, <1>4

WithGranules(ch, gs, n) == [ch EXCEPT !.granules = gs, !.buffersize = n, !.update = 1]

LEMMA WithGranulesSound ==
    ASSUME NEW ch, ch \in Chains, NEW gs, Row(gs), NEW n, n = Len(ContentOf(gs))
    PROVE  /\ Sound(WithGranules(ch, gs, n))
           /\ Content(WithGranules(ch, gs, n)) = ContentOf(gs)
           /\ WithGranules(ch, gs, n).update = 1
  <1> DEFINE c == WithGranules(ch, gs, n)
  <1>1. gs \in Seq(GranuleType) /\ n \in Nat
    <2>1. gs \in Seq(GranuleType)
      BY DEF Row
    <2> QED
      BY <2>1, ContentConcat, LengthIs
  <1>2. c \in Chains /\ c.granules = gs /\ c.buffersize = n /\ c.update = 1
    BY <1>1 DEF WithGranules, Chains
  <1> HIDE DEF c
  <1>3. Sound(c)
    BY <1>2 DEF Sound
  <1>4. Content(c) = ContentOf(gs)
    BY <1>1, <1>2, ContentIs
  <1> QED
    BY <1>2, <1>3, <1>4 DEF c

\* xchain_add puts the data behind the content.
LEMMA AddKeeps ==
    ASSUME NEW ch, Sound(ch), NEW data \in Bytestring
    PROVE  /\ Sound(Appended(ch, data)) /\ Appended(ch, data).update = 1
           /\ Content(Appended(ch, data)) = Content(ch) \o data
  <1> DEFINE gs == ch.granules
             last == Len(gs)
             room == IF last = 0 THEN 0 ELSE BUFFER_GRANULE - buflen(gs[last])
             f == FirstOf(room, data)
             w == WithoutFirst(room, data)
             filled == IF room = 0 THEN gs ELSE LastFilled(gs, f)
  <1>1. Appended(ch, data) = WithGranules(ch, filled \o AddedRow(w), ch.buffersize + Len(data))
    BY DEF Appended, AddedRow, WithGranules, LastFilled
  <1>2. /\ ch \in Chains /\ Row(gs) /\ gs \in Seq(GranuleType)
        /\ Content(ch) = ContentOf(gs) /\ Content(ch) \in Bytestring
        /\ ch.buffersize = Len(Content(ch))
    BY SoundFacts
  <1> HIDE DEF gs
  <1>3. last \in Nat /\ (last = 0 <=> gs = Nil)
    BY <1>2 DEF Nil
  <1>4. /\ room \in Nat /\ (last # 0 => room + buflen(gs[last]) = BUFFER_GRANULE)
        /\ (last # 0 => buflen(gs[last]) \in Nat)
    <2>1. CASE last = 0
      BY <2>1
    <2>2. CASE last # 0
      <3> DEFINE l == gs[last]
                 b == buflen(l)
      <3>1. l \in GranuleType
        BY <1>2, <1>3, <2>2
      <3> HIDE DEF l
      <3>2. b = l.bufpos + Len(l.data) /\ l.bufpos \in Nat /\ l.data \in Bytestring
            /\ l.bufpos + Len(l.data) <= BUFFER_GRANULE
        BY <3>1 DEF GranuleType, buflen
      <3>3. Len(l.data) \in Nat
        BY <3>2, LengthIs
      <3>4. b \in Nat /\ b <= BUFFER_GRANULE
        BY <3>2, <3>3
      <3>5. room = BUFFER_GRANULE - b
        BY <2>2 DEF l
      <3> HIDE DEF b, room
      <3>6. room \in Nat /\ room + b = BUFFER_GRANULE
        BY <3>4, <3>5, GranuleSize
      <3> QED
        BY <2>2, <3>4, <3>6 DEF b, l
    <2> QED
      BY <2>1, <2>2
  <1> HIDE DEF room
  <1>5. /\ f \in Bytestring /\ Len(f) = IF room <= Len(data) THEN room ELSE Len(data)
        /\ w \in Bytestring /\ Len(w) = IF room <= Len(data) THEN Len(data) - room ELSE 0
        /\ data = f \o w
        /\ Len(data) \in Nat
    BY <1>4, PartsOf, LengthIs
  <1> HIDE DEF f, w
  <1>6. /\ Row(filled) /\ ContentOf(filled) = ContentOf(gs) \o f
        /\ Len(w) = 0 \/ filled = Nil \/ Full(filled[Len(filled)])
    <2>1. CASE room = 0
      <3>1. filled = gs
        BY <2>1
      <3>2. Len(f) = 0
        BY <1>5, <2>1
      <3>3. f = Nil /\ ContentOf(gs) \o f = ContentOf(gs)
        BY <1>2, <1>5, <3>2, LengthIs, NilIs
      <3>4. gs = Nil \/ Full(gs[last])
        BY <1>3, <1>4, <2>1 DEF Full
      <3> QED
        BY <1>2, <3>1, <3>3, <3>4
    <2>2. CASE room # 0
      <3>1. gs # Nil /\ last # 0
        BY <1>3, <2>2 DEF room
      <3>2. buflen(gs[Len(gs)]) + Len(f) <= BUFFER_GRANULE
        <4> DEFINE b == buflen(gs[last])
                   lf == Len(f)
                   ld == Len(data)
        <4>1. b \in Nat /\ room + b = BUFFER_GRANULE /\ lf <= room /\ lf \in Nat
          BY <1>4, <1>5, <3>1, LengthIs
        <4> HIDE DEF b, lf
        <4>2. b + lf <= BUFFER_GRANULE
          BY <1>4, <4>1
        <4> QED
          BY <4>2 DEF b, lf
      <3>3. filled = LastFilled(gs, f)
        BY <2>2
      <3> HIDE DEF filled
      <3>4. /\ Row(LastFilled(gs, f))
            /\ ContentOf(LastFilled(gs, f)) = ContentOf(gs) \o f
            /\ LET fl == LastFilled(gs, f) IN buflen(fl[Len(fl)]) = buflen(gs[Len(gs)]) + Len(f)
        BY <1>2, <1>5, <3>1, <3>2, LastFilledFacts
      <3>5. Row(filled) /\ ContentOf(filled) = ContentOf(gs) \o f
            /\ buflen(filled[Len(filled)]) = buflen(gs[last]) + Len(f)
        BY <3>3, <3>4
      <3>6. ASSUME Len(w) # 0 PROVE Full(filled[Len(filled)])
        <4> DEFINE b == buflen(gs[last])
                   lf == Len(f)
        <4>1. lf = room
          BY <1>4, <1>5, <3>6
        <4>2. b \in Nat /\ room + b = BUFFER_GRANULE
          BY <1>4, <3>1
        <4>3. buflen(filled[Len(filled)]) = b + lf
          BY <3>5
        <4> HIDE DEF b, lf
        <4>4. b + lf = BUFFER_GRANULE
          BY <1>4, <4>1, <4>2
        <4> QED
          BY <4>3, <4>4 DEF Full
      <3> QED
        BY <3>5, <3>6
    <2> QED
      BY <2>1, <2>2
  <1> HIDE DEF filled
  <1>7. /\ Row(filled \o AddedRow(w))
        /\ ContentOf(filled \o AddedRow(w)) = ContentOf(filled) \o w
    BY <1>5, <1>6, RowAdded
  <1>8. ContentOf(filled \o AddedRow(w)) = Content(ch) \o data
    <2>1. Regroups(ContentOf(gs), f, w)
      BY <1>2, <1>5, Regrouped
    <2> QED
      BY <1>2, <1>5, <1>6, <1>7, <2>1 DEF Regroups
  <1>9. ch.buffersize + Len(data) = Len(ContentOf(filled \o AddedRow(w)))
    BY <1>2, <1>8, Joined
  <1> DEFINE new == filled \o AddedRow(w)
             n == ch.buffersize + Len(data)
  <1>10. Row(new) /\ n = Len(ContentOf(new)) /\ ContentOf(new) = Content(ch) \o data
         /\ Appended(ch, data) = WithGranules(ch, new, n)
    BY <1>1, <1>7, <1>8, <1>9
  <1> HIDE DEF new, n
  <1> QED
    BY <1>2, <1>10, WithGranulesSound

\* xchain_pre_add puts it before, unless it takes more than one new granule.
LEMMA PreAddKeeps ==
    ASSUME NEW ch, Sound(ch), ch.granules # Nil, NEW data \in Bytestring
    PROVE  /\ Sound(Prepended(ch, data)) /\ Prepended(ch, data).update = 1
           /\ Len(data) - ch.granules[1].bufpos <= BUFFER_GRANULE =>
                 Content(Prepended(ch, data)) = data \o Content(ch)
  <1> DEFINE gs == ch.granules
             pos == gs[1].bufpos
             copylen == Least(pos, Len(data))
             rest == Len(data) - copylen
             f == FirstOf(rest, data)
             w == WithoutFirst(rest, data)
             filled == FirstFilled(gs, copylen, w)
             new == Reverse(BeforeRow(f)) \o filled
             n == ch.buffersize + Len(data)
  <1>1. Prepended(ch, data) = WithGranules(ch, new, n)
    BY DEF Prepended, BeforeRow, WithGranules, FirstFilled
  <1>2. /\ ch \in Chains /\ Row(gs) /\ gs \in Seq(GranuleType) /\ gs # Nil
        /\ Content(ch) = ContentOf(gs) /\ Content(ch) \in Bytestring
        /\ ch.buffersize = Len(Content(ch))
    BY SoundFacts
  <1> HIDE DEF gs
  <1>3. pos \in Nat /\ Len(data) \in Nat
    <2>1. gs[1] \in GranuleType
      BY <1>2, FirstGranule
    <2> QED
      BY <2>1, LengthIs DEF GranuleType
  <1>4. /\ copylen \in Nat /\ copylen <= pos /\ rest \in Nat /\ rest <= Len(data)
        /\ Len(data) - rest = copylen
        /\ Len(data) - pos <= BUFFER_GRANULE => rest <= BUFFER_GRANULE
    <2> DEFINE ld == Len(data)
    <2>1. ld \in Nat
      BY <1>3
    <2> HIDE DEF pos, ld
    <2>2. copylen = IF pos < ld THEN pos ELSE ld
      BY DEF Least, ld
    <2> HIDE DEF copylen
    <2>3. rest = ld - copylen
      BY DEF ld
    <2> HIDE DEF rest
    <2> QED
      BY <1>3, <2>1, <2>2, <2>3, GranuleSize DEF ld
  <1> HIDE DEF copylen, rest
  <1>5. /\ f \in Bytestring /\ Len(f) = rest
        /\ w \in Bytestring /\ Len(w) = copylen
        /\ data = f \o w
    <2>1. /\ f \in Bytestring /\ Len(f) = IF rest <= Len(data) THEN rest ELSE Len(data)
          /\ w \in Bytestring /\ Len(w) = IF rest <= Len(data) THEN Len(data) - rest ELSE 0
          /\ data = f \o w
      BY <1>4, PartsOf
    <2> QED
      BY <1>4, <2>1
  <1> HIDE DEF f, w
  <1>6. Row(filled) /\ ContentOf(filled) = w \o ContentOf(gs)
    BY <1>2, <1>4, <1>5, FirstFilledFacts
  <1> HIDE DEF filled
  <1>7. /\ Row(new) /\ Len(ContentOf(new)) = Len(f) + Len(ContentOf(filled))
        /\ Len(f) <= BUFFER_GRANULE => ContentOf(new) = f \o ContentOf(filled)
    BY <1>5, <1>6, RowBefore
  <1> HIDE DEF new
  <1>8. n = Len(ContentOf(new))
    <2>1. Len(ContentOf(filled)) = Len(w) + Len(ContentOf(gs)) /\ Len(ContentOf(gs)) \in Nat
      BY <1>2, <1>5, <1>6, Joined, LengthIs
    <2>2. Len(data) = Len(f) + Len(w) /\ Len(f) \in Nat /\ Len(w) \in Nat
      BY <1>5, Joined, LengthIs
    <2> DEFINE a == Len(f)
               b == Len(w)
               c == Len(ContentOf(gs))
               ld == Len(data)
               lf == Len(ContentOf(filled))
               ln == Len(ContentOf(new))
    <2>3. /\ a \in Nat /\ b \in Nat /\ c \in Nat
          /\ ld = a + b /\ lf = b + c /\ ln = a + lf /\ n = c + ld
      BY <1>2, <1>7, <2>1, <2>2
    <2> HIDE DEF a, b, c, ld, lf, ln, n
    <2>4. n = ln
      BY <2>3
    <2> QED
      BY <2>4 DEF ln
  <1>9. ASSUME Len(data) - pos <= BUFFER_GRANULE PROVE ContentOf(new) = data \o Content(ch)
    <2>1. Len(f) <= BUFFER_GRANULE
      BY <1>4, <1>5, <1>9
    <2>2. Regroups(f, w, ContentOf(gs))
      BY <1>2, <1>5, Regrouped
    <2> QED
      BY <1>2, <1>5, <1>6, <1>7, <2>1, <2>2 DEF Regroups
  <1> HIDE DEF n
  <1>10. /\ Sound(Prepended(ch, data)) /\ Prepended(ch, data).update = 1
         /\ Content(Prepended(ch, data)) = ContentOf(new)
    BY <1>1, <1>2, <1>7, <1>8, WithGranulesSound
  <1> QED
    BY <1>9, <1>10 DEF gs

-----------------------------------------------------------------------------
(* What one round of xchain_delete takes away.                             *)

\* What is still to be deleted is there.
Ready(l) == Sound(l.ch) /\ l.len \in 0..l.ch.buffersize /\ l = [ch |-> l.ch, len |-> l.len]

\* What is to be there when it is done.
Aim(l) == WithoutFirst(l.len, Content(l.ch))

LEMMA WithoutMore ==
    ASSUME NEW a \in Bytestring, NEW b \in Bytestring, NEW n \in Nat, n >= Len(a)
    PROVE  WithoutFirst(n, a \o b) = WithoutFirst(n - Len(a), b)
  <1> DEFINE ab == a \o b
             m == Len(a)
             lb == Len(b)
             x == WithoutFirst(n, ab)
             y == WithoutFirst(n - m, b)
  <1>1. /\ ab \in Bytestring /\ Len(ab) = m + lb /\ m \in Nat /\ lb \in Nat
        /\ \A k \in 1..lb : ab[m + k] = b[k]
    <2>1. a \in Seq(Byte) /\ b \in Seq(Byte)
      BY DEF Bytestring
    <2> QED
      BY <2>1, Joined, LengthIs, ConcatProperties
  <1>2. n - m \in Nat /\ m + (n - m) = n
    BY <1>1
  <1> HIDE DEF ab
  <1>3. /\ x \in Bytestring /\ Len(x) = IF n <= Len(ab) THEN Len(ab) - n ELSE 0
        /\ \A i \in 1..Len(x) : x[i] = ab[n + i]
    BY <1>1, PartsOf
  <1> DEFINE j == n - m
  <1>4. /\ y \in Bytestring /\ Len(y) = IF j <= lb THEN lb - j ELSE 0
        /\ \A i \in 1..Len(y) : y[i] = b[j + i]
    <2>1. j \in Nat
      BY <1>2
    <2>2. y = WithoutFirst(j, b)
      OBVIOUS
    <2> HIDE DEF j
    <2> QED
      BY <2>1, <2>2, PartsOf
  <1>5. j \in Nat /\ m + j = n
    BY <1>2
  <1> HIDE DEF j, m, lb, x, y
  <1>6. Len(x) = Len(y)
    BY <1>1, <1>3, <1>4, <1>5
  <1>7. ASSUME NEW i \in 1..Len(x) PROVE x[i] = y[i]
    <2>1. j + i \in 1..lb /\ m + (j + i) = n + i /\ i \in 1..Len(y)
      BY <1>1, <1>3, <1>4, <1>5, <1>6
    <2>2. x[i] = ab[n + i] /\ ab[m + (j + i)] = b[j + i]
      BY <1>1, <1>3, <2>1
    <2> QED
      BY <1>4, <2>1, <2>2
  <1>8. x = y
    <2>1. x \in Seq(Byte) /\ y \in Seq(Byte)
      BY <1>3, <1>4 DEF Bytestring
    <2> QED
      BY <1>6, <1>7, <2>1, SeqEqual
  <1> QED
    BY <1>8 DEF x, y, ab, m

LEMMA WithoutLess ==
    ASSUME NEW a \in Bytestring, NEW b \in Bytestring, NEW n \in Nat, n <= Len(a)
    PROVE  WithoutFirst(n, a \o b) = WithoutFirst(n, a) \o b
  <1> DEFINE ab == a \o b
             m == Len(a)
             lb == Len(b)
             x == WithoutFirst(n, ab)
             w == WithoutFirst(n, a)
             y == w \o b
  <1>1. /\ ab \in Bytestring /\ Len(ab) = m + lb /\ m \in Nat /\ lb \in Nat
        /\ \A k \in 1..m : ab[k] = a[k]
        /\ \A k \in 1..lb : ab[m + k] = b[k]
    <2>1. a \in Seq(Byte) /\ b \in Seq(Byte)
      BY DEF Bytestring
    <2> QED
      BY <2>1, Joined, LengthIs, ConcatProperties
  <1> HIDE DEF ab
  <1>2. x \in Bytestring /\ Len(x) = (m + lb) - n /\ \A i \in 1..Len(x) : x[i] = ab[n + i]
    <2>1. /\ x \in Bytestring /\ Len(x) = IF n <= Len(ab) THEN Len(ab) - n ELSE 0
          /\ \A i \in 1..Len(x) : x[i] = ab[n + i]
      BY <1>1, PartsOf
    <2> QED
      BY <1>1, <2>1
  <1>3. w \in Bytestring /\ Len(w) = m - n /\ \A i \in 1..Len(w) : w[i] = a[n + i]
    <2>1. /\ w \in Bytestring /\ Len(w) = IF n <= Len(a) THEN Len(a) - n ELSE 0
          /\ \A i \in 1..Len(w) : w[i] = a[n + i]
      BY PartsOf
    <2> QED
      BY <1>1, <2>1
  <1> HIDE DEF w
  <1>4. /\ y \in Bytestring /\ Len(y) = (m - n) + lb
        /\ \A k \in 1..Len(w) : y[k] = w[k]
        /\ \A k \in 1..lb : y[Len(w) + k] = b[k]
    <2>1. w \in Seq(Byte) /\ b \in Seq(Byte)
      BY <1>3 DEF Bytestring
    <2>2. /\ w \o b \in Seq(Byte) /\ Len(w \o b) = Len(w) + Len(b)
          /\ \A k \in 1..Len(w) : (w \o b)[k] = w[k]
          /\ \A k \in 1..Len(b) : (w \o b)[Len(w) + k] = b[k]
      BY <2>1, ConcatProperties
    <2> QED
      BY <1>3, <2>2 DEF Bytestring
  <1>5. n <= m
    OBVIOUS
  <1> HIDE DEF m, lb, x, y
  <1>6. Len(x) = Len(y)
    BY <1>1, <1>2, <1>4, <1>5
  <1>7. ASSUME NEW i \in 1..Len(x) PROVE x[i] = y[i]
    <2>1. CASE i <= m - n
      <3>1. i \in 1..Len(w) /\ n + i \in 1..m
        BY <1>1, <1>2, <1>3, <1>5, <2>1
      <3> QED
        BY <1>1, <1>2, <1>3, <1>4, <3>1
    <2>2. CASE i > m - n
      <3> DEFINE k == i - (m - n)
      <3>1. k \in 1..lb /\ Len(w) + k = i /\ m + k = n + i
        BY <1>1, <1>2, <1>3, <1>5, <2>2
      <3> HIDE DEF k
      <3>2. y[Len(w) + k] = b[k] /\ ab[m + k] = b[k] /\ x[i] = ab[n + i]
        BY <1>1, <1>2, <1>4, <3>1
      <3> QED
        BY <3>1, <3>2
    <2> QED
      BY <1>1, <1>2, <1>5, <2>1, <2>2
  <1>8. x = y
    <2>1. x \in Seq(Byte) /\ y \in Seq(Byte)
      BY <1>2, <1>4 DEF Bytestring
    <2> QED
      BY <1>6, <1>7, <2>1, SeqEqual
  <1> QED
    BY <1>8 DEF x, y, ab, w

LEMMA WithoutNone ==
    ASSUME NEW d \in Bytestring
    PROVE  WithoutFirst(0, d) = d
  BY SubSeqFull, LengthIs DEF WithoutFirst, Bytestring

\* A round goes on towards the aim; what it does not finish with, it frees a granule of.
LEMMA RoundKeeps ==
    ASSUME NEW l, Ready(l)
    PROVE  /\ Ready(Round(l)) /\ Aim(Round(l)) = Aim(l)
           /\ l.len = 0 => Round(l) = l
           /\ \/ Round(l).len = 0
              \/ Len(Round(l).ch.granules) = Len(l.ch.granules) - 1
  <1> DEFINE ch == l.ch
             len == l.len
             gs == ch.granules
  <1>1. CASE len = 0
    <2>1. Round(l) = l
      BY <1>1 DEF Round
    <2> QED
      BY <1>1, <2>1
  <1>2. CASE len # 0
    <2> DEFINE first == gs[1]
               t == Tail(gs)
               d == first.data
               n == Least(len, Len(d))
               moved == Granule(first.bufpos + n, WithoutFirst(n, d))
               left == IF n = Len(d) THEN t ELSE [gs EXCEPT ![1] = moved]
               c == [ch EXCEPT !.granules = left, !.buffersize = ch.buffersize - n]
    <2>1. Round(l) = [ch |-> c, len |-> len - n]
      <3>1. Round(l) = [ch |-> [ch EXCEPT !.granules = left, !.buffersize = @ - n], len |-> len - n]
        BY <1>2 DEF Round
      <3> QED
        BY <3>1
    <2>2. /\ Sound(ch) /\ len \in Nat /\ len <= ch.buffersize /\ len > 0
          /\ ch \in Chains /\ Row(gs) /\ gs \in Seq(GranuleType) /\ gs # Nil
          /\ Content(ch) = ContentOf(gs) /\ Content(ch) \in Bytestring
          /\ ch.buffersize = Len(Content(ch)) /\ ch.buffersize \in Nat
      <3>1. Sound(ch) /\ len \in 0..ch.buffersize
        BY DEF Ready
      <3> HIDE DEF ch, len
      <3>2. /\ ch \in Chains /\ Row(gs) /\ gs \in Seq(GranuleType)
            /\ (gs = Nil <=> ch.buffersize = 0)
            /\ Content(ch) = ContentOf(gs) /\ Content(ch) \in Bytestring
            /\ ch.buffersize = Len(Content(ch)) /\ ch.buffersize \in Nat
        BY <3>1, SoundFacts
      <3> QED
        BY <1>2, <3>1, <3>2
    <2> HIDE DEF ch, len, gs
    <2>3. /\ first \in GranuleType /\ Row(t) /\ Len(t) = Len(gs) - 1
          /\ ContentOf(gs) = d \o ContentOf(t)
      BY <2>2, FirstGranule
    <2>4. /\ first.bufpos \in Nat /\ d \in Bytestring /\ Len(d) \in Nat /\ Len(d) > 0
          /\ first.bufpos + Len(d) <= BUFFER_GRANULE
          /\ buflen(first) = first.bufpos + Len(d)
          /\ ContentOf(t) \in Bytestring
      <3>1. t \in Seq(GranuleType)
        BY <2>3 DEF Row
      <3>2. ContentOf(t) \in Bytestring
        BY <3>1, ContentConcat
      <3> HIDE DEF t
      <3>3. /\ first.bufpos \in Nat /\ d \in Bytestring /\ Len(d) > 0
            /\ first.bufpos + Len(d) <= BUFFER_GRANULE
            /\ buflen(first) = first.bufpos + Len(d)
        BY <2>3 DEF GranuleType, buflen
      <3> QED
        BY <3>2, <3>3, LengthIs
    <2>5. Len(Content(ch)) = Len(d) + Len(ContentOf(t)) /\ Len(ContentOf(t)) \in Nat
      BY <2>2, <2>3, <2>4, Joined, LengthIs
    <2> HIDE DEF t
    <2>6. n = IF len < Len(d) THEN len ELSE Len(d)
      BY DEF Least
    <2>7. n \in Nat /\ n <= len /\ len - n \in Nat /\ (n # Len(d) => n = len /\ len < Len(d))
      BY SMTT(20), <2>2, <2>4, <2>6
    <2> HIDE DEF n
    <2>8. /\ Row(left) /\ Len(ContentOf(left)) = ch.buffersize - n
          /\ WithoutFirst(len - n, ContentOf(left)) = WithoutFirst(len, Content(ch))
          /\ len - n = 0 \/ Len(left) = Len(gs) - 1
      <3>1. CASE n = Len(d)
        <4>1. left = t
          BY <3>1
        <4>2. WithoutFirst(len, d \o ContentOf(t)) = WithoutFirst(len - Len(d), ContentOf(t))
          <5>1. len >= Len(d)
            BY <2>7, <3>1
          <5> QED
            BY <2>2, <2>4, <5>1, WithoutMore
        <4>3. Len(ContentOf(t)) = ch.buffersize - n
          BY <2>2, <2>4, <2>5, <3>1
        <4> HIDE DEF left
        <4> QED
          BY <2>2, <2>3, <3>1, <4>1, <4>2, <4>3
      <3>2. CASE n # Len(d)
        <4> DEFINE w == WithoutFirst(n, d)
                   p == first.bufpos + n
        <4>1. n = len /\ n < Len(d) /\ left = [gs EXCEPT ![1] = moved]
          BY <2>7, <3>2
        <4>2. w \in Bytestring /\ Len(w) = Len(d) - n
          <5>1. w \in Bytestring /\ Len(w) = IF n <= Len(d) THEN Len(d) - n ELSE 0
            BY <2>4, <2>7, PartsOf
          <5> QED
            BY <2>4, <2>7, <4>1, <5>1
        <4>3. p \in Nat /\ Len(w) > 0 /\ p + Len(w) = buflen(first) /\ p + Len(w) <= BUFFER_GRANULE
          <5> DEFINE b == first.bufpos
                     e == Len(d)
                     lw == Len(w)
                     bl == buflen(first)
          <5>1. /\ b \in Nat /\ e \in Nat /\ n \in Nat /\ n < e /\ lw = e - n
                /\ b + e <= BUFFER_GRANULE /\ bl = b + e /\ p = b + n
            BY <2>4, <2>7, <4>1, <4>2
          <5> HIDE DEF b, e, lw, bl, p
          <5>2. p \in Nat /\ lw > 0 /\ p + lw = bl /\ p + lw <= BUFFER_GRANULE
            BY <5>1, GranuleSize
          <5> QED
            BY <5>2 DEF lw, bl
        <4>4. moved \in GranuleType /\ moved.data = w /\ buflen(moved) = buflen(first)
          <5>1. moved = Granule(p, w)
            OBVIOUS
          <5> HIDE DEF p, w, moved
          <5> QED
            BY <4>2, <4>3, <5>1, GranuleFacts
        <4> HIDE DEF moved, left
        <4>5. Row(left) /\ ContentOf(left) = w \o ContentOf(t)
          BY <2>2, <4>1, <4>4, FirstChanged DEF t
        <4>6. WithoutFirst(n, d \o ContentOf(t)) = w \o ContentOf(t)
          <5>1. n <= Len(d)
            BY <2>4, <2>7, <4>1
          <5> HIDE DEF d
          <5> QED
            BY <2>4, <2>7, <5>1, WithoutLess
        <4> HIDE DEF w
        <4>7. w \o ContentOf(t) \in Bytestring /\ Len(w \o ContentOf(t)) = Len(w) + Len(ContentOf(t))
          BY <2>4, <4>2, Joined
        <4>8. WithoutFirst(0, w \o ContentOf(t)) = w \o ContentOf(t)
          BY <4>7, WithoutNone
        <4>9. len - n = 0
          BY <2>2, <4>1
        <4>10. Len(ContentOf(left)) = ch.buffersize - n
          <5> DEFINE a == Len(w)
                     b == Len(ContentOf(t))
                     e == Len(d)
          <5>1. /\ a = e - n /\ Len(ContentOf(left)) = a + b /\ ch.buffersize = e + b
                /\ a \in Int /\ b \in Nat /\ e \in Nat
            BY <2>2, <2>4, <2>5, <2>7, <4>2, <4>5, <4>7
          <5> HIDE DEF a, b, e
          <5> QED
            BY <2>7, <5>1
        <4> QED
          BY <2>2, <2>3, <4>1, <4>5, <4>6, <4>8, <4>9, <4>10
      <3> QED
        BY <3>1, <3>2
    <2> HIDE DEF left
    <2>9. left \in Seq(GranuleType) /\ ContentOf(left) \in Bytestring /\ ch.buffersize - n \in Nat
      <3>1. left \in Seq(GranuleType)
        BY <2>8 DEF Row
      <3> QED
        BY <2>8, <3>1, ContentConcat, LengthIs
    <2>10. c \in Chains /\ c.granules = left /\ c.buffersize = ch.buffersize - n
      BY <2>2, <2>9 DEF Chains
    <2> HIDE DEF c
    <2>11. Sound(c) /\ Content(c) = ContentOf(left)
      BY <2>8, <2>9, <2>10, ContentIs DEF Sound
    <2>12. len - n \in 0..c.buffersize
      BY <2>2, <2>7, <2>10
    <2> DEFINE r == [ch |-> c, len |-> len - n]
    <2>13. r.ch = c /\ r.len = len - n /\ r = [ch |-> r.ch, len |-> r.len]
      OBVIOUS
    <2>14. Round(l) = r
      BY <2>1
    <2> HIDE DEF r
    <2>15. Ready(r)
      BY <2>11, <2>12, <2>13 DEF Ready
    <2>16. Aim(r) = Aim(l)
      BY <2>8, <2>11, <2>13 DEF Aim, ch, len
    <2> QED
      BY <1>2, <2>8, <2>10, <2>13, <2>14, <2>15, <2>16 DEF ch, len, gs
  <1> QED
    BY <1>1, <1>2

\* The rounds follow one another: the function that defines them exists.
LEMMA RoundsFollow ==
    ASSUME NEW ch, Sound(ch), NEW len \in 0..ch.buffersize
    PROVE  /\ Rounds(ch, len)[0] = [ch |-> ch, len |-> len]
           /\ \A k \in 1..Len(ch.granules) : Rounds(ch, len)[k] = Round(Rounds(ch, len)[k-1])
  <1> DEFINE N == Len(ch.granules)
             x0 == [ch |-> ch, len |-> len]
             D(f) == [k \in 0..N |-> IF k = 0 THEN x0 ELSE Round(f[k-1])]
             c == CHOOSE f : f = D(f)
             S == {l \in [ch : Chains, len : Nat] : Ready(l)}
             g == [k \in 1..N |-> [l \in S |-> Round(l)]]
  <1>1. N \in Nat
    <2>1. ch.granules \in Seq(GranuleType)
      BY SoundFacts
    <2> QED
      BY <2>1
  <1>2. ASSUME NEW l, Ready(l) PROVE l \in S
    <2>1. l.ch \in Chains /\ l.len \in Nat /\ l = [ch |-> l.ch, len |-> l.len]
      <3>1. Sound(l.ch) /\ l.len \in 0..l.ch.buffersize /\ l = [ch |-> l.ch, len |-> l.len]
        BY <1>2 DEF Ready
      <3>2. l.ch \in Chains
        BY <3>1 DEF Sound
      <3> QED
        BY <3>1, <3>2
    <2> QED
      BY <1>2, <2>1
  <1>3. x0 \in S
    <2>1. x0.ch = ch /\ x0.len = len /\ x0 = [ch |-> x0.ch, len |-> x0.len]
      OBVIOUS
    <2> HIDE DEF x0, S
    <2>2. Ready(x0)
      BY <2>1 DEF Ready
    <2> QED
      BY <1>2, <2>2
  <1>4. \A l \in S : Round(l) \in S
    BY <1>2, RoundKeeps
  <1> HIDE DEF S, x0
  <1>5. g \in Steps(N, S) /\ \A k \in 1..N : \A l \in S : g[k][l] = Round(l)
    BY <1>4 DEF Steps
  <1> HIDE DEF g
  <1>6. PICK b \in [0..N -> S] : Follows(b, N, x0, g)
    BY <1>1, <1>3, <1>5, StepsExist
  <1>7. b[0] = x0 /\ \A k \in 1..N : b[k] = Round(b[k-1])
    <2>1. \A k \in 1..N : k - 1 \in 0..N
      BY <1>1
    <2> QED
      BY <1>5, <1>6, <2>1 DEF Follows
  <1>8. b = D(b)
    <2>1. \A k \in 0..N : b[k] = IF k = 0 THEN x0 ELSE Round(b[k-1])
      <3>1. \A k \in 0..N : k # 0 => k \in 1..N
        BY <1>1
      <3> QED
        BY <1>7, <3>1
    <2> HIDE DEF N
    <2> QED
      BY <1>6, <2>1
  <1>9. c = D(c)
    <2> HIDE DEF D
    <2> QED
      BY <1>8
  <1>10. Rounds(ch, len) = c
    BY DEF Rounds, x0
  <1> HIDE DEF c
  <1>11. ASSUME NEW k \in 0..N PROVE c[k] = IF k = 0 THEN x0 ELSE Round(c[k-1])
    <2>1. c[k] = D(c)[k]
      BY <1>9
    <2> QED
      BY <2>1
  <1>12. c[0] = x0 /\ \A k \in 1..N : c[k] = Round(c[k-1])
    <2>1. 0 \in 0..N /\ \A k \in 1..N : k \in 0..N /\ k # 0
      BY <1>1
    <2> QED
      BY <1>11, <2>1
  <1> QED
    BY <1>10, <1>12 DEF x0, N

\* xchain_delete takes the first bytes away.
LEMMA DeleteKeeps ==
    ASSUME NEW ch, Sound(ch), NEW len \in 0..ch.buffersize
    PROVE  /\ Sound(Deleted(ch, len)) /\ Deleted(ch, len).update = 1
           /\ Content(Deleted(ch, len)) = WithoutFirst(len, Content(ch))
  <1> DEFINE N == Len(ch.granules)
             r == Rounds(ch, len)
             x0 == [ch |-> ch, len |-> len]
  <1>1. N \in Nat
    <2>1. ch.granules \in Seq(GranuleType)
      BY SoundFacts
    <2> QED
      BY <2>1
  <1>2. r[0] = x0 /\ \A k \in 1..N : r[k] = Round(r[k-1])
    BY RoundsFollow
  <1>3. Deleted(ch, len) = [r[N].ch EXCEPT !.update = 1]
    BY DEF Deleted
  <1> HIDE DEF r
  <1>4. /\ x0.ch = ch /\ x0.len = len /\ x0 = [ch |-> x0.ch, len |-> x0.len]
        /\ Ready(x0) /\ Aim(x0) = WithoutFirst(len, Content(ch))
    <2>1. x0.ch = ch /\ x0.len = len /\ x0 = [ch |-> x0.ch, len |-> x0.len]
      OBVIOUS
    <2> HIDE DEF x0
    <2> QED
      BY <2>1 DEF Ready, Aim
  <1> HIDE DEF x0
  <1> DEFINE P == {k \in Nat : /\ Ready(r[k]) /\ Aim(r[k]) = Aim(x0)
                               /\ r[k].len = 0 \/ Len(r[k].ch.granules) = N - k}
  <1>5. 0 \in P
    <2>1. N - 0 = N
      BY <1>1
    <2> QED
      BY <1>2, <1>4, <2>1
  <1>6. ASSUME NEW k \in 1..N, k - 1 \in P PROVE k \in P
    <2> DEFINE l == r[k-1]
    <2>1. /\ Ready(l) /\ Aim(l) = Aim(x0)
          /\ l.len = 0 \/ Len(l.ch.granules) = N - (k - 1)
      BY <1>6
    <2>2. r[k] = Round(l)
      BY <1>2
    <2> HIDE DEF l
    <2>3. /\ Ready(Round(l)) /\ Aim(Round(l)) = Aim(l)
          /\ l.len = 0 => Round(l) = l
          /\ \/ Round(l).len = 0
             \/ Len(Round(l).ch.granules) = Len(l.ch.granules) - 1
      BY <2>1, RoundKeeps
    <2>4. Round(l).len = 0 \/ Len(Round(l).ch.granules) = N - k
      <3>1. CASE l.len = 0
        BY <2>3, <3>1
      <3>2. CASE l.len # 0
        <4>1. Len(l.ch.granules) = N - (k - 1) /\ (N - (k - 1)) - 1 = N - k
          BY <1>1, <2>1, <3>2
        <4> QED
          BY <2>3, <4>1
      <3> QED
        BY <3>1, <3>2
    <2>5. k \in Nat
      OBVIOUS
    <2> QED
      BY <2>1, <2>2, <2>3, <2>4, <2>5
  <1>7. P \in SUBSET Nat
    OBVIOUS
  <1>8. N \in P
    <2> HIDE DEF P, N
    <2>1. \A k \in 0..N : k \in P
      BY <1>1, <1>5, <1>6, <1>7, StepByStep
    <2>2. N \in 0..N
      BY <1>1
    <2> QED
      BY <2>1, <2>2
  <1> DEFINE l == r[N]
             c == l.ch
             e == [c EXCEPT !.update = 1]
  <1>9. Sound(c) /\ l.len \in 0..c.buffersize /\ Aim(l) = Aim(x0)
        /\ (l.len = 0 \/ Len(c.granules) = N - N)
    BY <1>8 DEF Ready
  <1> HIDE DEF l
  <1>10. /\ c \in Chains /\ Row(c.granules) /\ c.granules \in Seq(GranuleType)
         /\ Content(c) = ContentOf(c.granules) /\ Content(c) \in Bytestring
         /\ c.buffersize = Len(Content(c))
         /\ (c.granules = Nil <=> c.buffersize = 0)
    BY <1>9, SoundFacts
  <1> HIDE DEF c
  <1>11. l.len = 0
    <2>1. CASE Len(c.granules) = N - N
      <3>1. Len(c.granules) = 0
        BY <1>1, <2>1
      <3>2. c.granules = Nil
        BY <1>10, <3>1 DEF Nil
      <3>3. c.buffersize = 0
        BY <1>10, <3>2
      <3> QED
        BY <1>9, <3>3
    <2> QED
      BY <1>9, <2>1
  <1>12. Content(c) = WithoutFirst(len, Content(ch))
    <2>1. Aim(l) = WithoutFirst(0, Content(c))
      BY <1>11 DEF Aim, c
    <2>2. WithoutFirst(0, Content(c)) = Content(c)
      BY <1>10, WithoutNone
    <2> QED
      BY <1>4, <1>9, <2>1, <2>2
  <1>13. /\ e \in Chains /\ e.granules = c.granules /\ e.buffersize = c.buffersize
         /\ e.update = 1
    BY <1>10 DEF Chains
  <1>14. Deleted(ch, len) = e
    BY <1>3 DEF c, l
  <1> HIDE DEF e
  <1>15. Sound(e) /\ Content(e) = Content(c)
    <2>1. Sound(e)
      BY <1>10, <1>13 DEF Sound
    <2>2. Content(e) = ContentOf(e.granules)
      BY <2>1, SoundFacts
    <2> QED
      BY <1>10, <1>13, <2>1, <2>2
  <1> QED
    BY <1>12, <1>13, <1>14, <1>15

-----------------------------------------------------------------------------
(* The chain is a queue.                                                   *)

\* The count and the form of the row are what add, pre_add and delete go by; that nothing
\* has changed since the string was made (update = 0) is only ever said of an empty chain
\* without one.
ChainInv ==
    /\ Sound(chain)
    /\ Content(chain) = queue
    /\ chain.update = 0 => chain.granules = Nil /\ chain.string = NULL
    /\ read[1] = read[2]

LEMMA DataAreBytes == \A data \in Data : data \in Bytestring
  BY ChainAssumption DEF Bytestring, Byte

LEMMA EmptyChain ==
    /\ Sound(xchain_init) /\ Content(xchain_init) = Nil
    /\ xchain_init.granules = Nil /\ xchain_init.string = NULL
  <1>1. /\ xchain_init \in Chains /\ xchain_init.granules = Nil /\ xchain_init.buffersize = 0
        /\ xchain_init.string = NULL
    BY ContentNil DEF xchain_init, Chains, Nil
  <1>2. ContentOf(Nil) = Nil /\ Len(Nil) = 0 /\ Row(Nil)
    BY ContentNil
  <1>3. Sound(xchain_init)
    BY <1>1, <1>2 DEF Sound
  <1>4. Content(xchain_init) = ContentOf(xchain_init.granules)
    BY <1>3, SoundFacts
  <1> QED
    BY <1>1, <1>2, <1>3, <1>4

LEMMA NothingRead == Unread[1] = Unread[2]
  BY DEF Unread

LEMMA InitChainInv == ChainInit => ChainInv
  BY EmptyChain, NothingRead DEF ChainInit, ChainInv, Nil

LEMMA AddStep ==
    ASSUME ChainInv, NEW data \in Data, xchain_add(data)
    PROVE  ChainInv'
  <1>1. /\ Sound(chain) /\ Content(chain) = queue /\ data \in Bytestring
        /\ chain' = Appended(chain, data) /\ queue' = queue \o data /\ read' = Unread
    BY DataAreBytes DEF ChainInv, xchain_add
  <1>2. /\ Sound(Appended(chain, data)) /\ Appended(chain, data).update = 1
        /\ Content(Appended(chain, data)) = Content(chain) \o data
    BY <1>1, AddKeeps
  <1>3. Sound(chain') /\ chain'.update = 1 /\ Content(chain') = queue' /\ read'[1] = read'[2]
    BY <1>1, <1>2, NothingRead
  <1> QED
    BY <1>3 DEF ChainInv

LEMMA PreAddStep ==
    ASSUME ChainInv, NEW data \in Data, xchain_pre_add(data)
    PROVE  ChainInv'
  <1> DEFINE gs == chain.granules
             room == IF gs = Nil THEN Len(data) ELSE gs[1].bufpos
  <1>1. /\ Sound(chain) /\ Content(chain) = queue /\ data \in Bytestring
        /\ chain' = IF chain.buffersize <= 0 THEN Appended(chain, data) ELSE Prepended(chain, data)
        /\ queue' = IF Len(data) - room <= BUFFER_GRANULE THEN data \o queue ELSE Content(chain')
        /\ read' = Unread
    BY DataAreBytes DEF ChainInv, xchain_pre_add, Nil
  <1>2. /\ Content(chain) \in Bytestring /\ chain.buffersize \in Nat
        /\ (gs = Nil <=> chain.buffersize = 0)
        /\ chain.buffersize = Len(Content(chain))
    BY <1>1, SoundFacts
  <1>3. CASE chain.buffersize <= 0
    <2>1. gs = Nil /\ queue = Nil
      <3>1. chain.buffersize = 0
        BY <1>2, <1>3
      <3> QED
        BY <1>1, <1>2, <3>1, LengthIs
    <2>2. /\ Sound(Appended(chain, data)) /\ Appended(chain, data).update = 1
          /\ Content(Appended(chain, data)) = Content(chain) \o data
      BY <1>1, AddKeeps
    <2>3. chain' = Appended(chain, data)
      BY <1>1, <1>3
    <2>4. queue' = data \o queue
      <3>1. Len(data) \in Nat /\ room = Len(data)
        BY <1>1, <2>1, LengthIs
      <3> HIDE DEF room
      <3>2. Len(data) - room <= BUFFER_GRANULE
        BY <3>1, GranuleSize
      <3> QED
        BY <1>1, <3>2
    <2>5. Content(chain') = queue'
      BY <1>1, <2>1, <2>2, <2>3, <2>4, NilIs
    <2>6. Sound(chain') /\ chain'.update = 1 /\ read'[1] = read'[2]
      BY <1>1, <2>2, <2>3, NothingRead
    <2> QED
      BY <2>5, <2>6 DEF ChainInv
  <1>4. CASE ~ (chain.buffersize <= 0)
    <2>1. gs # Nil /\ room = gs[1].bufpos
      BY <1>2, <1>4
    <2>2. /\ Sound(Prepended(chain, data)) /\ Prepended(chain, data).update = 1
          /\ Len(data) - gs[1].bufpos <= BUFFER_GRANULE =>
                Content(Prepended(chain, data)) = data \o Content(chain)
      BY <1>1, <2>1, PreAddKeeps
    <2>3. chain' = Prepended(chain, data)
      BY <1>1, <1>4
    <2> HIDE DEF room
    <2>4. Content(chain') = queue'
      BY <1>1, <2>1, <2>2, <2>3
    <2>5. Sound(chain') /\ chain'.update = 1 /\ read'[1] = read'[2]
      BY <1>1, <2>2, <2>3, NothingRead
    <2> QED
      BY <2>4, <2>5 DEF ChainInv
  <1> QED
    BY <1>3, <1>4

\* To take more than there is, is to take all.
LEMMA NoMoreThanThere ==
    ASSUME NEW d \in Bytestring, NEW n \in Nat
    PROVE  /\ Least(n, Len(d)) \in 0..Len(d)
           /\ WithoutFirst(Least(n, Len(d)), d) = WithoutFirst(n, d)
           /\ FirstOf(Least(n, Len(d)), d) = FirstOf(n, d)
  <1> DEFINE m == Len(d)
             j == Least(n, m)
  <1>1. m \in Nat
    BY LengthIs
  <1> HIDE DEF m
  <1>2. j = IF n < m THEN n ELSE m
    BY DEF Least
  <1> HIDE DEF j
  <1>3. j \in 0..m /\ (j = n \/ (j = m /\ n >= m))
    BY <1>1, <1>2
  <1>4. CASE j = n
    BY <1>3, <1>4 DEF j, m
  <1>5. CASE j = m /\ n >= m
    <2>1. /\ WithoutFirst(j, d) \in Bytestring /\ WithoutFirst(n, d) \in Bytestring
          /\ Len(WithoutFirst(j, d)) = (IF j <= m THEN m - j ELSE 0)
          /\ Len(WithoutFirst(n, d)) = (IF n <= m THEN m - n ELSE 0)
      BY <1>3, PartsOf DEF m
    <2>2. Len(WithoutFirst(j, d)) = 0 /\ Len(WithoutFirst(n, d)) = 0
      BY <1>1, <1>5, <2>1
    <2>3. WithoutFirst(j, d) = WithoutFirst(n, d)
      BY <2>1, <2>2, LengthIs
    <2>4. FirstOf(j, d) = FirstOf(n, d)
      <3>1. Least(j, m) = m /\ Least(n, m) = m
        BY <1>1, <1>5 DEF Least
      <3> QED
        BY <3>1 DEF FirstOf, m
    <2> QED
      BY <1>3, <2>3, <2>4 DEF j, m
  <1> QED
    BY <1>3, <1>4, <1>5

LEMMA DeleteStep ==
    ASSUME ChainInv, NEW n \in Nat, xchain_delete(n)
    PROVE  ChainInv'
  <1> DEFINE len == Least(n, chain.buffersize)
  <1>1. /\ Sound(chain) /\ Content(chain) = queue
        /\ chain' = Deleted(chain, len) /\ queue' = WithoutFirst(n, queue) /\ read' = Unread
    BY DEF ChainInv, xchain_delete
  <1>2. Content(chain) \in Bytestring /\ chain.buffersize = Len(Content(chain))
    BY <1>1, SoundFacts
  <1>3. len \in 0..chain.buffersize /\ WithoutFirst(len, queue) = WithoutFirst(n, queue)
    BY <1>1, <1>2, NoMoreThanThere
  <1> HIDE DEF len
  <1>4. /\ Sound(Deleted(chain, len)) /\ Deleted(chain, len).update = 1
        /\ Content(Deleted(chain, len)) = WithoutFirst(len, Content(chain))
    BY <1>1, <1>3, DeleteKeeps
  <1>5. Sound(chain') /\ chain'.update = 1 /\ Content(chain') = queue' /\ read'[1] = read'[2]
    BY <1>1, <1>3, <1>4, NothingRead
  <1> QED
    BY <1>5 DEF ChainInv

LEMMA GetStep ==
    ASSUME ChainInv, NEW n \in Nat, xchain_get(n)
    PROVE  ChainInv'
  <1>1. /\ Sound(chain) /\ Content(chain) = queue
        /\ read' = << Got(chain, n), FirstOf(n, queue) >> /\ UNCHANGED << chain, queue >>
    BY DEF ChainInv, xchain_get
  <1>2. Content(chain) \in Bytestring /\ chain.buffersize = Len(Content(chain))
    BY <1>1, SoundFacts
  <1>3. Got(chain, n) = FirstOf(n, queue)
    <2>1. FirstOf(Least(n, Len(queue)), queue) = FirstOf(n, queue)
      BY <1>1, <1>2, NoMoreThanThere
    <2> QED
      BY <1>1, <1>2, <2>1 DEF Got
  <1>4. read'[1] = read'[2]
    BY <1>1, <1>3
  <1> QED
    BY <1>1, <1>4 DEF ChainInv

LEMMA StrStep ==
    ASSUME ChainInv, xchain_str
    PROVE  ChainInv'
  <1> DEFINE new == IF chain.buffersize = 0 THEN NULL ELSE Got(chain, chain.buffersize)
             string == IF chain.update = 0 /\ chain.string # NULL THEN chain.string ELSE new
             there == IF queue = Nil THEN NULL ELSE queue
  <1>1. /\ Sound(chain) /\ Content(chain) = queue
        /\ chain.update = 0 => chain.granules = Nil /\ chain.string = NULL
        /\ chain' = [chain EXCEPT !.string = string]
        /\ read' = << string, there >> /\ queue' = queue
    BY DEF ChainInv, xchain_str, Nil
  <1>2. /\ queue \in Bytestring /\ chain.buffersize = Len(queue) /\ chain.buffersize \in Nat
        /\ chain \in Chains
    BY <1>1, SoundFacts
  <1>3. string = new
    BY <1>1
  <1>4. new = there
    <2>1. CASE queue = Nil
      BY <1>2, <2>1, NilIs
    <2>2. CASE queue # Nil
      <3>1. chain.buffersize # 0
        BY <1>2, <2>2, LengthIs
      <3>2. Got(chain, chain.buffersize) = queue
        <4> DEFINE m == Len(queue)
        <4>1. Least(m, m) = m
          BY DEF Least
        <4>2. FirstOf(m, queue) = queue
          BY <1>2, <4>1, SubSeqFull DEF FirstOf, Bytestring
        <4> HIDE DEF m
        <4>3. Got(chain, m) = FirstOf(Least(m, m), queue)
          BY <1>1, <1>2 DEF Got, m
        <4> QED
          BY <1>2, <4>1, <4>2, <4>3 DEF m
      <3> QED
        BY <2>2, <3>1, <3>2
    <2> QED
      BY <2>1, <2>2
  <1> HIDE DEF new, string
  <1>5. there \in Bytestring \cup {NULL}
    BY <1>2
  <1>6. read'[1] = read'[2] /\ string = there
    BY <1>1, <1>3, <1>4
  <1> HIDE DEF there
  <1> DEFINE c == [chain EXCEPT !.string = string]
  <1>7. /\ c \in Chains /\ c.granules = chain.granules /\ c.buffersize = chain.buffersize
        /\ c.update = chain.update /\ c.string = string
    BY <1>2, <1>5, <1>6 DEF Chains
  <1>8. chain' = c
    BY <1>1
  <1> HIDE DEF c
  <1>9. Sound(c) /\ Content(c) = Content(chain)
    <2>1. Sound(c)
      BY <1>1, <1>7 DEF Sound
    <2> QED
      BY <1>1, <1>7, <2>1, SoundFacts
  <1>10. c.update = 0 => c.granules = Nil /\ c.string = NULL
    <2>1. ASSUME c.update = 0 PROVE string = NULL
      <3>1. chain.granules = Nil
        BY <1>1, <1>7, <2>1
      <3>2. chain.buffersize = 0
        BY <1>1, <3>1, SoundFacts
      <3> QED
        BY <1>3, <3>2 DEF new
    <2> QED
      BY <1>1, <1>7, <2>1
  <1> QED
    BY <1>1, <1>6, <1>8, <1>9, <1>10 DEF ChainInv

LEMMA ResetStep ==
    ASSUME xchain_reset
    PROVE  ChainInv'
  <1>1. chain' = xchain_init /\ queue' = Nil /\ read' = Unread
    BY DEF xchain_reset, Nil
  <1> QED
    BY <1>1, EmptyChain, NothingRead DEF ChainInv

LEMMA NextChainInv == ChainInv /\ [ChainNext]_chainVars => ChainInv'
  <1> SUFFICES ASSUME ChainInv, [ChainNext]_chainVars PROVE ChainInv'
    OBVIOUS
  <1>1. CASE \E data \in Data : xchain_add(data) \/ xchain_pre_add(data)
    BY <1>1, AddStep, PreAddStep
  <1>2. CASE \E n \in 1..MaxQueue : xchain_delete(n) \/ xchain_get(n)
    <2>1. \A n \in 1..MaxQueue : n \in Nat
      BY ChainAssumption
    <2> QED
      BY <1>2, <2>1, DeleteStep, GetStep
  <1>3. CASE xchain_str
    BY <1>3, StrStep
  <1>4. CASE xchain_reset
    BY <1>4, ResetStep
  <1>5. CASE UNCHANGED chainVars
    BY <1>5 DEF chainVars, ChainInv, Content
  <1> QED
    BY <1>1, <1>2, <1>3, <1>4, <1>5 DEF ChainNext

LEMMA InvQueue == ChainInv => ChainIsQueue
  <1> SUFFICES ASSUME ChainInv PROVE ChainIsQueue
    OBVIOUS
  <1> DEFINE gs == chain.granules
  <1>1. Sound(chain) /\ Content(chain) = queue /\ read[1] = read[2]
    BY DEF ChainInv
  <1>2. Row(gs) /\ chain.buffersize = Len(queue)
    BY <1>1, SoundFacts
  <1> HIDE DEF gs
  <1>3. gs \in Seq(GranuleType) /\ DOMAIN gs = 1..Len(gs) /\ Len(gs) \in Nat
        /\ \A k \in 1..Len(gs) - 1 : Full(gs[k])
    BY <1>2 DEF Row
  <1>4. ASSUME NEW k \in DOMAIN gs
        PROVE  /\ gs[k].data # << >> /\ buflen(gs[k]) <= BUFFER_GRANULE
               /\ k < Len(gs) => buflen(gs[k]) = BUFFER_GRANULE
    <2>1. gs[k] \in GranuleType
      BY <1>3
    <2>2. gs[k].data # << >> /\ buflen(gs[k]) <= BUFFER_GRANULE
      <3>1. Len(gs[k].data) > 0
        BY <2>1 DEF GranuleType
      <3>2. gs[k].data # << >>
        BY <3>1, NilIs DEF Nil
      <3> QED
        BY <2>1, <3>2 DEF GranuleType, buflen
    <2>3. k < Len(gs) => k \in 1..Len(gs) - 1
      BY <1>3
    <2> QED
      BY <1>3, <2>2, <2>3 DEF Full
  <1> QED
    BY <1>1, <1>2, <1>4 DEF ChainIsQueue, gs

\* For every size of granules and all data: whatever is added at both ends, taken away
\* and read in between, the chain (xchain_add, xchain_pre_add, xchain_delete, xchain_get,
\* xchain_str, xchain.cpp) holds and gives the bytes of a queue, its count is theirs, and
\* no granule is empty or overfull, or has room inside the row.
THEOREM ChainStaysQueue == ChainSpec => []ChainIsQueue
  <1>1. ChainSpec => []ChainInv
    BY InitChainInv, NextChainInv, PTL DEF ChainSpec
  <1> QED
    BY <1>1, InvQueue, PTL

-----------------------------------------------------------------------------
(* Where an element is.                                                    *)

LEMMA PlaceFacts ==
    ASSUME NEW i \in Nat
    PROVE  /\ i \div CELL_SIZE \in Nat /\ i % CELL_SIZE \in 0..(CELL_SIZE - 1)
           /\ i = (i \div CELL_SIZE) * CELL_SIZE + (i % CELL_SIZE)
  <1>1. CELL_SIZE \in Nat \ {0}
    BY CellAssumption
  <1>2. i \div CELL_SIZE \in Nat
    BY <1>1
  <1>3. i % CELL_SIZE \in 0..(CELL_SIZE - 1)
    BY <1>1
  <1>4. i = (i \div CELL_SIZE) * CELL_SIZE + (i % CELL_SIZE)
    BY <1>1
  <1> QED
    BY <1>2, <1>3, <1>4

LEMMA CellsGrow ==
    ASSUME NEW a \in Nat, NEW b \in Nat, NEW c \in Nat, a <= b
    PROVE  a * c <= b * c
  <1>1. PICK d \in Nat : b = a + d
    BY b - a \in Nat
  <1>2. b * c = a * c + d * c
    BY <1>1
  <1>3. d * c \in Nat /\ a * c \in Nat
    OBVIOUS
  <1> QED
    BY <1>2, <1>3

LEMMA PlaceWithin ==
    ASSUME NEW i \in Nat, NEW n \in Nat, i < n * CELL_SIZE
    PROVE  (i \div CELL_SIZE) + 1 \in 1..n
  <1> DEFINE q == i \div CELL_SIZE
  <1>1. q \in Nat /\ i >= q * CELL_SIZE
    BY PlaceFacts, CellAssumption
  <1> HIDE DEF q
  <1>2. CASE q >= n
    <2>1. n * CELL_SIZE <= q * CELL_SIZE
      BY <1>1, <1>2, CellsGrow, CellAssumption
    <2>2. n * CELL_SIZE \in Nat /\ q * CELL_SIZE \in Nat
      BY <1>1, CellAssumption
    <2> QED
      BY <1>1, <2>1, <2>2
  <1>3. q < n => q + 1 \in 1..n
    BY <1>1
  <1> QED
    BY <1>1, <1>2, <1>3 DEF q

\* Rounding up gives at least what is needed.
LEMMA RoundedUp ==
    ASSUME NEW n \in Nat
    PROVE  RoundUp(n) \in Nat /\ RoundUp(n) >= n
  <1> DEFINE m == n + CELL_SIZE - 1
  <1>1. m \in Nat
    BY CellAssumption
  <1>2. /\ m \div CELL_SIZE \in Nat /\ m % CELL_SIZE <= CELL_SIZE - 1 /\ m % CELL_SIZE \in Nat
        /\ m = (m \div CELL_SIZE) * CELL_SIZE + (m % CELL_SIZE)
    BY <1>1, PlaceFacts, CellAssumption
  <1>3. (m \div CELL_SIZE) * CELL_SIZE \in Nat
    BY <1>2, CellAssumption
  <1>4. n = m + 1 - CELL_SIZE
    BY CellAssumption
  <1>5. RoundUp(n) = (m \div CELL_SIZE) * CELL_SIZE
    BY DEF RoundUp
  <1> HIDE DEF m
  <1> QED
    BY <1>1, <1>2, <1>3, <1>4, <1>5, CellAssumption

-----------------------------------------------------------------------------
(* One array of pointers.                                                  *)

\* The cells are those of all indices below the size, what lies behind is as it was made,
\* and the pointers to the cells have their room.
CellsSound(p, S) ==
    /\ p \in Pointers(S)
    /\ p.size <= Len(p.cells) * CELL_SIZE
    /\ \A a \in 1..Len(p.cells), b \in 0..(CELL_SIZE - 1) :
          (a - 1) * CELL_SIZE + b >= p.size => p.cells[a][b] = Zero
    /\ Roomy(p)

ValueAt(p, i) == xarrayp_get(p, i)[2]

LEMMA ValueIs ==
    ASSUME NEW p, NEW i
    PROVE  ValueAt(p, i) = IF i >= p.size THEN Zero
                           ELSE p.cells[(i \div CELL_SIZE) + 1][i % CELL_SIZE]
  BY DEF ValueAt, xarrayp_get

\* An element that has no place among the cells, or one behind the size, is zero.
LEMMA ValueBehind ==
    ASSUME NEW S, NEW p, CellsSound(p, S), NEW k \in Nat
    PROVE  /\ ((k \div CELL_SIZE) + 1 \in 1..Len(p.cells) =>
                  ValueAt(p, k) = p.cells[(k \div CELL_SIZE) + 1][k % CELL_SIZE])
           /\ ((k \div CELL_SIZE) + 1 \notin 1..Len(p.cells) => ValueAt(p, k) = Zero)
           /\ (k < p.size => (k \div CELL_SIZE) + 1 \in 1..Len(p.cells))
  <1> DEFINE a == (k \div CELL_SIZE) + 1
             b == k % CELL_SIZE
  <1>1. /\ a \in Nat /\ b \in 0..(CELL_SIZE - 1) /\ (a - 1) * CELL_SIZE + b = k
    <2>1. k \div CELL_SIZE \in Nat /\ b \in 0..(CELL_SIZE - 1)
      BY PlaceFacts
    <2>2. (k \div CELL_SIZE) * CELL_SIZE + b = k
      BY PlaceFacts
    <2>3. a - 1 = k \div CELL_SIZE /\ a \in Nat
      BY <2>1
    <2> HIDE DEF a, b
    <2> QED
      BY <2>1, <2>2, <2>3
  <1>2. p.size \in Nat /\ Len(p.cells) \in Nat /\ p.size <= Len(p.cells) * CELL_SIZE
    BY DEF CellsSound, Pointers
  <1>3. Len(p.cells) * CELL_SIZE \in Nat
    BY <1>2, CellAssumption
  <1>4. k < p.size => a \in 1..Len(p.cells)
    <2> SUFFICES ASSUME k < p.size PROVE a \in 1..Len(p.cells)
      OBVIOUS
    <2>1. k < Len(p.cells) * CELL_SIZE
      BY <1>2, <1>3
    <2> QED
      BY <1>2, <2>1, PlaceWithin
  <1>5. ValueAt(p, k) = IF k >= p.size THEN Zero ELSE p.cells[a][b]
    BY ValueIs
  <1>6. a \in 1..Len(p.cells) /\ k >= p.size => p.cells[a][b] = Zero
    BY <1>1 DEF CellsSound
  <1> HIDE DEF a, b
  <1>7. /\ (a \in 1..Len(p.cells) => ValueAt(p, k) = p.cells[a][b])
        /\ (a \notin 1..Len(p.cells) => ValueAt(p, k) = Zero)
    BY <1>2, <1>4, <1>5, <1>6
  <1> QED
    BY <1>4, <1>7 DEF a, b

\* The cell of an index, how many cells there are once it is set, and those that were
\* there before and the new ones.
CellOf(i) == (i \div CELL_SIZE) + 1
Count(p, i) == Greater(Len(p.cells), CellOf(i))
Extended(p, i) == [k \in 1..Count(p, i) |-> IF k <= Len(p.cells) THEN p.cells[k] ELSE NewCell]
Written(p, i, v) == [Extended(p, i) EXCEPT ![CellOf(i)][i % CELL_SIZE] = v]
RoomAfter(p, i) ==
    IF CellOf(i) * PtrSize > p.array_size THEN RoundUp(CellOf(i) * PtrSize) ELSE p.array_size

\* What xarrayp_set leaves, in the order of its statements.
LEMMA SetIs ==
    ASSUME NEW p, NEW i, NEW v, NEW set, set = xarrayp_set(p, i, v)
    PROVE  /\ set = [cells |-> Written(p, i, v), array_size |-> RoomAfter(p, i),
                     size |-> Greater(p.size, i + 1)]
           /\ set.cells = Written(p, i, v)
           /\ set.array_size = RoomAfter(p, i)
           /\ set.size = Greater(p.size, i + 1)
  <1> DEFINE cells == Written(p, i, v)
             room == RoomAfter(p, i)
             size == Greater(p.size, i + 1)
  <1>1. set = [cells |-> cells, array_size |-> room, size |-> size]
    BY Zenon DEF xarrayp_set, array_count, CellOf, Count, Extended, Written, RoomAfter
  <1> HIDE DEF cells, room, size
  <1>2. set.cells = cells /\ set.array_size = room /\ set.size = size
    BY <1>1
  <1> QED
    BY <1>1, <1>2 DEF cells, room, size

\* The cells after it: those that were there, new ones, and in one of them the value.
CellsAre(cells, p, i, v, S) ==
    /\ CellOf(i) \in 1..Count(p, i) /\ Count(p, i) \in Nat /\ Count(p, i) >= Len(p.cells)
    /\ cells \in Seq([0..(CELL_SIZE - 1) -> S]) /\ Len(cells) = Count(p, i)
    /\ \A k \in 1..Count(p, i), b \in 0..(CELL_SIZE - 1) :
          cells[k][b] = IF k = CellOf(i) /\ b = i % CELL_SIZE THEN v
                        ELSE IF k <= Len(p.cells) THEN p.cells[k][b] ELSE Zero

LEMMA SetCells ==
    ASSUME NEW S, Zero \in S, NEW p, CellsSound(p, S), NEW i \in Nat, NEW v \in S
    PROVE  CellsAre(xarrayp_set(p, i, v).cells, p, i, v, S)
  <1> DEFINE a == CellOf(i)
             c == i % CELL_SIZE
             n == Count(p, i)
             Cell == [0..(CELL_SIZE - 1) -> S]
             old == Extended(p, i)
             cells == xarrayp_set(p, i, v).cells
  <1>1. a \in Nat /\ a >= 1 /\ c \in 0..(CELL_SIZE - 1)
    BY PlaceFacts DEF CellOf
  <1>2. Len(p.cells) \in Nat /\ p.cells \in Seq(Cell)
    BY DEF CellsSound, Pointers
  <1>3. a \in 1..n /\ n \in Nat /\ n >= Len(p.cells)
    BY <1>1, <1>2 DEF Greater, Count
  <1>4. NewCell \in Cell /\ \A b \in 0..(CELL_SIZE - 1) : NewCell[b] = Zero
    BY DEF NewCell
  <1>5. cells = [old EXCEPT ![a][c] = v]
    <2>1. cells = Written(p, i, v)
      BY SetIs
    <2> HIDE DEF cells
    <2> QED
      BY <2>1, Zenon DEF Written
  <1>12. old = [k \in 1..n |-> IF k <= Len(p.cells) THEN p.cells[k] ELSE NewCell]
    BY DEF Extended
  <1> HIDE DEF a, c, n, old, cells
  <1>6. old \in [1..n -> Cell]
    <2>1. ASSUME NEW k \in 1..n PROVE (IF k <= Len(p.cells) THEN p.cells[k] ELSE NewCell) \in Cell
      BY <1>2, <1>3, <1>4
    <2> QED
      BY <1>12, <2>1
  <1>7. cells = [old EXCEPT ![a] = [old[a] EXCEPT ![c] = v]]
    BY <1>5
  <1>8. old[a] \in Cell /\ [old[a] EXCEPT ![c] = v] \in Cell
    BY <1>1, <1>3, <1>6
  <1>9. cells \in [1..n -> Cell]
    BY <1>3, <1>6, <1>7, <1>8
  <1>10. cells \in Seq(Cell) /\ Len(cells) = n
    BY <1>3, <1>9
  <1>11. ASSUME NEW k \in 1..n, NEW b \in 0..(CELL_SIZE - 1)
         PROVE  cells[k][b] = IF k = a /\ b = c THEN v
                              ELSE IF k <= Len(p.cells) THEN p.cells[k][b] ELSE Zero
    <2>1. old[k][b] = IF k <= Len(p.cells) THEN p.cells[k][b] ELSE Zero
      BY <1>4, <1>12
    <2>2. CASE k = a
      <3>1. cells[k] = [old[a] EXCEPT ![c] = v]
        BY <1>3, <1>6, <1>7, <2>2
      <3> QED
        BY <1>8, <2>1, <2>2, <3>1
    <2>3. CASE k # a
      BY <1>6, <1>7, <2>1, <2>3
    <2> QED
      BY <2>2, <2>3
  <1> QED
    BY <1>3, <1>10, <1>11 DEF a, c, n, cells, CellsAre

\* There is room for the pointers to the cells, by need or from before.
LEMMA SetRoomy ==
    ASSUME NEW S, NEW p, CellsSound(p, S), NEW i \in Nat, NEW v
    PROVE  /\ xarrayp_set(p, i, v).array_size \in Nat
           /\ Count(p, i) * PtrSize <= xarrayp_set(p, i, v).array_size
  <1> DEFINE a == CellOf(i)
             size == xarrayp_set(p, i, v).array_size
  <1>1. a \in Nat /\ Len(p.cells) \in Nat /\ p.array_size \in Nat
    <2>1. i \div CELL_SIZE \in Nat
      BY PlaceFacts
    <2> QED
      BY <2>1 DEF CellsSound, Pointers, CellOf
  <1>2. Len(p.cells) * PtrSize <= p.array_size
    BY DEF CellsSound, Roomy, array_count
  <1>3. size = IF a * PtrSize > p.array_size THEN RoundUp(a * PtrSize) ELSE p.array_size
    BY SetIs DEF RoomAfter
  <1> HIDE DEF a, size
  <1>4. a * PtrSize \in Nat /\ Len(p.cells) * PtrSize \in Nat
    BY <1>1, CellAssumption
  <1>5. size \in Nat /\ size >= a * PtrSize /\ size >= p.array_size
    <2>1. RoundUp(a * PtrSize) \in Nat /\ RoundUp(a * PtrSize) >= a * PtrSize
      BY <1>4, RoundedUp
    <2> QED
      BY <1>1, <1>3, <1>4, <2>1
  <1>6. Greater(Len(p.cells), a) * PtrSize <= size
    <2>1. Greater(Len(p.cells), a) \in {Len(p.cells), a}
      BY DEF Greater
    <2>2. Len(p.cells) * PtrSize <= size
      BY <1>1, <1>2, <1>4, <1>5
    <2> QED
      BY <1>5, <2>1, <2>2
  <1> QED
    BY <1>5, <1>6 DEF a, size, Count

\* Setting an element changes what is read there and nowhere else.
ValueSet(set, p, i, v, S) ==
    /\ CellsSound(set, S)
    /\ set.size = Greater(p.size, i + 1)
    /\ \A k \in Nat : ValueAt(set, k) = IF k = i THEN v ELSE ValueAt(p, k)

LEMMA SetPointers ==
    ASSUME NEW S, Zero \in S, NEW p, CellsSound(p, S), NEW i \in Nat, NEW v \in S
    PROVE  ValueSet(xarrayp_set(p, i, v), p, i, v, S)
  <1> DEFINE a == CellOf(i)
             c == i % CELL_SIZE
             n == Count(p, i)
             set == xarrayp_set(p, i, v)
  <1>1. /\ a \in 1..n /\ n \in Nat /\ n >= Len(p.cells)
        /\ set.cells \in Seq([0..(CELL_SIZE - 1) -> S]) /\ Len(set.cells) = n
        /\ \A k \in 1..n, b \in 0..(CELL_SIZE - 1) :
              set.cells[k][b] = IF k = a /\ b = c THEN v
                                ELSE IF k <= Len(p.cells) THEN p.cells[k][b] ELSE Zero
    <2>1. CellsAre(set.cells, p, i, v, S)
      BY SetCells
    <2> HIDE DEF set
    <2> QED
      BY <2>1 DEF CellsAre
  <1>2. set.array_size \in Nat /\ n * PtrSize <= set.array_size
    BY SetRoomy
  <1>3. /\ set.size = Greater(p.size, i + 1)
        /\ set = [cells |-> set.cells, array_size |-> set.array_size, size |-> set.size]
    <2> HIDE DEF set
    <2>1. set = xarrayp_set(p, i, v)
      BY DEF set
    <2>2. /\ set = [cells |-> Written(p, i, v), array_size |-> RoomAfter(p, i),
                    size |-> Greater(p.size, i + 1)]
          /\ set.cells = Written(p, i, v) /\ set.array_size = RoomAfter(p, i)
          /\ set.size = Greater(p.size, i + 1)
      BY <2>1, SetIs
    <2> QED
      BY <2>2
  <1>4. p.size \in Nat /\ Len(p.cells) \in Nat /\ p.size <= Len(p.cells) * CELL_SIZE
    BY DEF CellsSound, Pointers
  <1>5. c \in 0..(CELL_SIZE - 1) /\ i = (a - 1) * CELL_SIZE + c /\ a - 1 \in Nat
    <2>1. i \div CELL_SIZE \in Nat /\ c \in 0..(CELL_SIZE - 1)
      BY PlaceFacts
    <2>2. (i \div CELL_SIZE) * CELL_SIZE + c = i
      BY PlaceFacts
    <2>3. a - 1 = i \div CELL_SIZE
      BY <2>1 DEF CellOf
    <2> HIDE DEF a, c
    <2> QED
      BY <2>1, <2>2, <2>3
  <1> HIDE DEF a, c, n, set
  <1>6. set.size \in Nat /\ set.size >= p.size /\ set.size > i
    BY <1>3, <1>4 DEF Greater
  <1>7. set.size <= n * CELL_SIZE
    <2>1. p.size <= n * CELL_SIZE
      <3>1. Len(p.cells) * CELL_SIZE <= n * CELL_SIZE
        BY <1>1, <1>4, CellsGrow, CellAssumption
      <3>2. Len(p.cells) * CELL_SIZE \in Nat /\ n * CELL_SIZE \in Nat
        BY <1>1, <1>4, CellAssumption
      <3> QED
        BY <1>4, <3>1, <3>2
    <2>2. i + 1 <= n * CELL_SIZE
      <3>1. a * CELL_SIZE <= n * CELL_SIZE
        BY <1>1, CellsGrow, CellAssumption
      <3>2. a * CELL_SIZE = (a - 1) * CELL_SIZE + CELL_SIZE
        BY <1>1, CellAssumption
      <3>3. (a - 1) * CELL_SIZE \in Nat /\ n * CELL_SIZE \in Nat /\ CELL_SIZE \in Nat
        BY <1>1, <1>5, CellAssumption
      <3>4. i + 1 <= (a - 1) * CELL_SIZE + CELL_SIZE
        BY <1>5, <3>3
      <3> QED
        BY <3>1, <3>2, <3>3, <3>4
    <2> QED
      BY <1>3, <2>1, <2>2 DEF Greater
  <1>8. ASSUME NEW k \in 1..n, NEW b \in 0..(CELL_SIZE - 1), (k - 1) * CELL_SIZE + b >= set.size
        PROVE  set.cells[k][b] = Zero
    <2>1. ~ (k = a /\ b = c)
      BY <1>5, <1>6, <1>8
    <2>2. k <= Len(p.cells) => p.cells[k][b] = Zero
      <3>1. (k - 1) * CELL_SIZE \in Nat
        BY CellAssumption
      <3>2. (k - 1) * CELL_SIZE + b >= p.size
        BY <1>4, <1>6, <1>8, <3>1
      <3>3. k <= Len(p.cells) => k \in 1..Len(p.cells)
        BY <1>4
      <3> QED
        BY <3>2, <3>3 DEF CellsSound
    <2> QED
      BY <1>1, <2>1, <2>2
  <1>9. CellsSound(set, S)
    <2>1. set \in Pointers(S)
      BY <1>1, <1>2, <1>3, <1>6 DEF Pointers
    <2> QED
      BY <1>1, <1>2, <1>7, <1>8, <2>1 DEF CellsSound, Roomy, array_count
  <1>10. ASSUME NEW k \in Nat
         PROVE  ValueAt(set, k) = IF k = i THEN v ELSE ValueAt(p, k)
    <2> DEFINE d == (k \div CELL_SIZE) + 1
               b == k % CELL_SIZE
    <2>1. b \in 0..(CELL_SIZE - 1) /\ k = (d - 1) * CELL_SIZE + b /\ d \in Nat
      <3>1. k \div CELL_SIZE \in Nat /\ b \in 0..(CELL_SIZE - 1)
        BY PlaceFacts
      <3>2. (k \div CELL_SIZE) * CELL_SIZE + b = k
        BY PlaceFacts
      <3>3. d - 1 = k \div CELL_SIZE /\ d \in Nat
        BY <3>1
      <3> HIDE DEF d, b
      <3> QED
        BY <3>1, <3>2, <3>3
    <2>2. /\ (d \in 1..n => ValueAt(set, k) = set.cells[d][b])
          /\ (d \notin 1..n => ValueAt(set, k) = Zero)
      BY <1>1, <1>9, ValueBehind
    <2>3. /\ (d \in 1..Len(p.cells) => ValueAt(p, k) = p.cells[d][b])
          /\ (d \notin 1..Len(p.cells) => ValueAt(p, k) = Zero)
      BY ValueBehind
    <2>4. k = i <=> d = a /\ b = c
      <3>1. k = i => d = a /\ b = c
        BY DEF a, c, CellOf
      <3> HIDE DEF d, b
      <3> QED
        BY <1>5, <2>1, <3>1
    <2> HIDE DEF d, b
    <2>5. CASE d \in 1..n
      <3>1. set.cells[d][b] = IF d = a /\ b = c THEN v
                              ELSE IF d <= Len(p.cells) THEN p.cells[d][b] ELSE Zero
        BY <1>1, <2>1, <2>5
      <3>2. d <= Len(p.cells) <=> d \in 1..Len(p.cells)
        BY <1>4, <2>5
      <3> QED
        BY <2>2, <2>3, <2>4, <2>5, <3>1, <3>2
    <2>6. CASE d \notin 1..n
      <3>1. d \notin 1..Len(p.cells) /\ k # i
        BY <1>1, <1>4, <2>4, <2>6
      <3> QED
        BY <2>2, <2>3, <2>6, <3>1
    <2> QED
      BY <2>5, <2>6
  <1> QED
    BY <1>3, <1>9, <1>10 DEF set, ValueSet

-----------------------------------------------------------------------------
(* One array, with its two sides.                                          *)

BothSound(arr, S) ==
    /\ arr \in [positive : Pointers(S), nagetive : Pointers(S)]
    /\ CellsSound(arr.positive, S) /\ CellsSound(arr.nagetive, S)

ReadAt(arr, i) == xarray_get(arr, i)[2]
Side(arr, left) == IF left THEN arr.nagetive ELSE arr.positive

LEMMA ReadIs ==
    ASSUME NEW arr, NEW i
    PROVE  /\ ReadAt(arr, i) = ValueAt(Side(arr, i < 0), Abs(i))
           /\ xarray_get(arr, i)[1] = IF Abs(i) >= Side(arr, i < 0).size THEN 0 ELSE 1
  BY DEF ReadAt, ValueAt, Side, xarray_get, xarrayp_get, Of

\* An array that has just been made.
LEMMA FreshArray ==
    ASSUME NEW S
    PROVE  /\ BothSound(xarray_alloc, S)
           /\ \A i \in Int : ReadAt(xarray_alloc, i) = Zero
           /\ \A left \in BOOLEAN : Side(xarray_alloc, left).size = 0
  <1> DEFINE p == xarrayp_alloc
             C == [0..(CELL_SIZE - 1) -> S]
  <1>1. p.cells = << >> /\ p.array_size = 0 /\ p.size = 0
    BY DEF xarrayp_alloc
  <1>2. p \in [cells : Seq(C), array_size : Nat, size : Nat]
    <2>1. << >> \in Seq(C)
      OBVIOUS
    <2> HIDE DEF C
    <2> QED
      BY <2>1 DEF xarrayp_alloc
  <1> HIDE DEF p
  <1>3. CellsSound(p, S)
    BY <1>1, <1>2, CellAssumption DEF CellsSound, Pointers, Roomy, array_count
  <1>4. xarray_alloc.positive = p /\ xarray_alloc.nagetive = p
    BY DEF xarray_alloc, p
  <1>5. BothSound(xarray_alloc, S)
    BY <1>2, <1>3, <1>4 DEF BothSound, Pointers, xarray_alloc
  <1>6. \A left : Side(xarray_alloc, left) = p
    BY <1>4 DEF Side
  <1>7. ASSUME NEW i \in Int PROVE ReadAt(xarray_alloc, i) = Zero
    <2>1. Abs(i) >= 0
      BY DEF Abs
    <2> QED
      BY <1>1, <1>6, <2>1, ReadIs, ValueIs
  <1> QED
    BY <1>1, <1>5, <1>6, <1>7

\* Setting an element changes what is read there and nowhere else, and how far the side
\* of zero goes that it is on.
ElementSet(set, arr, i, v, S) ==
    /\ BothSound(set, S)
    /\ \A k \in Int : ReadAt(set, k) = IF k = i THEN v ELSE ReadAt(arr, k)
    /\ \A left \in BOOLEAN :
          Side(set, left).size = IF left = (i < 0) THEN Greater(Side(arr, left).size, Abs(i) + 1)
                                 ELSE Side(arr, left).size

LEMMA SetArray ==
    ASSUME NEW S, Zero \in S, NEW arr, BothSound(arr, S), NEW i \in Int, NEW v \in S
    PROVE  ElementSet(xarray_set(arr, i, v), arr, i, v, S)
  <1> DEFINE set == xarray_set(arr, i, v)
             p == Side(arr, i < 0)
             new == xarrayp_set(p, Abs(i), v)
  <1>1. CellsSound(p, S) /\ Abs(i) \in Nat
    BY DEF BothSound, Side, Abs
  <1>2. /\ CellsSound(new, S) /\ new.size = Greater(p.size, Abs(i) + 1)
        /\ \A k \in Nat : ValueAt(new, k) = IF k = Abs(i) THEN v ELSE ValueAt(p, k)
    <2> HIDE DEF p
    <2>1. ValueSet(new, p, Abs(i), v, S)
      BY <1>1, SetPointers
    <2> HIDE DEF new
    <2> QED
      BY <2>1 DEF ValueSet
  <1>3. /\ i < 0 => set = [arr EXCEPT !.nagetive = new]
        /\ ~ (i < 0) => set = [arr EXCEPT !.positive = new]
    <2>1. i < 0 => p = arr.nagetive /\ Abs(i) = - i
      BY DEF Side, Abs
    <2>2. ~ (i < 0) => p = arr.positive /\ Abs(i) = i
      BY DEF Side, Abs
    <2> HIDE DEF p
    <2> QED
      BY <2>1, <2>2, Zenon DEF xarray_set
  <1>4. /\ p = Side(arr, i < 0)
        /\ arr \in [positive : Pointers(S), nagetive : Pointers(S)]
        /\ CellsSound(arr.positive, S) /\ CellsSound(arr.nagetive, S)
    BY DEF BothSound
  <1> HIDE DEF new, set, p
  <1>5. new \in Pointers(S)
    BY <1>2 DEF CellsSound
  <1>6. /\ set \in [positive : Pointers(S), nagetive : Pointers(S)]
        /\ \A left \in BOOLEAN :
              Side(set, left) = IF left = (i < 0) THEN new ELSE Side(arr, left)
    BY <1>3, <1>4, <1>5 DEF Side
  <1>7. BothSound(set, S)
    <2>1. Side(set, TRUE) = set.nagetive /\ Side(set, FALSE) = set.positive
      BY DEF Side
    <2>2. CellsSound(Side(arr, TRUE), S) /\ CellsSound(Side(arr, FALSE), S)
      BY <1>4 DEF Side
    <2>3. CellsSound(Side(set, TRUE), S) /\ CellsSound(Side(set, FALSE), S)
      BY <1>2, <1>6, <2>2
    <2> QED
      BY <1>6, <2>1, <2>3 DEF BothSound
  <1>8. ASSUME NEW k \in Int
        PROVE  ReadAt(set, k) = IF k = i THEN v ELSE ReadAt(arr, k)
    <2>1. /\ ReadAt(set, k) = ValueAt(Side(set, k < 0), Abs(k))
          /\ ReadAt(arr, k) = ValueAt(Side(arr, k < 0), Abs(k))
      BY ReadIs
    <2>2. Abs(k) \in Nat /\ (k < 0) \in BOOLEAN
      BY DEF Abs
    <2>3. CASE (k < 0) = (i < 0)
      <3>1. k = i <=> Abs(k) = Abs(i)
        BY <2>3 DEF Abs
      <3>2. Side(set, k < 0) = new /\ Side(arr, k < 0) = p
        BY <1>4, <1>6, <2>2, <2>3
      <3> QED
        BY <1>2, <2>1, <2>2, <3>1, <3>2
    <2>4. CASE (k < 0) # (i < 0)
      <3>1. Side(set, k < 0) = Side(arr, k < 0)
        BY <1>6, <2>2, <2>4
      <3>2. k # i
        BY <2>4
      <3> QED
        BY <2>1, <3>1, <3>2
    <2> QED
      BY <2>3, <2>4
  <1>9. ASSUME NEW left \in BOOLEAN
        PROVE  Side(set, left).size = IF left = (i < 0) THEN Greater(Side(arr, left).size, Abs(i) + 1)
                                      ELSE Side(arr, left).size
    BY <1>2, <1>4, <1>6
  <1> QED
    BY <1>7, <1>8, <1>9 DEF set, ElementSet

-----------------------------------------------------------------------------
(* What the calls so far ask for.                                          *)

Call == Index \X Index2 \X Element

\* Of the calls s: those for row i, those for its element j, and those of ns on one side.
CallsOf(s, i) == {n \in DOMAIN s : s[n][1] = i}
CallsAt(s, i, j) == {n \in DOMAIN s : s[n][1] = i /\ s[n][2] = j}
OnSide(s, m, ns, left) == {n \in ns : (s[n][m] < 0) = left}

\* r is how far out the calls ns go, by their index m; v is what the last of ns has set.
IsFar(s, m, ns, r) ==
    /\ r \in Nat
    /\ \A n \in ns : Abs(s[n][m]) + 1 <= r
    /\ ns = {} => r = 0
    /\ ns # {} => \E n \in ns : r = Abs(s[n][m]) + 1
IsLast(s, ns, v) ==
    /\ ns = {} => v = Zero
    /\ ns # {} => \E n \in ns : (\A k \in ns : k <= n) /\ v = s[n][3]

Longer(t, s, x) ==
    /\ Len(s) \in Nat /\ DOMAIN s = 1..Len(s) /\ DOMAIN t = 1..(Len(s) + 1)
    /\ \A n \in 1..Len(s) : t[n] = s[n]
    /\ t[Len(s) + 1] = x

LEMMA AppendLonger ==
    ASSUME NEW s \in Seq(Call), NEW x \in Call
    PROVE  Longer(Append(s, x), s, x) /\ Append(s, x) \in Seq(Call)
  BY DEF Longer

LEMMA CallTypes ==
    ASSUME NEW s \in Seq(Call), NEW n \in DOMAIN s
    PROVE  s[n][1] \in Int /\ s[n][2] \in Int /\ s[n][1] \in Index /\ s[n][2] \in Index2
           /\ s[n] = << s[n][1], s[n][2], s[n][3] >> /\ s[n][3] \in Element
  <1>1. s[n] \in Index \X Index2 \X Element
    BY DEF Call
  <1>2. PICK a \in Index, b \in Index2, e \in Element : s[n] = << a, b, e >>
    BY <1>1
  <1>3. Index \subseteq Int /\ Index2 \subseteq Int
    BY IndexAssumption
  <1> QED
    BY <1>2, <1>3

\* How far calls go is not changed by a further call that is not one of them.
LEMMA FarStays ==
    ASSUME NEW s, NEW t, NEW x, Longer(t, s, x), NEW m, NEW ns \in SUBSET (1..Len(s)),
           NEW left, NEW r, IsFar(s, m, OnSide(s, m, ns, left), r)
    PROVE  IsFar(t, m, OnSide(t, m, ns, left), r)
  <1>1. \A n \in ns : t[n] = s[n]
    BY DEF Longer
  <1>2. OnSide(t, m, ns, left) = OnSide(s, m, ns, left) /\ OnSide(s, m, ns, left) \subseteq ns
    BY <1>1 DEF OnSide
  <1> DEFINE side == OnSide(s, m, ns, left)
  <1> HIDE DEF side
  <1>3. IsFar(s, m, side, r) /\ side \subseteq ns
    BY <1>2 DEF side
  <1>4. IsFar(t, m, side, r)
    BY <1>1, <1>3 DEF IsFar
  <1> QED
    BY <1>2, <1>4 DEF side

\* One of them goes as far as it does, or as far as the others did.
LEMMA FarGrows ==
    ASSUME NEW s, NEW t, NEW x, Longer(t, s, x), NEW m, x[m] \in Int,
           NEW ns \in SUBSET (1..Len(s)), \A n \in ns : s[n][m] \in Int,
           NEW left \in BOOLEAN, NEW r, IsFar(s, m, OnSide(s, m, ns, left), r)
    PROVE  IsFar(t, m, OnSide(t, m, ns \cup {Len(s) + 1}, left),
                 IF left = (x[m] < 0) THEN Greater(r, Abs(x[m]) + 1) ELSE r)
  <1> DEFINE side == OnSide(s, m, ns, left)
             new == OnSide(t, m, ns \cup {Len(s) + 1}, left)
             k == Len(s) + 1
  <1>1. t[k] = x /\ \A n \in ns : t[n] = s[n]
    BY DEF Longer
  <1>2. IsFar(t, m, side, r)
    <2>1. IsFar(t, m, OnSide(t, m, ns, left), r)
      BY FarStays
    <2>2. OnSide(t, m, ns, left) = side
      BY <1>1 DEF OnSide
    <2> QED
      BY <2>1, <2>2
  <1>3. new = IF left = (x[m] < 0) THEN side \cup {k} ELSE side
    BY <1>1 DEF OnSide
  <1>4. \A n \in side : t[n][m] \in Int
    BY <1>1 DEF OnSide
  <1> HIDE DEF side, new, k
  <1>5. CASE left = (x[m] < 0)
    <2> DEFINE q == Greater(r, Abs(x[m]) + 1)
    <2>1. Abs(x[m]) \in Nat /\ r \in Nat
      BY <1>2 DEF Abs, IsFar
    <2>2. \A n \in side \cup {k} : Abs(t[n][m]) + 1 <= q
      <3>1. \A n \in side : Abs(t[n][m]) \in Nat /\ Abs(t[n][m]) + 1 <= r
        BY <1>2, <1>4 DEF IsFar, Abs
      <3>2. q \in Nat /\ r <= q /\ Abs(x[m]) + 1 <= q
        BY <2>1 DEF Greater
      <3> HIDE DEF q
      <3> QED
        BY <1>1, <2>1, <3>1, <3>2
    <2>3. \E n \in side \cup {k} : q = Abs(t[n][m]) + 1
      <3>1. CASE side = {} \/ Abs(x[m]) + 1 >= r
        <4>1. q = Abs(x[m]) + 1
          BY <1>2, <2>1, <3>1 DEF Greater, IsFar
        <4> QED
          BY <1>1, <4>1
      <3>2. CASE side # {} /\ ~ (Abs(x[m]) + 1 >= r)
        <4>1. q = r
          BY <2>1, <3>2 DEF Greater
        <4>2. PICK n \in side : r = Abs(t[n][m]) + 1
          BY <1>2, <3>2 DEF IsFar
        <4> QED
          BY <4>1, <4>2
      <3> QED
        BY <3>1, <3>2
    <2>4. q \in Nat
      BY <2>1 DEF Greater
    <2>5. new = side \cup {k} /\ new # {}
      BY <1>3, <1>5
    <2> HIDE DEF q
    <2>6. IsFar(t, m, new, q)
      BY <2>2, <2>3, <2>4, <2>5 DEF IsFar
    <2> QED
      BY <1>5, <2>6 DEF q, new
  <1>6. CASE left # (x[m] < 0)
    BY <1>2, <1>3, <1>6 DEF new
  <1> QED
    BY <1>5, <1>6

LEMMA FarIs ==
    ASSUME NEW m, NEW ns, NEW r, IsFar(sets, m, ns, r)
    PROVE  Farthest(m, ns) = r
  <1> DEFINE out == {Abs(sets[n][m]) + 1 : n \in ns}
  <1>1. Farthest(m, ns) = IF out = {} THEN 0 ELSE CHOOSE q \in out : \A z \in out : z <= q
    BY DEF Farthest
  <1>2. r \in Nat /\ (\A z \in out : z <= r) /\ (out = {} => r = 0) /\ (out # {} => r \in out)
    BY DEF IsFar
  <1> HIDE DEF out
  <1>3. CASE out # {}
    <2>1. /\ (CHOOSE q \in out : \A z \in out : z <= q) \in out
          /\ \A z \in out : z <= (CHOOSE q \in out : \A y \in out : y <= q)
      BY <1>2, <1>3, Zenon
    <2> DEFINE q == CHOOSE q \in out : \A z \in out : z <= q
    <2>2. q \in out /\ r <= q /\ q <= r
      BY <1>2, <1>3, <2>1
    <2> QED
      BY <1>1, <1>2, <1>3, <2>2
  <1> QED
    BY <1>1, <1>2, <1>3

\* The last call for an element is the one that has just been made, if it was for that.
LEMMA LastAppended ==
    ASSUME NEW s, NEW i, NEW j, NEW v, NEW t, Longer(t, s, << i, j, v >>),
           NEW a, NEW b, NEW u, IsLast(s, CallsAt(s, a, b), u)
    PROVE  IsLast(t, CallsAt(t, a, b), IF a = i /\ b = j THEN v ELSE u)
  <1> DEFINE k == Len(s) + 1
             old == CallsAt(s, a, b)
  <1>1. /\ Len(s) \in Nat /\ DOMAIN t = 1..k /\ DOMAIN s = 1..Len(s)
        /\ t[k] = << i, j, v >> /\ \A n \in 1..Len(s) : t[n] = s[n]
    BY DEF Longer
  <1>2. old \subseteq 1..Len(s) /\ \A n \in old : t[n] = s[n]
    BY <1>1 DEF CallsAt
  <1>3. CallsAt(t, a, b) = IF a = i /\ b = j THEN old \cup {k} ELSE old
    <2>1. \A n \in DOMAIN t : n = k \/ n \in DOMAIN s
      BY <1>1
    <2>2. k \in DOMAIN t /\ k \notin DOMAIN s /\ \A n \in DOMAIN s : n \in DOMAIN t /\ t[n] = s[n]
      BY <1>1
    <2>3. t[k][1] = i /\ t[k][2] = j
      BY <1>1
    <2> HIDE DEF k
    <2> QED
      BY <2>1, <2>2, <2>3 DEF CallsAt
  <1>4. \A n \in old : n <= k
    BY <1>1, <1>2
  <1>5. t[k][3] = v /\ k <= k
    BY <1>1
  <1> HIDE DEF k, old
  <1>6. CASE a = i /\ b = j
    BY <1>3, <1>4, <1>5, <1>6 DEF IsLast
  <1>7. CASE ~ (a = i /\ b = j)
    <2>1. IsLast(t, old, u)
      <3>1. IsLast(s, old, u)
        BY DEF old
      <3> QED
        BY <1>2, <3>1 DEF IsLast
    <2> QED
      BY <1>3, <1>7, <2>1
  <1> QED
    BY <1>6, <1>7

-----------------------------------------------------------------------------
(* The invariant.                                                          *)

\* Row i is an array that reads as the calls so far have set it.
RowHolds(s, i, row) ==
    /\ BothSound(row, Element \cup {Zero})
    /\ \A left \in BOOLEAN :
          IsFar(s, 2, OnSide(s, 2, CallsOf(s, i), left), Side(row, left).size)
    /\ \A j \in Int : IsLast(s, CallsAt(s, i, j), ReadAt(row, j))
RowTrue(s, i, row) ==
    \/ row = Zero /\ CallsOf(s, i) = {}
    \/ row \in Rows2 /\ RowHolds(s, i, row)

\* The inductive invariant: so reads every row, and the array of rows goes as far as the
\* calls.
ArrayInv ==
    /\ sets \in Seq(Call)
    /\ BothSound(arr2, Rows2 \cup {Zero})
    /\ \A left \in BOOLEAN :
          IsFar(sets, 1, OnSide(sets, 1, DOMAIN sets, left), Side(arr2, left).size)
    /\ \A i \in Int : RowTrue(sets, i, ReadAt(arr2, i))

LEMMA FreshRow ==
    ASSUME NEW s, NEW i, CallsOf(s, i) = {}
    PROVE  RowHolds(s, i, xarray_alloc) /\ xarray_alloc \in Rows2
  <1>1. \A left : OnSide(s, 2, CallsOf(s, i), left) = {}
    BY DEF OnSide
  <1>2. \A j : CallsAt(s, i, j) = {}
    BY DEF CallsAt, CallsOf
  <1>3. /\ BothSound(xarray_alloc, Element \cup {Zero})
        /\ \A j \in Int : ReadAt(xarray_alloc, j) = Zero
        /\ \A left \in BOOLEAN : Side(xarray_alloc, left).size = 0
    BY FreshArray
  <1>4. xarray_alloc \in Rows2
    BY <1>3 DEF BothSound, Rows2
  <1>5. \A left \in BOOLEAN : IsFar(s, 2, OnSide(s, 2, CallsOf(s, i), left), Side(xarray_alloc, left).size)
    BY <1>1, <1>3 DEF IsFar
  <1>6. \A j \in Int : IsLast(s, CallsAt(s, i, j), ReadAt(xarray_alloc, j))
    BY <1>2, <1>3 DEF IsLast
  <1> QED
    BY <1>3, <1>4, <1>5, <1>6 DEF RowHolds

LEMMA NothingSet ==
    ASSUME arr2 = xarray_alloc, sets = << >>
    PROVE  ArrayInv
  <1>1. sets \in Seq(Call) /\ DOMAIN sets = {}
    BY DEF Call
  <1>2. /\ BothSound(xarray_alloc, Rows2 \cup {Zero})
        /\ \A j \in Int : ReadAt(xarray_alloc, j) = Zero
        /\ \A left \in BOOLEAN : Side(xarray_alloc, left).size = 0
    BY FreshArray
  <1>3. \A left \in BOOLEAN : IsFar(sets, 1, OnSide(sets, 1, DOMAIN sets, left), Side(arr2, left).size)
    BY <1>1, <1>2 DEF IsFar, OnSide
  <1>4. \A i \in Int : RowTrue(sets, i, ReadAt(arr2, i))
    BY <1>1, <1>2 DEF RowTrue, CallsOf
  <1> QED
    BY <1>1, <1>2, <1>3, <1>4 DEF ArrayInv

\* The row that is set, and those that are not.
LEMMA RowSet ==
    ASSUME NEW s \in Seq(Call), NEW i \in Index, NEW j \in Index2, NEW v \in Element,
           NEW t, Longer(t, s, << i, j, v >>), NEW row, RowHolds(s, i, row), row \in Rows2
    PROVE  RowTrue(t, i, xarray_set(row, j, v))
  <1> DEFINE set == xarray_set(row, j, v)
             ns == CallsOf(s, i)
             x == << i, j, v >>
  <1>1. i \in Int /\ j \in Int /\ x[1] = i /\ x[2] = j
    BY IndexAssumption
  <1>2. ElementSet(set, row, j, v, Element \cup {Zero})
    BY <1>1, SetArray DEF RowHolds
  <1>3. Longer(t, s, x)
    OBVIOUS
  <1>4. ns \in SUBSET (1..Len(s)) /\ \A n \in ns : s[n][2] \in Int
    <2>1. DOMAIN s = 1..Len(s)
      OBVIOUS
    <2> QED
      BY <2>1, CallTypes DEF CallsOf
  <1>5. CallsOf(t, i) = ns \cup {Len(s) + 1}
    <2> HIDE DEF x
    <2>1. \A n \in DOMAIN t : n = Len(s) + 1 \/ n \in DOMAIN s
      BY <1>3 DEF Longer
    <2>2. /\ Len(s) + 1 \in DOMAIN t /\ t[Len(s) + 1][1] = i
          /\ \A n \in DOMAIN s : n \in DOMAIN t /\ t[n] = s[n]
      BY <1>1, <1>3 DEF Longer
    <2> QED
      BY <2>1, <2>2 DEF CallsOf
  <1> HIDE DEF set, ns, x
  <1>6. ASSUME NEW left \in BOOLEAN
        PROVE  IsFar(t, 2, OnSide(t, 2, CallsOf(t, i), left), Side(set, left).size)
    <2> DEFINE r == Side(row, left).size
    <2>1. IsFar(s, 2, OnSide(s, 2, ns, left), r)
      BY DEF RowHolds, ns
    <2>2. Side(set, left).size = IF left = (j < 0) THEN Greater(r, Abs(j) + 1) ELSE r
      BY <1>2 DEF ElementSet
    <2> HIDE DEF r
    <2>3. IsFar(t, 2, OnSide(t, 2, ns \cup {Len(s) + 1}, left),
                IF left = (x[2] < 0) THEN Greater(r, Abs(x[2]) + 1) ELSE r)
      BY <1>1, <1>3, <1>4, <2>1, FarGrows
    <2> QED
      BY <1>1, <1>5, <2>2, <2>3
  <1>7. ASSUME NEW k \in Int
        PROVE  IsLast(t, CallsAt(t, i, k), ReadAt(set, k))
    <2>1. IsLast(s, CallsAt(s, i, k), ReadAt(row, k))
      BY DEF RowHolds
    <2>2. IsLast(t, CallsAt(t, i, k), IF i = i /\ k = j THEN v ELSE ReadAt(row, k))
      BY <2>1, LastAppended
    <2>3. ReadAt(set, k) = IF k = j THEN v ELSE ReadAt(row, k)
      BY <1>2 DEF ElementSet
    <2> QED
      BY <2>2, <2>3
  <1>8. BothSound(set, Element \cup {Zero}) /\ set \in Rows2
    BY <1>2 DEF ElementSet, BothSound, Rows2
  <1> QED
    BY <1>6, <1>7, <1>8 DEF RowTrue, RowHolds, set

LEMMA RowKept ==
    ASSUME NEW s \in Seq(Call), NEW i \in Index, NEW j \in Index2, NEW v \in Element,
           NEW t, Longer(t, s, << i, j, v >>), NEW k \in Int, k # i, NEW row, RowTrue(s, k, row)
    PROVE  RowTrue(t, k, row)
  <1> DEFINE ns == CallsOf(s, k)
             x == << i, j, v >>
  <1>1. Longer(t, s, x) /\ x[1] = i
    OBVIOUS
  <1>2. ns \in SUBSET (1..Len(s))
    BY DEF CallsOf
  <1>3. CallsOf(t, k) = ns
    <2> HIDE DEF x
    <2>1. \A n \in DOMAIN t : n = Len(s) + 1 \/ n \in DOMAIN s
      BY <1>1 DEF Longer
    <2>2. /\ Len(s) + 1 \in DOMAIN t /\ t[Len(s) + 1][1] = i
          /\ \A n \in DOMAIN s : n \in DOMAIN t /\ t[n] = s[n]
      BY <1>1 DEF Longer
    <2> QED
      BY <2>1, <2>2 DEF CallsOf
  <1> HIDE DEF ns, x
  <1>4. CASE row = Zero /\ ns = {}
    BY <1>3, <1>4 DEF RowTrue
  <1>5. CASE row \in Rows2 /\ RowHolds(s, k, row)
    <2>1. ASSUME NEW left \in BOOLEAN
          PROVE  IsFar(t, 2, OnSide(t, 2, CallsOf(t, k), left), Side(row, left).size)
      <3>1. IsFar(s, 2, OnSide(s, 2, ns, left), Side(row, left).size)
        BY <1>5 DEF RowHolds, ns
      <3> QED
        BY <1>1, <1>2, <1>3, <3>1, FarStays
    <2>2. ASSUME NEW b \in Int PROVE IsLast(t, CallsAt(t, k, b), ReadAt(row, b))
      <3>1. IsLast(s, CallsAt(s, k, b), ReadAt(row, b))
        BY <1>5 DEF RowHolds
      <3>2. IsLast(t, CallsAt(t, k, b), IF k = i /\ b = j THEN v ELSE ReadAt(row, b))
        BY <3>1, LastAppended
      <3> QED
        BY <3>2
    <2> QED
      BY <1>5, <2>1, <2>2 DEF RowTrue, RowHolds
  <1> QED
    BY <1>4, <1>5 DEF RowTrue, ns

LEMMA SetStep ==
    ASSUME ArrayInv, NEW i \in Index, NEW j \in Index2, NEW v \in Element, xarray2_set(i, j, v)
    PROVE  ArrayInv'
  <1> DEFINE old == ReadAt(arr2, i)
             row == IF old = Zero THEN xarray_alloc ELSE old
             set == xarray_set(row, j, v)
             x == << i, j, v >>
             Rows == Rows2 \cup {Zero}
  <1>1. CASE UNCHANGED << arr2, sets >>
    BY <1>1 DEF ArrayInv
  <1>2. CASE arr2' = xarray_set(arr2, i, set) /\ sets' = Append(sets, x)
    <2>1. i \in Int /\ j \in Int /\ x[1] = i /\ x[1] \in Int /\ x \in Call
      BY IndexAssumption DEF Call
    <2>2. sets \in Seq(Call) /\ BothSound(arr2, Rows) /\ Zero \in Rows
      BY DEF ArrayInv
    <2>3. Longer(sets', sets, x) /\ sets' \in Seq(Call)
      BY <1>2, <2>1, <2>2, AppendLonger
    <2>4. RowTrue(sets, i, old)
      BY <2>1 DEF ArrayInv
    <2>5. RowHolds(sets, i, row) /\ row \in Rows2
      <3>1. CASE old = Zero
        <4>1. CallsOf(sets, i) = {}
          BY <2>4, <3>1, IndexAssumption DEF RowTrue
        <4> QED
          BY <3>1, <4>1, FreshRow
      <3>2. CASE old # Zero
        BY <2>4, <3>2 DEF RowTrue
      <3> QED
        BY <3>1, <3>2
    <2> HIDE DEF row, old
    <2>6. RowTrue(sets', i, set)
      BY <2>2, <2>3, <2>5, RowSet
    <2>7. set \in Rows2
      <3>1. Len(sets) + 1 \in CallsOf(sets', i)
        <4> HIDE DEF x
        <4> QED
          BY <2>1, <2>3 DEF Longer, CallsOf
      <3> QED
        BY <2>6, <3>1 DEF RowTrue
    <2> HIDE DEF set, x
    <2>8. ElementSet(arr2', arr2, i, set, Rows)
      BY <1>2, <2>1, <2>2, <2>7, SetArray
    <2> HIDE DEF Rows
    <2>9. ASSUME NEW k \in Int PROVE RowTrue(sets', k, ReadAt(arr2', k))
      <3>1. ReadAt(arr2', k) = IF k = i THEN set ELSE ReadAt(arr2, k)
        BY <2>8 DEF ElementSet
      <3>2. CASE k = i
        BY <2>6, <3>1, <3>2
      <3>3. CASE k # i
        <4>1. RowTrue(sets, k, ReadAt(arr2, k))
          BY DEF ArrayInv
        <4>2. RowTrue(sets', k, ReadAt(arr2, k))
          BY <2>2, <2>3, <3>3, <4>1, RowKept DEF x
        <4> QED
          BY <3>1, <3>3, <4>2
      <3> QED
        BY <3>2, <3>3
    <2>10. ASSUME NEW left \in BOOLEAN
           PROVE  IsFar(sets', 1, OnSide(sets', 1, DOMAIN sets', left), Side(arr2', left).size)
      <3> DEFINE r == Side(arr2, left).size
      <3>1. /\ DOMAIN sets = 1..Len(sets) /\ DOMAIN sets' = 1..(Len(sets) + 1) /\ Len(sets) \in Nat
        BY <2>3 DEF Longer
      <3>2. IsFar(sets, 1, OnSide(sets, 1, 1..Len(sets), left), r)
        BY <3>1 DEF ArrayInv
      <3>3. Side(arr2', left).size = IF left = (i < 0) THEN Greater(r, Abs(i) + 1) ELSE r
        BY <2>8 DEF ElementSet
      <3>4. \A n \in 1..Len(sets) : sets[n][1] \in Int
        BY <2>2, <3>1, CallTypes
      <3> HIDE DEF r
      <3>5. IsFar(sets', 1, OnSide(sets', 1, (1..Len(sets)) \cup {Len(sets) + 1}, left),
                  IF left = (x[1] < 0) THEN Greater(r, Abs(x[1]) + 1) ELSE r)
        BY <2>1, <2>3, <3>2, <3>4, FarGrows
      <3>6. (1..Len(sets)) \cup {Len(sets) + 1} = DOMAIN sets'
        BY <3>1
      <3> QED
        BY <2>1, <3>3, <3>5, <3>6
    <2> QED
      BY <2>3, <2>8, <2>9, <2>10 DEF ArrayInv, ElementSet, Rows
  <1>3. \/ UNCHANGED << arr2, sets >>
        \/ arr2' = xarray_set(arr2, i, set) /\ sets' = Append(sets, x)
    BY Zenon DEF xarray2_set, ReadAt
  <1> QED
    BY <1>1, <1>2, <1>3

LEMMA NextArrayInv == ArrayInv /\ [ArrayNext]_arrayVars => ArrayInv'
  <1> SUFFICES ASSUME ArrayInv, [ArrayNext]_arrayVars PROVE ArrayInv'
    OBVIOUS
  <1>1. CASE \E i \in Index, j \in Index2, v \in Element : xarray2_set(i, j, v)
    BY <1>1, SetStep
  <1>2. CASE xarray2_free
    <2>1. (arr2 = xarray_alloc /\ sets = << >> => ArrayInv)'
      BY NothingSet, PTL
    <2>2. arr2' = xarray_alloc /\ sets' = << >>
      BY <1>2 DEF xarray2_free
    <2> QED
      BY <2>1, <2>2
  <1>3. CASE UNCHANGED arrayVars
    BY <1>3 DEF ArrayInv, arrayVars
  <1> QED
    BY <1>1, <1>2, <1>3 DEF ArrayNext

-----------------------------------------------------------------------------
(* What it says of reading.                                                *)

LEMMA LastIs ==
    ASSUME NEW i, NEW j, NEW v, IsLast(sets, CallsAt(sets, i, j), v), sets \in Seq(Call)
    PROVE  v = IF SetsOf(i, j) = {} THEN Zero ELSE LastValue(i, j)
  <1> DEFINE ns == CallsAt(sets, i, j)
             q == CHOOSE n \in ns : \A k \in ns : k <= n
  <1>1. SetsOf(i, j) = ns
    BY DEF SetsOf, CallsAt
  <1>2. CASE ns # {}
    <2>1. PICK n \in ns : (\A k \in ns : k <= n) /\ v = sets[n][3]
      BY <1>2 DEF IsLast
    <2>2. q \in ns /\ \A k \in ns : k <= q
      <3> HIDE DEF ns
      <3> QED
        BY <2>1, Zenon
    <2>3. ns \subseteq Int
      BY DEF CallsAt
    <2>4. q = n
      <3> HIDE DEF q, ns
      <3>1. q <= n /\ n <= q /\ q \in Int /\ n \in Int
        BY <2>1, <2>2, <2>3
      <3> QED
        BY <3>1
    <2>5. LastValue(i, j) = sets[q][3]
      BY <1>1 DEF LastValue
    <2> QED
      BY <1>1, <1>2, <2>1, <2>4, <2>5
  <1>3. CASE ns = {}
    BY <1>1, <1>3 DEF IsLast
  <1> QED
    BY <1>2, <1>3

\* An element is missing when no call went so far out on its side.
AsFar(i, j) == {n \in RowSets(i) : Same(sets[n][2], j) /\ Abs(sets[n][2]) >= Abs(j)}

LEMMA MissingIs ==
    ASSUME ArrayInv, NEW i \in Index, NEW j \in Index2, NEW row, RowHolds(sets, i, row)
    PROVE  xarray_get(row, j)[1] = IF AsFar(i, j) = {} THEN 0 ELSE 1
  <1> DEFINE out == AsFar(i, j)
             side == OnSide(sets, 2, CallsOf(sets, i), j < 0)
             r == Side(row, j < 0).size
  <1>1. j \in Int /\ Abs(j) \in Nat
    BY IndexAssumption DEF Abs
  <1>2. IsFar(sets, 2, side, r)
    <2>1. (j < 0) \in BOOLEAN
      OBVIOUS
    <2> QED
      BY <2>1 DEF RowHolds
  <1>3. out = {n \in side : Abs(sets[n][2]) >= Abs(j)}
    BY DEF AsFar, RowSets, CallsOf, OnSide, Same
  <1>4. ASSUME NEW n \in side PROVE Abs(sets[n][2]) \in Nat
    <2>1. n \in DOMAIN sets /\ sets \in Seq(Call)
      BY DEF OnSide, CallsOf, ArrayInv
    <2>2. sets[n][2] \in Int
      BY <2>1, CallTypes
    <2> QED
      BY <2>2 DEF Abs
  <1>5. xarray_get(row, j)[1] = IF Abs(j) >= r THEN 0 ELSE 1
    BY ReadIs
  <1> HIDE DEF out, side, r
  <1>6. Abs(j) >= r => out = {}
    BY <1>1, <1>2, <1>3, <1>4 DEF IsFar
  <1>7. ~ (Abs(j) >= r) => out # {}
    <2> SUFFICES ASSUME ~ (Abs(j) >= r) PROVE out # {}
      OBVIOUS
    <2>1. PICK n \in side : r = Abs(sets[n][2]) + 1
      BY <1>1, <1>2 DEF IsFar
    <2>2. Abs(sets[n][2]) >= Abs(j)
      BY <1>1, <1>4, <2>1
    <2> QED
      BY <1>3, <2>2
  <1>8. xarray_get(row, j)[1] = IF out = {} THEN 0 ELSE 1
    BY <1>5, <1>6, <1>7
  <1> QED
    BY <1>8 DEF out

\* The limits of an array, when its sides go as far as the calls.
LEMMA LimitsAre ==
    ASSUME NEW m \in {1, 2}, NEW ns \in SUBSET DOMAIN sets, NEW arr, sets \in Seq(Call),
           \A left \in BOOLEAN : IsFar(sets, m, OnSide(sets, m, ns, left), Side(arr, left).size)
    PROVE  xarray_left_right(arr) = Limits(m, ns)
  <1>1. \A n \in ns : sets[n][m] \in Int
    BY CallTypes
  <1>2. OnSide(sets, m, ns, TRUE) = {n \in ns : sets[n][m] < 0}
    BY DEF OnSide
  <1>3. OnSide(sets, m, ns, FALSE) = {n \in ns : sets[n][m] >= 0}
    BY <1>1 DEF OnSide
  <1>4. \A left \in BOOLEAN : Farthest(m, OnSide(sets, m, ns, left)) = Side(arr, left).size
    BY FarIs
  <1>5. /\ Farthest(m, {n \in ns : sets[n][m] < 0}) = arr.nagetive.size
        /\ Farthest(m, {n \in ns : sets[n][m] >= 0}) = arr.positive.size
    BY <1>2, <1>3, <1>4 DEF Side
  <1> QED
    BY <1>5, Zenon DEF xarray_left_right, Limits

LEMMA ArrayInvReads == ArrayInv => ArrayReads
  <1> SUFFICES ASSUME ArrayInv PROVE ArrayReads
    OBVIOUS
  <1>1. /\ sets \in Seq(Call) /\ BothSound(arr2, Rows2 \cup {Zero})
        /\ \A i \in Int : RowTrue(sets, i, ReadAt(arr2, i))
        /\ Zero \notin Rows2 /\ Index \subseteq Int /\ Index2 \subseteq Int
    BY IndexAssumption DEF ArrayInv
  <1>2. ASSUME NEW i \in Index
        PROVE  \/ ReadAt(arr2, i) = Zero /\ CallsOf(sets, i) = {}
               \/ ReadAt(arr2, i) # Zero /\ RowHolds(sets, i, ReadAt(arr2, i))
    BY <1>1 DEF RowTrue
  <1>3. ASSUME NEW i \in Index, NEW j \in Index2
        PROVE  /\ xarray2_get(i, j)[1] = IF AsFar(i, j) = {} THEN 0 ELSE 1
               /\ xarray2_get(i, j)[2] = IF SetsOf(i, j) = {} THEN Zero ELSE LastValue(i, j)
    <2> DEFINE row == ReadAt(arr2, i)
               answer == xarray2_get(i, j)
               out == AsFar(i, j)
               last == IF SetsOf(i, j) = {} THEN Zero ELSE LastValue(i, j)
    <2>1. answer = IF row = Zero THEN << 0, Zero >> ELSE xarray_get(row, j)
      BY Zenon DEF xarray2_get, ReadAt
    <2>2. CASE row = Zero /\ CallsOf(sets, i) = {}
      <3>1. RowSets(i) = {} /\ SetsOf(i, j) = {}
        BY <2>2 DEF RowSets, SetsOf, CallsOf
      <3>2. AsFar(i, j) = {}
        BY <3>1 DEF AsFar
      <3>3. answer = << 0, Zero >>
        BY <2>1, <2>2
      <3> HIDE DEF answer
      <3> QED
        BY <3>1, <3>2, <3>3 DEF answer
    <2>3. CASE row # Zero /\ RowHolds(sets, i, row)
      <3>1. answer = xarray_get(row, j)
        BY <2>1, <2>3
      <3>2. answer[1] = IF out = {} THEN 0 ELSE 1
        <4> HIDE DEF row, answer
        <4>1. xarray_get(row, j)[1] = IF out = {} THEN 0 ELSE 1
          BY <2>3, MissingIs
        <4> QED
          BY <3>1, <4>1
      <3>3. answer[2] = last
        <4>1. IsLast(sets, CallsAt(sets, i, j), ReadAt(row, j))
          BY <1>1, <2>3 DEF RowHolds
        <4> HIDE DEF row
        <4>2. ReadAt(row, j) = last
          BY <1>1, <4>1, LastIs
        <4> QED
          BY <3>1, <4>2 DEF ReadAt
      <3> HIDE DEF answer, out, last
      <3>4. /\ answer[1] = IF out = {} THEN 0 ELSE 1
            /\ answer[2] = last
        BY <3>2, <3>3
      <3> QED
        BY <3>4 DEF answer, out, last
    <2> QED
      BY <1>2, <2>2, <2>3
  <1>4. xarray2_left_right = Limits(1, DOMAIN sets)
    <2>1. xarray_left_right(arr2) = Limits(1, DOMAIN sets)
      BY <1>1, LimitsAre DEF ArrayInv
    <2> QED
      BY <2>1 DEF xarray2_left_right
  <1>5. ASSUME NEW i \in Index
        PROVE  xarray2_bottom_top(i) = Limits(2, RowSets(i))
    <2> DEFINE row == ReadAt(arr2, i)
    <2>1. xarray2_bottom_top(i) = IF row = Zero THEN << 0, 0 >> ELSE xarray_left_right(row)
      BY Zenon DEF xarray2_bottom_top, ReadAt
    <2>2. RowSets(i) = CallsOf(sets, i) /\ RowSets(i) \in SUBSET DOMAIN sets
      BY DEF RowSets, CallsOf
    <2>3. CASE row = Zero /\ CallsOf(sets, i) = {}
      <3>1. xarray_left_right(xarray_alloc) = Limits(2, RowSets(i))
        <4>1. RowHolds(sets, i, xarray_alloc)
          BY <2>3, FreshRow
        <4>2. \A left \in BOOLEAN :
                 IsFar(sets, 2, OnSide(sets, 2, RowSets(i), left), Side(xarray_alloc, left).size)
          BY <2>2, <4>1 DEF RowHolds
        <4> QED
          BY <1>1, <2>2, <4>2, LimitsAre
      <3>2. xarray_left_right(xarray_alloc) = << 0, 0 >>
        BY DEF xarray_left_right, xarray_alloc, xarrayp_alloc
      <3> QED
        BY <2>1, <2>3, <3>1, <3>2
    <2>4. CASE row # Zero /\ RowHolds(sets, i, row)
      <3> HIDE DEF row
      <3>1. \A left \in BOOLEAN :
               IsFar(sets, 2, OnSide(sets, 2, RowSets(i), left), Side(row, left).size)
        BY <2>2, <2>4 DEF RowHolds
      <3>2. xarray_left_right(row) = Limits(2, RowSets(i))
        BY <1>1, <2>2, <3>1, LimitsAre
      <3> QED
        BY <2>1, <2>4, <3>2
    <2> QED
      BY <1>2, <2>3, <2>4
  <1>6. Roomy(arr2.positive) /\ Roomy(arr2.nagetive)
    BY <1>1 DEF BothSound, CellsSound
  <1>7. ASSUME NEW i \in Index, xarray_get(arr2, i)[2] # Zero
        PROVE  Roomy(xarray_get(arr2, i)[2].positive) /\ Roomy(xarray_get(arr2, i)[2].nagetive)
    <2>1. RowHolds(sets, i, xarray_get(arr2, i)[2])
      BY <1>2, <1>7 DEF ReadAt
    <2> QED
      BY <2>1 DEF RowHolds, BothSound, CellsSound
  <1> QED
    BY <1>3, <1>4, <1>5, <1>6, <1>7, Zenon DEF ArrayReads, AsFar

\* Whatever elements are set, in whatever order: every element reads as it was last set, one
\* that was not as zero; one is missing when none so far out has been set in its row, and the
\* limits say how far that is; and the pointers to the cells have the room they take
\* (xarrayp_set and xarrayp_get, xarray.cpp, under xarray2_set and xarray2_get).
THEOREM ElementsReadBack == ArraySpec => []ArrayReads
  <1>1. ArrayInit => ArrayInv
    BY NothingSet DEF ArrayInit
  <1> QED
    BY <1>1, NextArrayInv, ArrayInvReads, PTL DEF ArraySpec

-----------------------------------------------------------------------------
(* Places in the heap.                                                     *)

LEMMA ParentFacts ==
    ASSUME NEW n \in Nat, NEW k \in 2..n
    PROVE  /\ Parent(k) \in 1..n /\ Parent(k) < k
           /\ k = 2 * Parent(k) \/ k = 2 * Parent(k) + 1
  <1>1. k \in Nat /\ k >= 2 /\ k <= n
    OBVIOUS
  <1>2. k \div 2 \in Nat /\ k = 2 * (k \div 2) + (k % 2) /\ k % 2 \in 0..1
    BY <1>1
  <1> QED
    BY <1>1, <1>2 DEF Parent

LEMMA ChildFacts ==
    ASSUME NEW i \in Nat
    PROVE  Parent(2 * i) = i /\ Parent(2 * i + 1) = i
  BY DEF Parent

-----------------------------------------------------------------------------
(* The nodes and their places.                                             *)

NodeType == [weight : Weight, idx : Nat]

\* The node at each place has its index, and an index is that of a place with the node.
HeapOk(h, n) ==
    /\ h \in Seq(Ref) /\ n \in [Ref -> NodeType]
    /\ \A i \in 1..Len(h) : n[h[i]].idx = i
    /\ \A ref \in Ref : n[ref].idx # 0 => n[ref].idx \in 1..Len(h) /\ h[n[ref].idx] = ref

LoopOk(s) ==
    /\ s = [heap |-> s.heap, node |-> s.node, at |-> s.at]
    /\ HeapOk(s.heap, s.node) /\ s.at \in 1..Len(s.heap)

W(s, i) == WeightAt(s.heap, s.node, i)

\* Nodes are moved, not changed.
Kept(t, s) ==
    /\ LoopOk(t) /\ Len(t.heap) = Len(s.heap)
    /\ \A ref \in Ref : /\ t.node[ref].weight = s.node[ref].weight
                        /\ t.node[ref].idx = 0 <=> s.node[ref].idx = 0

\* Two of them have changed places.
Exchanged(t, s, j) ==
    /\ Kept(t, s) /\ t.at = j
    /\ \A k \in 1..Len(s.heap) : W(t, k) = IF k = s.at THEN W(s, j)
                                           ELSE IF k = j THEN W(s, s.at) ELSE W(s, k)

LEMMA WeightsAre ==
    ASSUME NEW s, LoopOk(s), NEW k \in 1..Len(s.heap)
    PROVE  W(s, k) \in Int
  <1>1. s.heap[k] \in Ref /\ s.node \in [Ref -> NodeType]
    BY DEF LoopOk, HeapOk
  <1>2. s.node[s.heap[k]] \in NodeType
    BY <1>1
  <1> QED
    BY <1>2, WeightAssumption DEF W, WeightAt, NodeType

LEMMA ExchangeStep ==
    ASSUME NEW s, LoopOk(s), NEW j \in 1..Len(s.heap), j # s.at
    PROVE  Exchanged(xbigheap_exchange(s, s.at, j), s, j)
  <1> DEFINE i == s.at
             h == s.heap
             n == s.node
             g == [h EXCEPT ![i] = h[j], ![j] = h[i]]
             m == [n EXCEPT ![h[j]].idx = i, ![h[i]].idx = j]
             t == xbigheap_exchange(s, i, j)
  <1>1. /\ h \in Seq(Ref) /\ n \in [Ref -> NodeType] /\ i \in 1..Len(h) /\ j \in 1..Len(h) /\ i # j
        /\ \A k \in 1..Len(h) : n[h[k]].idx = k
        /\ \A ref \in Ref : n[ref].idx # 0 => n[ref].idx \in 1..Len(h) /\ h[n[ref].idx] = ref
    BY DEF LoopOk, HeapOk
  <1>2. t = [heap |-> g, node |-> m, at |-> j]
    BY DEF xbigheap_exchange
  <1> HIDE DEF i, h, n
  <1>3. Len(h) \in Nat /\ h \in [1..Len(h) -> Ref]
    BY <1>1
  <1>4. h[i] \in Ref /\ h[j] \in Ref /\ h[i] # h[j]
    BY <1>1, <1>3
  <1>5. /\ g \in [1..Len(h) -> Ref]
        /\ \A k \in 1..Len(h) : g[k] = IF k = i THEN h[j] ELSE IF k = j THEN h[i] ELSE h[k]
    BY <1>1, <1>3, <1>4
  <1>6. g \in Seq(Ref) /\ Len(g) = Len(h)
    <2>1. g \in [1..Len(h) -> Ref] /\ Len(h) \in Nat
      BY <1>3, <1>5
    <2> HIDE DEF g
    <2> QED
      BY <2>1
  <1>7. /\ m \in [Ref -> NodeType]
        /\ \A ref \in Ref : /\ m[ref].weight = n[ref].weight
                            /\ m[ref].idx = IF ref = h[j] THEN i ELSE IF ref = h[i] THEN j
                                            ELSE n[ref].idx
    <2> DEFINE a == [n EXCEPT ![h[j]] = [n[h[j]] EXCEPT !.idx = i]]
    <2>1. m = [a EXCEPT ![h[i]] = [a[h[i]] EXCEPT !.idx = j]]
      OBVIOUS
    <2>2. \A ref \in Ref : n[ref] \in NodeType
      BY <1>1
    <2>3. /\ a \in [Ref -> NodeType]
          /\ \A ref \in Ref : a[ref] = IF ref = h[j] THEN [n[ref] EXCEPT !.idx = i] ELSE n[ref]
      <3>1. [n[h[j]] EXCEPT !.idx = i] \in NodeType
        BY <1>1, <1>3, <1>4, <2>2 DEF NodeType
      <3> QED
        BY <1>1, <1>4, <3>1
    <2> HIDE DEF a, m
    <2>4. [a[h[i]] EXCEPT !.idx = j] \in NodeType
      <3>1. j \in Nat
        BY <1>1, <1>3
      <3>2. a[h[i]] \in NodeType
        BY <1>4, <2>3
      <3> QED
        BY <3>1, <3>2 DEF NodeType
    <2>5. m \in [Ref -> NodeType]
      BY <1>4, <2>1, <2>3, <2>4
    <2>6. \A ref \in Ref : m[ref] = IF ref = h[i] THEN [n[ref] EXCEPT !.idx = j]
                                    ELSE IF ref = h[j] THEN [n[ref] EXCEPT !.idx = i] ELSE n[ref]
      BY <1>4, <2>1, <2>3
    <2>7. ASSUME NEW ref \in Ref
          PROVE  /\ m[ref].weight = n[ref].weight
                 /\ m[ref].idx = IF ref = h[j] THEN i ELSE IF ref = h[i] THEN j ELSE n[ref].idx
      BY <1>4, <2>2, <2>6 DEF NodeType
    <2> QED
      BY <2>5, <2>7
  <1> HIDE DEF g, m, t
  <1>8. t.heap = g /\ t.node = m /\ t.at = j
    BY <1>2
  <1>9. HeapOk(g, m)
    <2>1. ASSUME NEW k \in 1..Len(g) PROVE m[g[k]].idx = k
      <3>1. k \in 1..Len(h) /\ h[k] \in Ref /\ n[h[k]].idx = k
        BY <1>1, <1>3, <1>6
      <3>2. n[h[i]].idx = i /\ n[h[j]].idx = j
        BY <1>1
      <3>3. g[k] = IF k = i THEN h[j] ELSE IF k = j THEN h[i] ELSE h[k]
        BY <1>5, <3>1
      <3>4. k # i /\ k # j => h[k] # h[i] /\ h[k] # h[j]
        BY <3>1, <3>2
      <3> QED
        BY <1>4, <1>7, <3>1, <3>3, <3>4
    <2>2. ASSUME NEW ref \in Ref, m[ref].idx # 0
          PROVE  m[ref].idx \in 1..Len(g) /\ g[m[ref].idx] = ref
      BY <1>1, <1>3, <1>4, <1>5, <1>6, <1>7, <2>2
    <2> QED
      BY <1>6, <1>7, <2>1, <2>2 DEF HeapOk
  <1>10. Kept(t, s)
    <2>1. ASSUME NEW ref \in Ref PROVE m[ref].idx = 0 <=> n[ref].idx = 0
      <3>1. n[h[i]].idx = i /\ n[h[j]].idx = j /\ i # 0 /\ j # 0
        BY <1>1, <1>3
      <3>2. m[ref].idx = IF ref = h[j] THEN i ELSE IF ref = h[i] THEN j ELSE n[ref].idx
        BY <1>7
      <3> QED
        BY <3>1, <3>2
    <2> QED
      BY <1>1, <1>2, <1>6, <1>7, <1>8, <1>9, <2>1 DEF Kept, LoopOk, h, n
  <1>11. ASSUME NEW k \in 1..Len(h)
         PROVE  W(t, k) = IF k = i THEN W(s, j) ELSE IF k = j THEN W(s, i) ELSE W(s, k)
    <2>1. g[k] \in Ref
      BY <1>5
    <2>2. W(t, k) = n[g[k]].weight
      BY <1>7, <1>8, <2>1 DEF W, WeightAt
    <2>3. \A l \in 1..Len(h) : W(s, l) = n[h[l]].weight
      BY DEF W, WeightAt, h, n
    <2> QED
      BY <1>1, <1>5, <2>2, <2>3
  <1> QED
    BY <1>8, <1>10, <1>11 DEF Exchanged, t, i, h

-----------------------------------------------------------------------------
(* The two loops.                                                          *)

Ordered(s, k) == W(s, k) <= W(s, Parent(k))

\* Only the node that swims may be heavier than its parent, only those above the one that
\* sinks lighter than their children; and what is below it is in order with what is above.
Skips(s, k) == Parent(k) = s.at /\ s.at > 1 => W(s, k) <= W(s, Parent(s.at))
UpOrder(s) == \A k \in 2..Len(s.heap) : (k # s.at => Ordered(s, k)) /\ Skips(s, k)
DownOrder(s) == \A k \in 2..Len(s.heap) : (Parent(k) # s.at => Ordered(s, k)) /\ Skips(s, k)

LEMMA KeptItself ==
    ASSUME NEW s, LoopOk(s)
    PROVE  Kept(s, s)
  BY DEF Kept

LEMMA SwimsTo ==
    ASSUME NEW s, LoopOk(s), SwimTo(s) # s.at
    PROVE  /\ SwimTo(s) = Parent(s.at) /\ s.at \in 2..Len(s.heap)
           /\ W(s, s.at) > W(s, Parent(s.at))
  BY DEF SwimTo, LoopOk, W

LEMMA SinksTo ==
    ASSUME NEW s, LoopOk(s), SinkTo(s) # s.at
    PROVE  /\ SinkTo(s) \in {2 * s.at, 2 * s.at + 1} /\ 2 * s.at + 1 \in 2..Len(s.heap)
           /\ W(s, 2 * s.at) <= W(s, SinkTo(s)) /\ W(s, 2 * s.at + 1) <= W(s, SinkTo(s))
           /\ W(s, s.at) < W(s, SinkTo(s))
  <1>1. /\ 2 * s.at < Len(s.heap) /\ W(s, s.at) < W(s, HeavierChild(s))
        /\ SinkTo(s) = HeavierChild(s)
    BY DEF SinkTo, W
  <1>2. s.at \in Nat /\ s.at >= 1 /\ Len(s.heap) \in Nat
    BY DEF LoopOk, HeapOk
  <1>3. 2 * s.at \in 1..Len(s.heap) /\ 2 * s.at + 1 \in 2..Len(s.heap)
    BY <1>1, <1>2
  <1>4. W(s, 2 * s.at) \in Int /\ W(s, 2 * s.at + 1) \in Int
    BY <1>3, WeightsAre
  <1>5. HeavierChild(s) = IF W(s, 2 * s.at) < W(s, 2 * s.at + 1) THEN 2 * s.at + 1 ELSE 2 * s.at
    BY DEF HeavierChild, W
  <1> QED
    BY <1>1, <1>3, <1>4, <1>5

\* A round of swimming keeps that order.
LEMMA UpTurn ==
    ASSUME NEW s, LoopOk(s), SwimTo(s) # s.at, NEW t, Exchanged(t, s, SwimTo(s)), UpOrder(s)
    PROVE  UpOrder(t)
  <1> DEFINE i == s.at
             p == Parent(i)
             n == Len(s.heap)
  <1>1. /\ i \in 2..n /\ W(s, i) > W(s, p) /\ n \in Nat /\ SwimTo(s) = p
    BY SwimsTo DEF LoopOk, HeapOk
  <1>2. /\ t.at = p /\ Len(t.heap) = n
        /\ \A k \in 1..n : W(t, k) = IF k = i THEN W(s, p) ELSE IF k = p THEN W(s, i) ELSE W(s, k)
    BY <1>1 DEF Exchanged, Kept
  <1>3. \A k \in 2..n : (k # i => W(s, k) <= W(s, Parent(k))) /\ (Parent(k) = i => W(s, k) <= W(s, p))
    BY <1>1 DEF UpOrder, Skips, Ordered
  <1>4. \A k \in 1..n : W(s, k) \in Int
    BY WeightsAre
  <1>5. \A k \in 2..n : Parent(k) \in 1..n /\ Parent(k) < k
    BY <1>1, ParentFacts
  <1>6. p \in 1..n /\ p < i
    BY <1>1, <1>5
  <1> HIDE DEF i, p, n
  <1>7. ASSUME NEW k \in 2..n, k # p PROVE W(t, k) <= W(t, Parent(k))
    <2>1. k \in 1..n /\ Parent(k) \in 1..n /\ Parent(k) < k
      BY <1>5
    <2>2. CASE k = i
      BY <1>1, <1>2, <1>4, <1>6, <2>1, <2>2 DEF p
    <2>3. CASE k # i
      <3>1. W(t, k) = W(s, k) /\ W(s, k) <= W(s, Parent(k))
        BY <1>2, <1>3, <1>7, <2>1, <2>3
      <3>2. CASE Parent(k) = i
        BY <1>2, <1>3, <1>6, <2>1, <3>1, <3>2
      <3>3. CASE Parent(k) = p
        BY <1>1, <1>2, <1>4, <1>6, <2>1, <3>1, <3>3
      <3>4. CASE Parent(k) # i /\ Parent(k) # p
        BY <1>2, <2>1, <3>1, <3>4
      <3> QED
        BY <3>2, <3>3, <3>4
    <2> QED
      BY <2>2, <2>3
  <1>8. ASSUME NEW k \in 2..n, Parent(k) = p, p > 1 PROVE W(t, k) <= W(t, Parent(p))
    <2>1. k \in 1..n /\ p \in 2..n /\ Parent(p) \in 1..n /\ Parent(p) < p /\ k # p
      BY <1>5, <1>6, <1>8
    <2>2. W(t, Parent(p)) = W(s, Parent(p))
      BY <1>2, <1>6, <2>1
    <2>3. W(s, p) <= W(s, Parent(p))
      BY <1>3, <1>6, <2>1
    <2>4. W(t, k) = IF k = i THEN W(s, p) ELSE W(s, k)
      BY <1>2, <2>1
    <2>5. k # i => W(s, k) <= W(s, p)
      BY <1>3, <1>8
    <2> QED
      BY <1>4, <1>6, <2>1, <2>2, <2>3, <2>4, <2>5
  <1> QED
    BY <1>2, <1>7, <1>8 DEF UpOrder, Skips, Ordered

\* A round of sinking keeps that order.
LEMMA DownTurn ==
    ASSUME NEW s, LoopOk(s), SinkTo(s) # s.at, NEW t, Exchanged(t, s, SinkTo(s)), DownOrder(s)
    PROVE  DownOrder(t)
  <1> DEFINE i == s.at
             m == SinkTo(s)
             n == Len(s.heap)
  <1>1. /\ i \in 1..n /\ n \in Nat /\ m \in 2..n /\ Parent(m) = i /\ W(s, i) < W(s, m) /\ i < m
        /\ \A k \in {2 * i, 2 * i + 1} : W(s, k) <= W(s, m)
    <2>1. /\ m \in {2 * i, 2 * i + 1} /\ 2 * i + 1 \in 2..n
          /\ W(s, 2 * i) <= W(s, m) /\ W(s, 2 * i + 1) <= W(s, m) /\ W(s, i) < W(s, m)
      BY SinksTo
    <2>2. i \in 1..n /\ n \in Nat
      BY DEF LoopOk, HeapOk
    <2> HIDE DEF i, m, n
    <2>3. m \in 2..n /\ i < m
      BY <2>1, <2>2
    <2>4. Parent(m) = i
      BY <2>1, <2>2, ChildFacts
    <2> QED
      BY <2>1, <2>2, <2>3, <2>4
  <1>2. /\ t.at = m /\ Len(t.heap) = n
        /\ \A k \in 1..n : W(t, k) = IF k = i THEN W(s, m) ELSE IF k = m THEN W(s, i) ELSE W(s, k)
    BY DEF Exchanged, Kept
  <1>3. \A k \in 2..n : /\ Parent(k) # i => W(s, k) <= W(s, Parent(k))
                        /\ Parent(k) = i /\ i > 1 => W(s, k) <= W(s, Parent(i))
    BY DEF DownOrder, Skips, Ordered
  <1>4. \A k \in 1..n : W(s, k) \in Int
    BY WeightsAre
  <1>5. \A k \in 2..n : /\ Parent(k) \in 1..n /\ Parent(k) < k
                        /\ Parent(k) = i => k \in {2 * i, 2 * i + 1}
    BY <1>1, ParentFacts
  <1> HIDE DEF i, m, n
  <1>6. ASSUME NEW k \in 2..n, Parent(k) # m PROVE W(t, k) <= W(t, Parent(k))
    <2>1. k \in 1..n /\ Parent(k) \in 1..n /\ Parent(k) < k
      BY <1>5
    <2>2. CASE Parent(k) = i
      <3>1. W(s, k) <= W(s, m) /\ W(t, i) = W(s, m) /\ k # i
        <4>1. W(s, k) <= W(s, m)
          BY <1>1, <1>5, <2>2
        <4>2. W(t, i) = W(s, m)
          BY <1>1, <1>2
        <4> QED
          BY <2>1, <2>2, <4>1, <4>2
      <3>2. W(t, k) = IF k = m THEN W(s, i) ELSE W(s, k)
        BY <1>2, <2>1, <3>1
      <3> QED
        BY <1>1, <1>4, <2>2, <3>1, <3>2
    <2>3. CASE Parent(k) # i
      <3>1. W(s, k) <= W(s, Parent(k)) /\ W(t, Parent(k)) = W(s, Parent(k)) /\ k # m
        BY <1>1, <1>2, <1>3, <1>6, <2>1, <2>3
      <3>2. CASE k = i
        <4>1. W(s, m) <= W(s, Parent(i))
          BY <1>1, <1>3, <3>2
        <4> QED
          BY <1>2, <2>1, <3>1, <3>2, <4>1
      <3>3. CASE k # i
        BY <1>2, <2>1, <3>1, <3>3
      <3> QED
        BY <3>2, <3>3
    <2> QED
      BY <2>2, <2>3
  <1>7. ASSUME NEW k \in 2..n, Parent(k) = m PROVE W(t, k) <= W(t, Parent(m))
    <2>1. k \in 1..n /\ m < k /\ k # i /\ k # m
      BY <1>1, <1>5, <1>7
    <2>2. W(s, k) <= W(s, m)
      BY <1>1, <1>3, <1>7
    <2>3. W(t, k) = W(s, k) /\ W(t, i) = W(s, m)
      BY <1>1, <1>2, <2>1
    <2> QED
      BY <1>1, <2>2, <2>3
  <1> QED
    BY <1>2, <1>6, <1>7 DEF DownOrder, Skips, Ordered

\* One round of either: the nodes are kept, and it has gone up or down or not at all.
Advances(t, s, swims) ==
    /\ Kept(t, s)
    /\ IF swims THEN UpOrder(s) => UpOrder(t) ELSE DownOrder(s) => DownOrder(t)
    /\ t # s => IF swims THEN t.at < s.at ELSE t.at > s.at

LEMMA TurnStep ==
    ASSUME NEW s, LoopOk(s), NEW swims \in BOOLEAN
    PROVE  Advances(Turn(s, swims), s, swims)
  <1> DEFINE to == IF swims THEN SwimTo(s) ELSE SinkTo(s)
             t == Turn(s, swims)
  <1>1. t = Goes(s, to)
    BY DEF Turn
  <1>2. CASE to = s.at
    <2>1. t = s
      BY <1>1, <1>2 DEF Goes
    <2> HIDE DEF t
    <2> QED
      BY <2>1, KeptItself DEF Advances, t
  <1>3. CASE to # s.at
    <2>1. /\ to \in 1..Len(s.heap) /\ s.at \in 1..Len(s.heap) /\ Len(s.heap) \in Nat
          /\ IF swims THEN to < s.at ELSE to > s.at
      <3>1. s.at \in 1..Len(s.heap) /\ Len(s.heap) \in Nat
        BY DEF LoopOk, HeapOk
      <3>2. CASE swims
        <4>1. to = Parent(s.at) /\ s.at \in 2..Len(s.heap)
          BY <1>3, <3>2, SwimsTo
        <4> HIDE DEF to
        <4> QED
          BY <3>1, <3>2, <4>1, ParentFacts
      <3>3. CASE ~ swims
        <4>1. to \in {2 * s.at, 2 * s.at + 1} /\ 2 * s.at + 1 \in 2..Len(s.heap)
          BY <1>3, <3>3, SinksTo
        <4> HIDE DEF to
        <4> QED
          BY <3>1, <3>3, <4>1
      <3> QED
        BY <3>2, <3>3
    <2>2. t = xbigheap_exchange(s, s.at, to)
      BY <1>1, <1>3 DEF Goes
    <2> HIDE DEF t, to
    <2>3. Exchanged(t, s, to)
      BY <1>3, <2>1, <2>2, ExchangeStep
    <2>4. Kept(t, s) /\ t.at = to
      BY <2>3 DEF Exchanged
    <2>5. swims /\ UpOrder(s) => UpOrder(t)
      BY <1>3, <2>3, UpTurn DEF to
    <2>6. ~ swims /\ DownOrder(s) => DownOrder(t)
      BY <1>3, <2>3, DownTurn DEF to
    <2> QED
      BY <2>1, <2>4, <2>5, <2>6 DEF Advances, t
  <1> QED
    BY <1>2, <1>3

\* The turns follow one another: the function that defines them exists.
LoopType == [heap : Seq(Ref), node : [Ref -> NodeType], at : Nat]

LEMMA LoopTyped ==
    ASSUME NEW s, LoopOk(s)
    PROVE  s \in LoopType
  <1>1. /\ s = [heap |-> s.heap, node |-> s.node, at |-> s.at]
        /\ s.heap \in Seq(Ref) /\ s.node \in [Ref -> NodeType] /\ s.at \in Nat
    BY DEF LoopOk, HeapOk
  <1> QED
    BY <1>1 DEF LoopType

LEMMA TurnsFollow ==
    ASSUME NEW s, LoopOk(s), NEW swims \in BOOLEAN
    PROVE  /\ Turns(s, swims)[0] = s
           /\ \A k \in 1..Len(s.heap) : Turns(s, swims)[k] = Turn(Turns(s, swims)[k-1], swims)
  <1> DEFINE N == Len(s.heap)
             D(f) == [k \in 0..N |-> IF k = 0 THEN s ELSE Turn(f[k-1], swims)]
             c == CHOOSE f : f = D(f)
             S == {l \in LoopType : LoopOk(l)}
             g == [k \in 1..N |-> [l \in S |-> Turn(l, swims)]]
  <1>1. N \in Nat
    BY DEF LoopOk, HeapOk
  <1>2. \A l \in S : Turn(l, swims) \in S
    <2>1. ASSUME NEW l \in S PROVE Turn(l, swims) \in S
      <3>1. LoopOk(Turn(l, swims))
        <4>1. LoopOk(l)
          OBVIOUS
        <4> HIDE DEF S
        <4> QED
          BY <4>1, TurnStep DEF Advances, Kept
      <3> QED
        BY <3>1, LoopTyped
    <2> QED
      BY <2>1
  <1>3. s \in S
    BY LoopTyped
  <1> HIDE DEF S
  <1>4. g \in Steps(N, S) /\ \A k \in 1..N : \A l \in S : g[k][l] = Turn(l, swims)
    BY <1>2 DEF Steps
  <1> HIDE DEF g
  <1>5. PICK b \in [0..N -> S] : Follows(b, N, s, g)
    BY <1>1, <1>3, <1>4, StepsExist
  <1>6. b[0] = s /\ \A k \in 1..N : b[k] = Turn(b[k-1], swims)
    <2>1. \A k \in 1..N : k - 1 \in 0..N
      BY <1>1
    <2> QED
      BY <1>4, <1>5, <2>1 DEF Follows
  <1>7. b = D(b)
    <2>1. \A k \in 0..N : b[k] = IF k = 0 THEN s ELSE Turn(b[k-1], swims)
      <3>1. \A k \in 0..N : k # 0 => k \in 1..N
        BY <1>1
      <3> QED
        BY <1>6, <3>1
    <2> HIDE DEF N
    <2> QED
      BY <1>5, <2>1
  <1>8. c = D(c)
    <2> HIDE DEF D
    <2> QED
      BY <1>7
  <1>9. Turns(s, swims) = c
    BY DEF Turns
  <1> HIDE DEF c
  <1>10. ASSUME NEW k \in 0..N PROVE c[k] = IF k = 0 THEN s ELSE Turn(c[k-1], swims)
    <2>1. c[k] = D(c)[k]
      BY <1>8
    <2> QED
      BY <2>1
  <1>11. c[0] = s /\ \A k \in 1..N : c[k] = Turn(c[k-1], swims)
    <2>1. 0 \in 0..N /\ \A k \in 1..N : k \in 0..N /\ k # 0
      BY <1>1
    <2> QED
      BY <1>10, <2>1
  <1> QED
    BY <1>9, <1>11 DEF N

LEMMA KeptTwice ==
    ASSUME NEW s, NEW t, NEW u, Kept(t, s), Kept(u, t)
    PROVE  Kept(u, s)
  BY DEF Kept

\* The loop ends: after as many rounds as there are places it turns no further.
LEMMA LoopEnds ==
    ASSUME NEW s, LoopOk(s), NEW swims \in BOOLEAN, NEW e, e = Turns(s, swims)[Len(s.heap)]
    PROVE  /\ Kept(e, s) /\ Turn(e, swims) = e
           /\ IF swims THEN UpOrder(s) => UpOrder(e) ELSE DownOrder(s) => DownOrder(e)
  <1> DEFINE N == Len(s.heap)
             r == Turns(s, swims)
             Far(k) == IF swims THEN r[k].at <= N - k ELSE r[k].at > k
             Order(t) == IF swims THEN UpOrder(t) ELSE DownOrder(t)
             P == {k \in Nat : /\ Kept(r[k], s) /\ (Order(s) => Order(r[k]))
                               /\ Turn(r[k], swims) = r[k] \/ Far(k)}
  <1>1. N \in Nat /\ s.at \in 1..N
    BY DEF LoopOk, HeapOk
  <1>2. r[0] = s /\ \A k \in 1..N : r[k] = Turn(r[k-1], swims)
    BY TurnsFollow
  <1> HIDE DEF N, r
  <1>3. 0 \in P
    BY <1>1, <1>2, KeptItself
  <1>4. ASSUME NEW k \in 1..N, k - 1 \in P PROVE k \in P
    <2> DEFINE l == r[k-1]
    <2>1. /\ Kept(l, s) /\ (Order(s) => Order(l))
          /\ Turn(l, swims) = l \/ Far(k - 1)
      BY <1>4
    <2>2. r[k] = Turn(l, swims)
      BY <1>2
    <2>3. Advances(r[k], l, swims) /\ LoopOk(l)
      BY <2>1, <2>2, TurnStep DEF Kept
    <2>4. Kept(r[k], s) /\ (Order(s) => Order(r[k]))
      <3>1. Kept(r[k], l) /\ (Order(l) => Order(r[k]))
        BY <2>3 DEF Advances
      <3> HIDE DEF Order, l
      <3> QED
        BY <2>1, <3>1, KeptTwice
    <2>5. Turn(r[k], swims) = r[k] \/ Far(k)
      <3>1. CASE r[k] = l
        BY <2>2, <3>1
      <3>2. CASE r[k] # l
        <4>1. IF swims THEN l.at <= N - (k - 1) ELSE l.at > k - 1
          BY <2>1, <2>2, <3>2
        <4>2. IF swims THEN r[k].at < l.at ELSE r[k].at > l.at
          BY <2>3, <3>2 DEF Advances
        <4>3. r[k].at \in Int /\ l.at \in Int
          <5>1. LoopOk(r[k]) /\ LoopOk(l)
            BY <2>3, <2>4 DEF Kept
          <5> QED
            BY <5>1 DEF LoopOk
        <4> HIDE DEF l
        <4> QED
          BY <1>1, <4>1, <4>2, <4>3
      <3> QED
        BY <3>1, <3>2
    <2> HIDE DEF Order, Far, l
    <2> QED
      BY <1>4, <2>4, <2>5
  <1>5. N \in P
    <2>1. P \in SUBSET Nat
      OBVIOUS
    <2> HIDE DEF P
    <2>2. \A k \in 0..N : k \in P
      BY <1>1, <1>3, <1>4, <2>1, StepByStep
    <2> QED
      BY <1>1, <2>2
  <1>6. e = r[N]
    BY DEF r, N
  <1>7. ~ Far(N)
    <2>1. r[N].at \in 1..N
      BY <1>5 DEF Kept, LoopOk, N
    <2> QED
      BY <1>1, <2>1
  <1> QED
    BY <1>5, <1>6, <1>7

LEMMA TurnsNoMore ==
    ASSUME NEW s, LoopOk(s)
    PROVE  /\ Turn(s, TRUE) = s => SwimTo(s) = s.at
           /\ Turn(s, FALSE) = s => SinkTo(s) = s.at
  <1>1. ASSUME NEW to PROVE xbigheap_exchange(s, s.at, to).at = to
    BY DEF xbigheap_exchange
  <1>2. \A to : Goes(s, to) = s => to = s.at
    BY <1>1 DEF Goes
  <1> QED
    BY <1>2 DEF Turn

InOrder(s) == \A k \in 2..Len(s.heap) : Ordered(s, k)
AllButLast(s) == \A k \in 2..Len(s.heap) : Ordered(s, k) \/ (k = Len(s.heap) /\ k % 2 = 0)

\* Where the loop starts with only one node out of place, it ends with none, or with
\* the last one, if that is an only child.
LEMMA SwimResult ==
    ASSUME NEW s, LoopOk(s)
    PROVE  Kept(xbigheap_swim(s), s) /\ (UpOrder(s) => InOrder(xbigheap_swim(s)))
  <1> DEFINE e == xbigheap_swim(s)
  <1>1. e = Turns(s, TRUE)[Len(s.heap)]
    BY DEF xbigheap_swim
  <1> HIDE DEF e
  <1>2. Kept(e, s) /\ Turn(e, TRUE) = e /\ (UpOrder(s) => UpOrder(e))
    BY <1>1, LoopEnds
  <1>3. LoopOk(e) /\ SwimTo(e) = e.at
    BY <1>2, TurnsNoMore DEF Kept
  <1>4. ASSUME UpOrder(e) PROVE InOrder(e)
    <2>1. Len(e.heap) \in Nat
      BY <1>3 DEF LoopOk, HeapOk
    <2>2. ASSUME NEW k \in 2..Len(e.heap) PROVE Ordered(e, k)
      <3>1. CASE k # e.at
        BY <1>4, <3>1 DEF UpOrder
      <3>2. CASE k = e.at
        <4>1. Parent(k) < k /\ Parent(k) \in 1..Len(e.heap) /\ k > 1
          BY <2>1, ParentFacts
        <4>2. ~ (W(e, k) > W(e, Parent(k)))
          <5>1. Parent(k) # k
            BY <2>1, <4>1
          <5> QED
            BY <1>3, <3>2, <4>1, <5>1 DEF SwimTo, W
        <4>3. W(e, k) \in Int /\ W(e, Parent(k)) \in Int
          BY <1>3, <2>1, <4>1, WeightsAre
        <4> QED
          BY <4>2, <4>3 DEF Ordered
      <3> QED
        BY <3>1, <3>2
    <2> QED
      BY <2>2 DEF InOrder
  <1> QED
    BY <1>2, <1>4 DEF e

LEMMA SinkResult ==
    ASSUME NEW s, LoopOk(s)
    PROVE  Kept(xbigheap_sink(s), s) /\ (DownOrder(s) => AllButLast(xbigheap_sink(s)))
  <1> DEFINE e == xbigheap_sink(s)
             n == Len(e.heap)
             i == e.at
  <1>1. e = Turns(s, FALSE)[Len(s.heap)]
    BY DEF xbigheap_sink
  <1> HIDE DEF e
  <1>2. Kept(e, s) /\ Turn(e, FALSE) = e /\ (DownOrder(s) => DownOrder(e))
    BY <1>1, LoopEnds
  <1>3. LoopOk(e) /\ SinkTo(e) = i
    BY <1>2, TurnsNoMore DEF Kept
  <1>4. i \in 1..n /\ n \in Nat
    BY <1>3 DEF LoopOk, HeapOk
  <1>5. \/ 2 * i >= n
        \/ /\ W(e, 2 * i) <= W(e, i) /\ W(e, 2 * i + 1) <= W(e, i)
    <2>1. ASSUME 2 * i < n PROVE W(e, 2 * i) <= W(e, i) /\ W(e, 2 * i + 1) <= W(e, i)
      <3>1. HeavierChild(e) = IF W(e, 2 * i) < W(e, 2 * i + 1) THEN 2 * i + 1 ELSE 2 * i
        BY DEF HeavierChild, W
      <3>2. HeavierChild(e) # i
        BY <1>4, <3>1
      <3>3. ~ (W(e, i) < W(e, HeavierChild(e)))
        BY <1>3, <2>1, <3>2 DEF SinkTo, W
      <3>4. 2 * i \in 1..n /\ 2 * i + 1 \in 1..n
        BY <1>4, <2>1
      <3>5. W(e, 2 * i) \in Int /\ W(e, 2 * i + 1) \in Int /\ W(e, i) \in Int
        BY <1>3, <1>4, <3>4, WeightsAre
      <3> QED
        BY <3>1, <3>3, <3>5
    <2> QED
      BY <1>4, <2>1
  <1>6. ASSUME DownOrder(e), NEW k \in 2..n PROVE Ordered(e, k) \/ (k = n /\ k % 2 = 0)
    <2>1. CASE Parent(k) # i
      BY <1>6, <2>1 DEF DownOrder
    <2>2. CASE Parent(k) = i
      <3>1. k = 2 * i \/ k = 2 * i + 1
        BY <1>4, <2>2, ParentFacts
      <3>2. CASE 2 * i >= n
        <4>1. k = 2 * i /\ k = n
          BY <1>4, <3>1, <3>2
        <4> QED
          BY <1>4, <4>1
      <3>3. CASE W(e, 2 * i) <= W(e, i) /\ W(e, 2 * i + 1) <= W(e, i)
        BY <2>2, <3>1, <3>3 DEF Ordered
      <3> QED
        BY <1>5, <3>2, <3>3
    <2> QED
      BY <2>1, <2>2
  <1> QED
    BY <1>2, <1>6 DEF AllButLast, e

-----------------------------------------------------------------------------
(* The calls.                                                              *)

HeapInv == HeapOk(heap, node)

\* The two halves of HeapKeepsOrder: what is handed out, and what order is left.
HandsOut ==
    \A ref \in Ref : Held(ref) /\ node'[ref].idx = 0 =>
        \A other \in Ref : Held(other) => node[other].weight <= node[ref].weight
Leaves == \A i \in OutOfOrder(heap', node') : i = Len(heap') /\ i % 2 = 0
CallDone == HeapInv' /\ (OutOfOrder(heap, node) = {} => HandsOut /\ Leaves)

LEMMA NodesAre ==
    ASSUME HeapInv, NEW ref \in Ref
    PROVE  /\ node[ref].weight \in Weight /\ node[ref].weight \in Int /\ node[ref].idx \in Nat
           /\ node[ref] = [weight |-> node[ref].weight, idx |-> node[ref].idx]
  <1>1. node[ref] \in NodeType
    BY DEF HeapInv, HeapOk
  <1> QED
    BY <1>1, WeightAssumption DEF NodeType

LEMMA HeapWeights ==
    ASSUME HeapInv, NEW k \in 1..Len(heap)
    PROVE  WeightAt(heap, node, k) \in Int
  <1>1. heap[k] \in Ref
    BY DEF HeapInv, HeapOk
  <1> QED
    BY <1>1, NodesAre DEF WeightAt

LEMMA InOrderIs ==
    ASSUME HeapInv, OutOfOrder(heap, node) = {}, NEW k \in 2..Len(heap)
    PROVE  /\ WeightAt(heap, node, k) <= WeightAt(heap, node, Parent(k))
           /\ Parent(k) \in 1..Len(heap) /\ Parent(k) < k
  <1>1. Len(heap) \in Nat /\ heap \in Seq(Ref)
    BY DEF HeapInv, HeapOk
  <1>2. Parent(k) \in 1..Len(heap) /\ Parent(k) < k
    BY <1>1, ParentFacts
  <1>3. \A i \in 1..Len(heap) : WeightAt(heap, node, i) \in Int
    BY HeapWeights
  <1>4. ~ (WeightAt(heap, node, k) > WeightAt(heap, node, Parent(k)))
    BY DEF OutOfOrder
  <1> QED
    BY <1>2, <1>3, <1>4

\* In a heap that is in order, no node is heavier than the first one.
LEMMA FirstIsHeaviest ==
    ASSUME HeapInv, OutOfOrder(heap, node) = {}, NEW other \in Ref, Held(other)
    PROVE  node[other].weight <= node[heap[1]].weight
  <1> DEFINE w(k) == WeightAt(heap, node, k)
             P == {k \in Nat : k \in 1..Len(heap) => w(k) <= w(1)}
  <1>1. Len(heap) \in Nat /\ heap \in Seq(Ref) /\ \A i \in 1..Len(heap) : w(i) \in Int
    <2>1. Len(heap) \in Nat /\ heap \in Seq(Ref)
      BY DEF HeapInv, HeapOk
    <2> QED
      BY <2>1, HeapWeights
  <1>2. \A k \in 2..Len(heap) : w(k) <= w(Parent(k)) /\ Parent(k) \in 1..Len(heap) /\ Parent(k) < k
    BY InOrderIs
  <1>3. node[other].idx \in 1..Len(heap) /\ heap[node[other].idx] = other
    BY DEF HeapInv, HeapOk, Held
  <1>4. w(1) = node[heap[1]].weight /\ w(node[other].idx) = node[other].weight
    BY <1>3 DEF WeightAt
  <1> HIDE DEF w
  <1>5. ASSUME NEW k \in Nat, \A j \in Nat : j < k => j \in P PROVE k \in P
    <2>1. CASE k \in 2..Len(heap)
      <3>1. w(Parent(k)) <= w(1)
        BY <1>2, <1>5, <2>1
      <3>2. w(k) \in Int /\ w(1) \in Int /\ w(Parent(k)) \in Int /\ w(k) <= w(Parent(k))
        BY <1>1, <1>2, <2>1
      <3> QED
        BY <3>1, <3>2
    <2>2. CASE k \notin 2..Len(heap)
      <3>1. k \in 1..Len(heap) => k = 1 /\ w(1) \in Int
        BY <1>1, <2>2
      <3> QED
        BY <3>1
    <2> QED
      BY <2>1, <2>2
  <1>6. P = Nat
    <2>1. P \in SUBSET Nat
      OBVIOUS
    <2> HIDE DEF P
    <2> QED
      BY <1>5, <2>1, LeastOne
  <1>7. w(node[other].idx) <= w(1)
    BY <1>3, <1>6
  <1> QED
    BY <1>4, <1>7

\* What a loop leaves is what the call leaves.
LEMMA LoopDone ==
    ASSUME NEW e, LoopOk(e), Becomes(e),
           OutOfOrder(heap, node) = {} => HandsOut /\ AllButLast(e)
    PROVE  CallDone
  <1>1. heap' = e.heap /\ node' = e.node
    BY DEF Becomes
  <1>2. HeapInv'
    BY <1>1 DEF HeapInv, LoopOk
  <1>3. ASSUME AllButLast(e) PROVE Leaves
    <2> SUFFICES ASSUME NEW i \in OutOfOrder(e.heap, e.node) PROVE i = Len(e.heap) /\ i % 2 = 0
      BY <1>1 DEF Leaves
    <2>1. i \in 2..Len(e.heap) /\ W(e, i) > W(e, Parent(i))
      BY DEF OutOfOrder, W
    <2>2. W(e, i) \in Int /\ W(e, Parent(i)) \in Int
      <3>1. Len(e.heap) \in Nat
        BY DEF LoopOk, HeapOk
      <3>2. i \in 1..Len(e.heap) /\ Parent(i) \in 1..Len(e.heap)
        BY <2>1, <3>1, ParentFacts
      <3> QED
        BY <3>2, WeightsAre
    <2>3. ~ Ordered(e, i)
      BY <2>1, <2>2 DEF Ordered
    <2> QED
      BY <1>3, <2>1, <2>3 DEF AllButLast
  <1> QED
    BY <1>2, <1>3 DEF CallDone

LEMMA InOrderButLast ==
    ASSUME NEW e, InOrder(e)
    PROVE  AllButLast(e)
  BY DEF InOrder, AllButLast

\* Who was held is held.
LEMMA NobodyFreed ==
    ASSUME \A ref \in Ref : Held(ref) => node'[ref].idx # 0
    PROVE  HandsOut
  BY DEF HandsOut

LEMMA PushStep ==
    ASSUME HeapInv, NEW ref \in Ref, NEW weight \in Weight, xbigheap_push(ref, weight)
    PROVE  CallDone
  <1> DEFINE last == Len(heap) + 1
             h == Append(heap, ref)
             n == [node EXCEPT ![ref] = [weight |-> weight, idx |-> last]]
             s == [heap |-> h, node |-> n, at |-> last]
             e == xbigheap_swim(s)
  <1>1. ~ Held(ref) /\ Becomes(e)
    BY DEF xbigheap_push
  <1>2. /\ heap \in Seq(Ref) /\ Len(heap) \in Nat /\ node \in [Ref -> NodeType]
        /\ \A i \in 1..Len(heap) : node[heap[i]].idx = i
        /\ \A r \in Ref : node[r].idx # 0 => node[r].idx \in 1..Len(heap) /\ heap[node[r].idx] = r
    BY DEF HeapInv, HeapOk
  <1>3. /\ h \in Seq(Ref) /\ Len(h) = last /\ h[last] = ref
        /\ \A i \in 1..Len(heap) : h[i] = heap[i] /\ heap[i] # ref /\ heap[i] \in Ref
    BY <1>1, <1>2 DEF Held
  <1>4. last \in Nat /\ last # 0 /\ \A i \in 1..last : i = last \/ i \in 1..Len(heap)
    BY <1>2
  <1>5. /\ n \in [Ref -> NodeType] /\ n[ref].weight = weight /\ n[ref].idx = last
        /\ \A r \in Ref : r # ref => n[r] = node[r]
    BY <1>2, <1>4 DEF NodeType
  <1>6. s.heap = h /\ s.node = n /\ s.at = last /\ s = [heap |-> s.heap, node |-> s.node, at |-> s.at]
    OBVIOUS
  <1> HIDE DEF h, n, s, e
  <1>7. HeapOk(h, n)
    <2>1. \A i \in 1..Len(h) : n[h[i]].idx = i
      BY <1>2, <1>3, <1>4, <1>5
    <2>2. ASSUME NEW r \in Ref, n[r].idx # 0 PROVE n[r].idx \in 1..Len(h) /\ h[n[r].idx] = r
      <3>1. CASE r = ref
        BY <1>2, <1>3, <1>5, <3>1
      <3>2. CASE r # ref
        <4>1. n[r] = node[r] /\ node[r].idx \in 1..Len(heap) /\ heap[node[r].idx] = r
          BY <1>2, <1>5, <2>2, <3>2
        <4> QED
          BY <1>2, <1>3, <4>1
      <3> QED
        BY <3>1, <3>2
    <2> QED
      BY <1>3, <1>5, <2>1, <2>2 DEF HeapOk
  <1>8. LoopOk(s)
    <2>1. last \in 1..Len(h)
      BY <1>2, <1>3
    <2> QED
      BY <1>6, <1>7, <2>1 DEF LoopOk
  <1>9. Kept(e, s) /\ (UpOrder(s) => InOrder(e))
    BY <1>8, SwimResult DEF e
  <1>10. ASSUME OutOfOrder(heap, node) = {} PROVE UpOrder(s)
    <2>1. \A i \in 1..Len(heap) : W(s, i) = WeightAt(heap, node, i)
      BY <1>3, <1>5, <1>6 DEF W, WeightAt
    <2>2. ASSUME NEW k \in 2..Len(h), k # last PROVE Ordered(s, k)
      <3>1. k \in 2..Len(heap)
        BY <1>2, <1>3, <2>2
      <3>2. Parent(k) \in 1..Len(heap) /\ WeightAt(heap, node, k) <= WeightAt(heap, node, Parent(k))
        BY <1>10, <3>1, InOrderIs
      <3> QED
        BY <2>1, <3>1, <3>2 DEF Ordered
    <2>3. ASSUME NEW k \in 2..Len(h) PROVE Parent(k) # last
      <3>1. Len(h) \in Nat
        BY <1>3, <1>4
      <3>2. Parent(k) < k /\ Parent(k) \in 1..Len(h)
        BY <3>1, ParentFacts
      <3> QED
        BY <1>3, <3>1, <3>2
    <2> QED
      BY <1>6, <2>2, <2>3 DEF UpOrder, Skips
  <1>11. HandsOut
    <2>1. ASSUME NEW r \in Ref, Held(r) PROVE node'[r].idx # 0
      <3>1. n[r].idx # 0
        BY <1>1, <1>5, <2>1 DEF Held
      <3>2. e.node[r].idx = 0 <=> s.node[r].idx = 0
        BY <1>9 DEF Kept
      <3> QED
        BY <1>1, <1>6, <3>1, <3>2 DEF Becomes
    <2> QED
      BY <2>1, NobodyFreed
  <1> QED
    BY <1>1, <1>9, <1>10, <1>11, LoopDone, InOrderButLast DEF Kept

LEMMA UpdateStep ==
    ASSUME HeapInv, NEW ref \in Ref, NEW weight \in Weight, xbigheap_update(ref, weight)
    PROVE  CallDone
  <1> DEFINE n == [node EXCEPT ![ref].weight = weight]
             i == node[ref].idx
             old == node[ref].weight
             s == [heap |-> heap, node |-> n, at |-> i]
             e == IF weight > old THEN xbigheap_swim(s) ELSE xbigheap_sink(s)
  <1>1. Held(ref) /\ weight # old /\ Becomes(e)
    BY Zenon DEF xbigheap_update
  <1>2. /\ heap \in Seq(Ref) /\ Len(heap) \in Nat /\ node \in [Ref -> NodeType]
        /\ \A k \in 1..Len(heap) : node[heap[k]].idx = k
        /\ \A r \in Ref : node[r].idx # 0 => node[r].idx \in 1..Len(heap) /\ heap[node[r].idx] = r
    BY DEF HeapInv, HeapOk
  <1>3. i \in 1..Len(heap) /\ heap[i] = ref /\ weight \in Int /\ old \in Int
    BY <1>1, <1>2, NodesAre, WeightAssumption DEF Held
  <1>4. /\ n \in [Ref -> NodeType] /\ n[ref].weight = weight
        /\ \A r \in Ref : n[r].idx = node[r].idx /\ (r # ref => n[r].weight = node[r].weight)
    <2>1. \A r \in Ref : node[r] \in NodeType
      BY <1>2
    <2>2. [node[ref] EXCEPT !.weight = weight] \in NodeType
      BY <2>1 DEF NodeType
    <2>3. \A r \in Ref : n[r] = IF r = ref THEN [node[r] EXCEPT !.weight = weight] ELSE node[r]
      BY <1>2
    <2>4. n \in [Ref -> NodeType]
      BY <1>2, <2>2
    <2> HIDE DEF n
    <2> QED
      BY <2>1, <2>3, <2>4 DEF NodeType
  <1>5. s.heap = heap /\ s.node = n /\ s.at = i /\ s = [heap |-> s.heap, node |-> s.node, at |-> s.at]
    OBVIOUS
  <1> HIDE DEF n, s, i, old, e
  <1>6. LoopOk(s)
    <2>1. \A k \in 1..Len(heap) : heap[k] \in Ref
      BY <1>2
    <2>2. HeapOk(heap, n)
      BY <1>2, <1>4, <2>1 DEF HeapOk
    <2> QED
      BY <1>3, <1>5, <2>2 DEF LoopOk
  <1>7. \A k \in 1..Len(heap) : W(s, k) = IF k = i THEN weight ELSE WeightAt(heap, node, k)
    <2>1. ASSUME NEW k \in 1..Len(heap)
          PROVE  W(s, k) = IF k = i THEN weight ELSE WeightAt(heap, node, k)
      <3>1. heap[k] \in Ref /\ (k # i => heap[k] # ref)
        BY <1>2 DEF i
      <3> QED
        BY <1>3, <1>4, <1>5, <3>1 DEF W, WeightAt
    <2> QED
      BY <2>1
  <1>8. WeightAt(heap, node, i) = old
    BY <1>3 DEF WeightAt, old
  <1>9. ASSUME OutOfOrder(heap, node) = {}
        PROVE  IF weight > old THEN UpOrder(s) ELSE DownOrder(s)
    <2> DEFINE w(k) == WeightAt(heap, node, k)
    <2>1. \A k \in 2..Len(heap) : w(k) <= w(Parent(k)) /\ Parent(k) \in 1..Len(heap) /\ Parent(k) < k
      BY <1>9, InOrderIs
    <2>2. \A k \in 1..Len(heap) : w(k) \in Int
      BY HeapWeights
    <2>3. w(i) = old /\ \A k \in 1..Len(heap) : W(s, k) = IF k = i THEN weight ELSE w(k)
      BY <1>7, <1>8
    <2> HIDE DEF w
    <2>4. ASSUME NEW k \in 2..Len(heap), IF weight > old THEN k # i ELSE Parent(k) # i
          PROVE  W(s, k) <= W(s, Parent(k))
      <3>1. k \in 1..Len(heap) /\ Parent(k) \in 1..Len(heap) /\ w(k) <= w(Parent(k))
        BY <2>1
      <3>2. W(s, k) = IF k = i THEN weight ELSE w(k)
        BY <2>3, <3>1
      <3>3. W(s, Parent(k)) = IF Parent(k) = i THEN weight ELSE w(Parent(k))
        BY <2>3, <3>1
      <3>4. w(k) \in Int /\ w(Parent(k)) \in Int
        BY <2>2, <3>1
      <3> QED
        BY <1>1, <1>3, <2>3, <2>4, <3>1, <3>2, <3>3, <3>4
    <2>5. ASSUME NEW k \in 2..Len(heap), Parent(k) = i, i > 1
          PROVE  W(s, k) <= W(s, Parent(i))
      <3>1. k \in 1..Len(heap) /\ i \in 2..Len(heap) /\ Parent(i) \in 1..Len(heap)
            /\ Parent(i) < i /\ i < k
        BY <1>2, <1>3, <2>1, <2>5
      <3>2. w(k) <= w(i) /\ w(i) <= w(Parent(i))
        BY <2>1, <2>5, <3>1
      <3>3. W(s, k) = w(k) /\ W(s, Parent(i)) = w(Parent(i))
        BY <2>3, <3>1
      <3> QED
        BY <2>2, <3>1, <3>2, <3>3
    <2>6. CASE weight > old
      BY <1>5, <2>4, <2>5, <2>6 DEF UpOrder, Skips, Ordered
    <2>7. CASE ~ (weight > old)
      BY <1>5, <2>4, <2>5, <2>7 DEF DownOrder, Skips, Ordered
    <2> QED
      BY <2>6, <2>7
  <1>10. Kept(e, s) /\ (OutOfOrder(heap, node) = {} => AllButLast(e))
    <2>1. CASE weight > old
      <3>1. e = xbigheap_swim(s)
        BY <2>1 DEF e
      <3>2. Kept(e, s) /\ (UpOrder(s) => InOrder(e))
        BY <1>6, <3>1, SwimResult
      <3> QED
        BY <1>9, <2>1, <3>2, InOrderButLast
    <2>2. CASE ~ (weight > old)
      <3>1. e = xbigheap_sink(s)
        BY <2>2 DEF e
      <3>2. Kept(e, s) /\ (DownOrder(s) => AllButLast(e))
        BY <1>6, <3>1, SinkResult
      <3> QED
        BY <1>9, <2>2, <3>2
    <2> QED
      BY <2>1, <2>2
  <1>11. HandsOut
    <2>1. ASSUME NEW r \in Ref, Held(r) PROVE node'[r].idx # 0
      <3>1. n[r].idx # 0
        BY <1>4, <2>1 DEF Held
      <3>2. e.node[r].idx = 0 <=> s.node[r].idx = 0
        BY <1>10 DEF Kept
      <3> QED
        BY <1>1, <1>5, <3>1, <3>2 DEF Becomes
    <2> QED
      BY <2>1, NobodyFreed
  <1> QED
    BY <1>1, <1>10, <1>11, LoopDone DEF Kept

\* The first node is handed out; the last one is where it was.
LEMMA PopStep ==
    ASSUME HeapInv, xbigheap_pop
    PROVE  CallDone
  <1> DEFINE last == Len(heap)
             first == heap[1]
             moved == heap[last]
             freed == [node EXCEPT ![first].idx = 0]
             rest == SubSeq(heap, 1, last - 1)
             h == [rest EXCEPT ![1] = moved]
             n == [freed EXCEPT ![moved].idx = 1]
             s == [heap |-> h, node |-> n, at |-> 1]
             e == xbigheap_sink(s)
  <1>1. heap # << >> /\ Becomes(IF last = 1 THEN [heap |-> rest, node |-> freed] ELSE e)
    BY Zenon DEF xbigheap_pop
  <1>2. /\ heap \in Seq(Ref) /\ last \in Nat /\ node \in [Ref -> NodeType]
        /\ \A k \in 1..last : node[heap[k]].idx = k
        /\ \A r \in Ref : node[r].idx # 0 => node[r].idx \in 1..last /\ heap[node[r].idx] = r
    BY DEF HeapInv, HeapOk
  <1>3. /\ last \in Nat \ {0} /\ first \in Ref /\ moved \in Ref
        /\ \A k \in 1..last : heap[k] \in Ref
    <2>1. last # 0
      BY <1>1, <1>2
    <2> QED
      BY <1>2, <2>1
  <1>4. /\ rest \in Seq(Ref) /\ Len(rest) = last - 1
        /\ \A k \in 1..(last - 1) : rest[k] = heap[k]
    <2> HIDE DEF last, first, moved, rest
    <2>1. 1..(last - 1 - 1 + 1) = 1..(last - 1) /\ (1 <= last - 1 => last - 1 - 1 + 1 = last - 1)
          /\ (~ (1 <= last - 1) => last - 1 = 0)
      BY <1>3
    <2>2. \A k \in 1..(last - 1) : heap[k] \in Ref /\ 1 + k - 1 = k
      BY <1>3
    <2>3. /\ rest \in Seq(Ref) /\ Len(rest) = IF 1 <= last - 1 THEN last - 1 - 1 + 1 ELSE 0
          /\ \A k \in 1..(last - 1 - 1 + 1) : rest[k] = heap[1 + k - 1]
      BY <1>2, <1>3, <2>2, SubSeqProperties DEF rest
    <2> QED
      BY <2>1, <2>2, <2>3
  <1> HIDE DEF last, first, moved, rest
  <1>5. \A r \in Ref : node[r] \in NodeType
    BY <1>2
  <1>6. /\ freed \in [Ref -> NodeType] /\ freed[first].idx = 0
        /\ \A r \in Ref : /\ freed[r].weight = node[r].weight
                          /\ r # first => freed[r].idx = node[r].idx
    <2>1. [node[first] EXCEPT !.idx = 0] \in NodeType
      BY <1>3, <1>5 DEF NodeType
    <2>2. \A r \in Ref : freed[r] = IF r = first THEN [node[r] EXCEPT !.idx = 0] ELSE node[r]
      BY <1>2, <1>3
    <2>3. freed \in [Ref -> NodeType]
      BY <1>2, <1>3, <2>1
    <2> HIDE DEF freed
    <2> QED
      BY <1>3, <1>5, <2>2, <2>3 DEF NodeType
  <1> HIDE DEF freed
  <1>7. ASSUME OutOfOrder(heap, node) = {},
               \A r \in Ref : r # first /\ Held(r) => node'[r].idx # 0
        PROVE  HandsOut
    <2>1. ASSUME NEW r \in Ref, Held(r), node'[r].idx = 0, NEW other \in Ref, Held(other)
          PROVE  node[other].weight <= node[r].weight
      <3>1. r = first
        BY <1>7, <2>1
      <3>2. node[other].weight <= node[heap[1]].weight
        BY <1>7, <2>1, FirstIsHeaviest
      <3> QED
        BY <3>1, <3>2 DEF first
    <2> QED
      BY <2>1 DEF HandsOut
  <1>8. CASE last = 1
    <2>1. heap' = rest /\ node' = freed
      BY <1>1, <1>8 DEF Becomes
    <2>2. Len(rest) = 0 /\ \A r \in Ref : node[r].idx # 0 => r = first
      BY <1>2, <1>4, <1>8 DEF first
    <2>3. HeapInv'
      <3>1. \A r \in Ref : freed[r].idx = 0
        BY <1>6, <2>2
      <3>2. HeapOk(rest, freed)
        BY <1>4, <1>6, <2>2, <3>1 DEF HeapOk
      <3> QED
        BY <2>1, <3>2 DEF HeapInv
    <2>4. OutOfOrder(heap, node) = {} => HandsOut
      BY <1>7, <2>2 DEF Held
    <2>5. Leaves
      BY <2>1, <2>2 DEF Leaves, OutOfOrder
    <2> QED
      BY <2>3, <2>4, <2>5 DEF CallDone
  <1>9. CASE last # 1
    <2>1. Becomes(e)
      BY <1>1, <1>9
    <2>2. last > 1 /\ moved # first /\ node[moved].idx = last /\ node[first].idx = 1
      BY <1>2, <1>3, <1>9 DEF moved, first
    <2>3. /\ h \in Seq(Ref) /\ Len(h) = last - 1
          /\ \A k \in 1..(last - 1) : h[k] = IF k = 1 THEN moved ELSE heap[k]
      <3>1. rest \in [1..(last - 1) -> Ref] /\ last - 1 \in Nat
        BY <1>3, <1>4
      <3>2. h \in [1..(last - 1) -> Ref]
        BY <1>3, <3>1
      <3>3. \A k \in 1..(last - 1) : h[k] = IF k = 1 THEN moved ELSE heap[k]
        BY <1>4, <3>1
      <3> HIDE DEF h
      <3> QED
        BY <3>1, <3>2, <3>3
    <2>4. /\ n \in [Ref -> NodeType] /\ n[moved].idx = 1 /\ n[first].idx = 0
          /\ \A r \in Ref : /\ n[r].weight = node[r].weight
                            /\ r # first /\ r # moved => n[r].idx = node[r].idx
      <3>1. \A r \in Ref : freed[r] \in NodeType
        BY <1>6
      <3>2. [freed[moved] EXCEPT !.idx = 1] \in NodeType
        BY <1>3, <3>1 DEF NodeType
      <3>3. \A r \in Ref : n[r] = IF r = moved THEN [freed[r] EXCEPT !.idx = 1] ELSE freed[r]
        BY <1>3, <1>6
      <3>4. n \in [Ref -> NodeType]
        BY <1>3, <1>6, <3>2
      <3> HIDE DEF n
      <3>5. \A r \in Ref : n[r].weight = freed[r].weight /\ (r # moved => n[r].idx = freed[r].idx)
        BY <3>1, <3>3 DEF NodeType
      <3>6. n[moved].idx = 1
        BY <1>3, <3>1, <3>3 DEF NodeType
      <3> QED
        BY <1>3, <1>6, <2>2, <3>4, <3>5, <3>6
    <2>5. s.heap = h /\ s.node = n /\ s.at = 1 /\ s = [heap |-> s.heap, node |-> s.node, at |-> s.at]
      OBVIOUS
    <2> HIDE DEF h, n, s, e
    <2>6. HeapOk(h, n)
      <3>1. ASSUME NEW k \in 1..Len(h) PROVE n[h[k]].idx = k
        <4>1. k \in 1..last /\ k # last
          BY <1>3, <2>3
        <4>2. CASE k = 1
          BY <2>3, <2>4, <4>2
        <4>3. CASE k # 1
          <5>1. h[k] = heap[k] /\ heap[k] \in Ref /\ node[heap[k]].idx = k
            BY <1>2, <1>3, <2>3, <4>1, <4>3
          <5>2. heap[k] # first /\ heap[k] # moved
            BY <2>2, <4>1, <4>3, <5>1
          <5> QED
            BY <2>4, <5>1, <5>2
        <4> QED
          BY <4>2, <4>3
      <3>2. ASSUME NEW r \in Ref, n[r].idx # 0 PROVE n[r].idx \in 1..Len(h) /\ h[n[r].idx] = r
        <4>1. CASE r = moved
          BY <1>3, <2>2, <2>3, <2>4, <4>1
        <4>2. CASE r # moved
          <5>1. r # first /\ n[r].idx = node[r].idx
            BY <2>4, <3>2, <4>2
          <5>2. node[r].idx \in 1..last /\ heap[node[r].idx] = r
            BY <1>2, <3>2, <5>1
          <5>3. node[r].idx # last /\ node[r].idx # 1
            BY <4>2, <5>1, <5>2 DEF moved, first
          <5> QED
            BY <1>3, <2>3, <5>1, <5>2, <5>3
        <4> QED
          BY <4>1, <4>2
      <3> QED
        BY <2>3, <2>4, <3>1, <3>2 DEF HeapOk
    <2>7. LoopOk(s)
      <3>1. 1 \in 1..Len(h)
        BY <1>3, <2>2, <2>3
      <3> QED
        BY <2>5, <2>6, <3>1 DEF LoopOk
    <2>8. Kept(e, s) /\ (DownOrder(s) => AllButLast(e))
      BY <2>7, SinkResult DEF e
    <2>9. ASSUME OutOfOrder(heap, node) = {} PROVE DownOrder(s)
      <3>1. ASSUME NEW k \in 2..Len(h), Parent(k) # 1 PROVE Ordered(s, k)
        <4>1. k \in 2..last /\ k \in 1..(last - 1) /\ k # 1
          BY <1>3, <2>3
        <4>2. /\ WeightAt(heap, node, k) <= WeightAt(heap, node, Parent(k))
              /\ Parent(k) \in 1..last /\ Parent(k) < k
          BY <2>9, <4>1, InOrderIs DEF last
        <4>3. Parent(k) \in 1..(last - 1)
          BY <1>3, <4>1, <4>2
        <4>4. h[k] = heap[k] /\ h[Parent(k)] = heap[Parent(k)]
          BY <2>3, <3>1, <4>1, <4>3
        <4>5. heap[k] \in Ref /\ heap[Parent(k)] \in Ref
          BY <1>3, <4>1, <4>2
        <4>6. W(s, k) = WeightAt(heap, node, k) /\ W(s, Parent(k)) = WeightAt(heap, node, Parent(k))
          BY <2>4, <2>5, <4>4, <4>5 DEF W, WeightAt
        <4> QED
          BY <4>2, <4>6 DEF Ordered
      <3> QED
        BY <2>5, <3>1 DEF DownOrder, Skips
    <2>10. ASSUME NEW r \in Ref, r # first, Held(r) PROVE node'[r].idx # 0
      <3>1. n[r].idx # 0
        BY <2>4, <2>10 DEF Held
      <3>2. e.node[r].idx = 0 <=> s.node[r].idx = 0
        BY <2>8 DEF Kept
      <3> QED
        BY <2>1, <2>5, <3>1, <3>2 DEF Becomes
    <2>11. OutOfOrder(heap, node) = {} => HandsOut
      BY <1>7, <2>10
    <2>12. LoopOk(e)
      BY <2>8 DEF Kept
    <2> QED
      BY <2>1, <2>8, <2>9, <2>11, <2>12, LoopDone
  <1> QED
    BY <1>8, <1>9

LEMMA InitHeapInv == HeapInit => HeapInv
  <1> SUFFICES ASSUME HeapInit PROVE HeapInv
    OBVIOUS
  <1> DEFINE w == CHOOSE w \in Weight : TRUE
  <1>1. w \in Weight
    BY WeightAssumption
  <1>2. heap = << >> /\ node = [ref \in Ref |-> [weight |-> w, idx |-> 0]]
    BY DEF HeapInit
  <1> HIDE DEF w
  <1>3. node \in [Ref -> NodeType] /\ \A ref \in Ref : node[ref].idx = 0
    BY <1>1, <1>2 DEF NodeType
  <1> QED
    BY <1>2, <1>3 DEF HeapInv, HeapOk

LEMMA HeapStep ==
    ASSUME HeapInv, HeapNext
    PROVE  CallDone
  <1>1. CASE \E ref \in Ref, weight \in Weight : xbigheap_push(ref, weight) \/ xbigheap_update(ref, weight)
    BY <1>1, PushStep, UpdateStep
  <1>2. CASE xbigheap_pop
    BY <1>2, PopStep
  <1> QED
    BY <1>1, <1>2 DEF HeapNext

LEMMA NextHeapInv == HeapInv /\ [HeapNext]_heapVars => HeapInv'
  <1>1. HeapInv /\ UNCHANGED heapVars => HeapInv'
    BY DEF HeapInv, heapVars
  <1> QED
    BY <1>1, HeapStep DEF CallDone

\* Whatever is pushed, popped and given another weight: every node knows its place, and a
\* heap in order hands out its heaviest node and stays in order, but for the last node
\* where it is an only child (xbigheap_swim and xbigheap_sink, xbigheap.cpp:65 and :82,
\* under xbigheap_push, xbigheap_pop and xbigheap_update).
THEOREM HeapHandsOutHeaviest == HeapSpec => HeapKeepsOrder
  <1> DEFINE CallsOn == /\ Knows(heap', node')
                        /\ OutOfOrder(heap, node) = {} => HandsOut /\ Leaves
  <1>1. ASSUME HeapInv' PROVE Knows(heap', node')
    <2> DEFINE h == heap'
               n == node'
    <2>1. /\ h \in Seq(Ref) /\ \A i \in 1..Len(h) : n[h[i]].idx = i
          /\ \A ref \in Ref : n[ref].idx # 0 => n[ref].idx \in 1..Len(h) /\ h[n[ref].idx] = ref
      BY <1>1 DEF HeapInv, HeapOk
    <2> HIDE DEF h, n
    <2>2. DOMAIN h = 1..Len(h)
      BY <2>1
    <2>3. ASSUME NEW ref \in Ref, n[ref].idx = 0, NEW i \in DOMAIN h PROVE h[i] # ref
      <3>1. i # 0
        BY <2>1, <2>2
      <3> QED
        BY <2>1, <2>2, <2>3, <3>1
    <2>4. Knows(h, n)
      BY <2>1, <2>2, <2>3 DEF Knows
    <2> QED
      BY <2>4 DEF h, n
  <1>2. HeapInv /\ HeapNext => CallsOn
    BY <1>1, HeapStep DEF CallDone
  <1>3. HeapInv /\ [HeapNext]_heapVars => [CallsOn]_heapVars
    BY <1>2
  <1>4. HeapSpec => [][CallsOn]_heapVars
    BY <1>3, InitHeapInv, NextHeapInv, PTL DEF HeapSpec
  <1>5. [CallsOn]_heapVars =>
          [ /\ Knows(heap', node')
            /\ OutOfOrder(heap, node) = {} =>
                  /\ \A ref \in Ref :
                        Held(ref) /\ node'[ref].idx = 0 =>
                            \A other \in Ref : Held(other) => node[other].weight <= node[ref].weight
                  /\ \A i \in OutOfOrder(heap', node') : i = Len(heap') /\ i % 2 = 0
          ]_heapVars
    BY DEF HandsOut, Leaves
  <1> QED
    BY <1>4, <1>5, PTL DEF HeapKeepsOrder
=============================================================================
