--------------------------- MODULE FramingProofs ---------------------------
(***************************************************************************)
(* Proofs about Framing: whatever the check sum is, and however the stream *)
(* of requests is cut and joined, a request whose frame is found first in  *)
(* a chunk and is whole in it is handled, and its answer is a frame that   *)
(* parses to what do_work has written.                                     *)
(***************************************************************************)
EXTENDS Framing, SequenceTheorems, TLAPS

-----------------------------------------------------------------------------
(* Frames.                                                                 *)

\* A frame before its sum is put in.
Pack(p) == << StartTag, 0, FrameType >> \o OUT16_BE(Len(p) + Around) \o p \o << EndTag >>

\* A byte of the stream: an octet, or a sum of some.
Cell == Octet \cup {pkt_build_check_sum(b) : b \in Seq(Octet)}

\* What fits a frame.
Payload(p) == p \in Seq(Octet) /\ Len(p) + Around \in Short16
FrameLen(p) == Len(p) + Around

\* The bytes of f are the frame of p.
IsFrame(f, p) ==
    /\ f[1] = StartTag /\ f[2] = pkt_build_check_sum(Pack(p)) /\ f[3] = FrameType
    /\ f[4] \in Octet /\ f[5] \in Octet /\ f[4] * ByteMod + f[5] = FrameLen(p)
    /\ \A j \in 1..Len(p) : f[5 + j] = p[j]
    /\ f[FrameLen(p)] = EndTag

LEMMA ByteFacts ==
    /\ ByteMod \in Nat /\ ByteMod > 6
    /\ 0 \in Octet /\ StartTag \in Octet /\ FrameType \in Octet /\ EndTag \in Octet
    /\ Octet \subseteq Nat /\ \A o \in Octet : o < ByteMod
    /\ Around = 6
  BY FrameAssumption DEF Octet, REC_MATCH, Around, PKT_YS_HEADLEN, PKT_YS_ENDLEN

\* A number is its quotient and its rest.
LEMMA DivIs ==
    ASSUME NEW a \in Nat, NEW b \in Nat, b > 0
    PROVE  /\ a \div b \in Nat /\ a % b \in Nat /\ a % b < b
           /\ a = (a \div b) * b + (a % b)
  <1> DEFINE q == a \div b
             r == a % b
  <1>2. q \in Nat /\ r \in 0..b-1 /\ a = b * q + r
    OBVIOUS
  <1> HIDE DEF q, r
  <1>3. r \in Nat /\ r < b /\ a = q * b + r
    BY <1>2
  <1> QED
    BY <1>2, <1>3, Zenon DEF q, r

\* A quotient and a rest are what they are.
LEMMA DivUnique ==
    ASSUME NEW a \in Nat, NEW b \in Nat, b > 0, NEW q \in Nat, NEW r \in Nat,
           r < b, a = q * b + r
    PROVE  a \div b = q /\ a % b = r
  <1> DEFINE d == a \div b
             e == a % b
  <1>1. d \in Nat /\ e \in Nat /\ e < b /\ a = d * b + e
    BY DivIs
  <1> HIDE DEF d, e
  <1>2. CASE d > q
    <2>1. PICK x \in Nat : d = q + 1 + x
      <3>1. d - q - 1 \in Nat /\ d = q + 1 + (d - q - 1)
        BY <1>1, <1>2
      <3> QED
        BY <3>1
    <2>2. d * b = q * b + b + x * b
      BY <1>1, <2>1
    <2>3. x * b >= 0
      BY <2>1
    <2> QED
      BY <1>1, <2>2, <2>3
  <1>3. CASE d < q
    <2>1. PICK x \in Nat : q = d + 1 + x
      <3>1. q - d - 1 \in Nat /\ q = d + 1 + (q - d - 1)
        BY <1>1, <1>3
      <3> QED
        BY <3>1
    <2>2. q * b = d * b + b + x * b
      BY <1>1, <2>1
    <2>3. x * b >= 0
      BY <2>1
    <2> QED
      BY <1>1, <2>2, <2>3
  <1>4. CASE d = q
    BY <1>1, <1>4 DEF d, e
  <1> QED
    BY <1>1, <1>2, <1>3, <1>4

\* The two bytes of a number that fits them.
LEMMA TwoBytes ==
    ASSUME NEW v \in Short16
    PROVE  /\ v \div ByteMod \in Octet /\ v % ByteMod \in Octet
           /\ (v \div ByteMod) % ByteMod = v \div ByteMod
           /\ v = (v \div ByteMod) * ByteMod + (v % ByteMod)
  <1> DEFINE q == v \div ByteMod
             r == v % ByteMod
  <1>1. ByteMod \in Nat /\ ByteMod > 0 /\ v \in Nat /\ v < ByteMod * ByteMod
    BY ByteFacts DEF Short16
  <1>2. q \in Nat /\ r \in Nat /\ r < ByteMod /\ v = q * ByteMod + r
    BY <1>1, DivIs
  <1> HIDE DEF q, r
  <1>3. q < ByteMod
    <2>1. SUFFICES ASSUME q >= ByteMod PROVE FALSE
      BY <1>1, <1>2
    <2>2. PICK x \in Nat : q = ByteMod + x
      <3>1. q - ByteMod \in Nat /\ q = ByteMod + (q - ByteMod)
        BY <1>1, <1>2, <2>1
      <3> QED
        BY <3>1
    <2>3. q * ByteMod = ByteMod * ByteMod + x * ByteMod /\ x * ByteMod >= 0
      BY <1>1, <2>2
    <2> QED
      BY <1>1, <1>2, <2>3
  <1>4. q % ByteMod = q
    <2>1. q = 0 * ByteMod + q
      BY <1>1, <1>2
    <2> QED
      BY <1>1, <1>2, <1>3, <2>1, DivUnique
  <1>5. q \in Octet /\ r \in Octet
    BY <1>1, <1>2, <1>3 DEF Octet
  <1> QED
    BY <1>2, <1>4, <1>5, Zenon DEF q, r

\* z is x with y behind it, by its elements.
Joins(z, x, y) ==
    /\ Len(x) \in Nat /\ Len(y) \in Nat /\ Len(z) = Len(x) + Len(y)
    /\ \A j \in 1..Len(x) : z[j] = x[j]
    /\ \A j \in 1..Len(y) : z[Len(x) + j] = y[j]

LEMMA Joined ==
    ASSUME NEW S, NEW x \in Seq(S), NEW y \in Seq(S)
    PROVE  x \o y \in Seq(S) /\ Joins(x \o y, x, y)
  <1>1. Len(x) \in Nat /\ Len(y) \in Nat
    OBVIOUS
  <1>2. /\ x \o y \in Seq(S) /\ Len(x \o y) = Len(x) + Len(y)
        /\ \A j \in 1..Len(x) + Len(y) : (x \o y)[j] = IF j <= Len(x) THEN x[j] ELSE y[j - Len(x)]
    BY ConcatProperties
  <1>3. ASSUME NEW j \in 1..Len(y) PROVE (x \o y)[Len(x) + j] = y[j]
    <2>1. Len(x) + j \in 1..Len(x) + Len(y) /\ ~(Len(x) + j <= Len(x)) /\ Len(x) + j - Len(x) = j
      BY <1>1
    <2> QED
      BY <1>2, <2>1
  <1>4. ASSUME NEW j \in 1..Len(x) PROVE (x \o y)[j] = x[j]
    <2>1. j \in 1..Len(x) + Len(y) /\ j <= Len(x)
      BY <1>1
    <2> QED
      BY <1>2, <2>1
  <1> QED
    BY <1>1, <1>2, <1>3, <1>4 DEF Joins

LEMMA PackFacts ==
    ASSUME NEW p, Payload(p)
    PROVE  /\ Pack(p) \in Seq(Octet) /\ Len(Pack(p)) = FrameLen(p)
           /\ Len(p) \in Nat /\ FrameLen(p) \in Nat /\ FrameLen(p) = Len(p) + 6
           /\ Pack(p)[2] = 0
           /\ IsFrame([Pack(p) EXCEPT ![2] = pkt_build_check_sum(Pack(p))], p)
  <1> DEFINE v == Len(p) + Around
             hi == (v \div ByteMod) % ByteMod
             lo == v % ByteMod
             head == << StartTag, 0, FrameType >>
             s == Pack(p)
  <1>1. p \in Seq(Octet) /\ v \in Short16 /\ Len(p) \in Nat /\ v = Len(p) + 6
    BY ByteFacts DEF Payload
  <1>2. hi \in Octet /\ lo \in Octet /\ hi * ByteMod + lo = v
    <2> HIDE DEF v
    <2> QED
      BY <1>1, TwoBytes DEF hi, lo
  <1>3. s = head \o << hi, lo >> \o p \o << EndTag >>
    BY DEF Pack, OUT16_BE
  <1> HIDE DEF hi, lo, v, s
  <1> DEFINE two == << hi, lo >>
             five == head \o two
             fp == five \o p
  <1>4. /\ head \in Seq(Octet) /\ Len(head) = 3
        /\ head[1] = StartTag /\ head[2] = 0 /\ head[3] = FrameType
    BY ByteFacts
  <1>5. two \in Seq(Octet) /\ Len(two) = 2 /\ two[1] = hi /\ two[2] = lo
    BY <1>2
  <1> HIDE DEF head, two
  <1>5a. five \in Seq(Octet) /\ Len(five) = 5 /\ five[1] = StartTag /\ five[2] = 0
         /\ five[3] = FrameType /\ five[4] = hi /\ five[5] = lo
    <2>0. five \in Seq(Octet) /\ Joins(five, head, two)
      BY <1>4, <1>5, Joined
    <2> HIDE DEF five
    <2>1. /\ five \in Seq(Octet) /\ Len(five) = 3 + 2
          /\ \A j \in 1..3 : five[j] = head[j]
          /\ \A j \in 1..2 : five[3 + j] = two[j]
      BY <1>4, <1>5, <2>0 DEF Joins
    <2>2. five[1] = head[1] /\ five[2] = head[2] /\ five[3] = head[3]
          /\ five[3 + 1] = two[1] /\ five[3 + 2] = two[2]
      BY <2>1
    <2> QED
      BY <1>4, <1>5, <2>1, <2>2
  <1> HIDE DEF five
  <1>6a. fp \in Seq(Octet) /\ Len(fp) = 5 + Len(p)
        /\ (\A j \in 1..5 : fp[j] = five[j])
        /\ (\A j \in 1..Len(p) : fp[5 + j] = p[j])
    <2>1. fp \in Seq(Octet) /\ Joins(fp, five, p)
      BY <1>1, <1>5a, Joined
    <2> HIDE DEF fp
    <2> QED
      BY <1>5a, <2>1 DEF Joins
  <1>7. s = fp \o << EndTag >>
    BY <1>3 DEF five, two
  <1> HIDE DEF fp
  <1>8. s \in Seq(Octet) /\ Len(s) = v /\ (\A j \in 1..Len(fp) : s[j] = fp[j]) /\ s[v] = EndTag
    <2> DEFINE one == << EndTag >>
    <2>1. one \in Seq(Octet) /\ Len(one) = 1 /\ one[1] = EndTag
      BY ByteFacts
    <2>2. s = fp \o one
      BY <1>7
    <2> HIDE DEF one
    <2>2a. s \in Seq(Octet) /\ Joins(s, fp, one)
      BY <1>6a, <2>1, <2>2, Joined
    <2>3. /\ s \in Seq(Octet) /\ Len(s) = Len(fp) + 1
          /\ \A j \in 1..Len(fp) : s[j] = fp[j]
          /\ \A j \in 1..1 : s[Len(fp) + j] = one[j]
      BY <2>1, <2>2a DEF Joins
    <2>4. Len(fp) + 1 = v /\ s[Len(fp) + 1] = one[1]
      BY <1>1, <1>6a, <2>3
    <2> QED
      BY <2>1, <2>3, <2>4
  <1>9. s[1] = StartTag /\ s[2] = 0 /\ s[3] = FrameType /\ s[4] = hi /\ s[5] = lo
    BY <1>1, <1>5a, <1>6a, <1>8
  <1>10. ASSUME NEW j \in 1..Len(p) PROVE s[5 + j] = p[j]
    <2>1. 5 + j \in 1..Len(fp)
      BY <1>1, <1>6a
    <2> QED
      BY <1>6a, <1>8, <2>1
  <1> DEFINE sum == pkt_build_check_sum(s)
             f == [s EXCEPT ![2] = sum]
  <1>11. f[2] = sum /\ \A j \in 1..v : j # 2 => f[j] = s[j]
    <2>1. DOMAIN s = 1..v /\ 2 \in 1..v
      BY <1>1, <1>8
    <2> HIDE DEF sum
    <2> QED
      BY <2>1
  <1> HIDE DEF f, sum
  <1>12. f[1] = StartTag /\ f[3] = FrameType /\ f[4] = hi /\ f[5] = lo /\ f[v] = EndTag
    BY <1>1, <1>8, <1>9, <1>11
  <1>13. ASSUME NEW j \in 1..Len(p) PROVE f[5 + j] = p[j]
    <2>1. 5 + j \in 1..v /\ 5 + j # 2
      BY <1>1
    <2> QED
      BY <1>10, <1>11, <2>1
  <1>14. IsFrame(f, p)
    BY <1>2, <1>11, <1>12, <1>13 DEF IsFrame, FrameLen, v, sum, s
  <1> QED
    BY <1>1, <1>8, <1>9, <1>14 DEF FrameLen, v, s, f, sum

LEMMA MadeFrame ==
    ASSUME NEW p, Payload(p)
    PROVE  /\ pkt_make_client(p) \in Seq(Cell)
           /\ Len(pkt_make_client(p)) = FrameLen(p)
           /\ IsFrame(pkt_make_client(p), p)
  <1> DEFINE s == Pack(p)
             sum == pkt_build_check_sum(Pack(p))
             f == [s EXCEPT ![2] = sum]
  <1>1. pkt_make_client(p) = [Pack(p) EXCEPT ![2] = pkt_build_check_sum(Pack(p))]
    BY DEF pkt_make_client, Pack
  <1>2. s \in Seq(Octet) /\ Len(s) = FrameLen(p)
    BY PackFacts
  <1>3. sum \in Cell /\ Octet \subseteq Cell
    BY <1>2 DEF Cell
  <1> HIDE DEF s, sum
  <1>4. f \in Seq(Cell) /\ Len(f) = Len(s)
    <2>1. s \in Seq(Cell) /\ 2 \in 1..Len(s)
      <3>1. Len(s) = Len(p) + 6 /\ Len(p) \in Nat
        BY <1>2, PackFacts
      <3>2. \A i \in 1..Len(s) : s[i] \in Cell
        BY <1>2, <1>3
      <3> QED
        BY <1>2, <3>1, <3>2
    <2> QED
      BY <1>3, <2>1, ExceptSeq
  <1> QED
    BY <1>1, <1>2, <1>4, PackFacts DEF s, sum, f

-----------------------------------------------------------------------------
(* Parsing a frame.                                                        *)

\* The bytes of c from h on are the frame of p, all of it.
FrameAt(c, h, p) ==
    /\ h - 1 + FrameLen(p) <= Len(c)
    /\ \A j \in 1..FrameLen(p) : c[h - 1 + j] = pkt_make_client(p)[j]

LEMMA HeadFirst ==
    ASSUME NEW c \in Seq(Cell), Len(c) >= 1, c[1] = StartTag
    PROVE  pkt_match_head(c) = 1
  <1> DEFINE I == {i \in 1..Len(c) : c[i] = StartTag}
  <1>1. 1 \in I /\ \A i \in I : i \in Nat /\ 1 <= i
    OBVIOUS
  <1>2. pkt_match_head(c) = IF I # {} THEN Min(I) ELSE 0
    BY DEF pkt_match_head, SelectInSeq
  <1> HIDE DEF I
  <1>3. \A i \in I : (\A j \in I : i <= j) => i = 1
    BY <1>1
  <1>4. Min(I) = 1
    BY <1>1, <1>3 DEF Min
  <1> QED
    BY <1>1, <1>2, <1>4

\* Parse with the head found and the length read, and with a head at the first byte.
MemOf(buf) == buf \o [k \in 1..Pad |-> 0]

ParseAt(mem, head, last, v) ==
    IF mem[head + 2] # FrameType THEN {Result("assert", None)}
    ELSE IF last > Len(mem) THEN {Refused, Result("wild", None)} \cup Unknown(mem, head, last)
    ELSE IF pkt_build_check_sum(SubSeq([mem EXCEPT ![head + 1] = 0], head, last)) # mem[head + 1]
            \/ v < Around THEN {Refused}
    ELSE {Result("ok", SubSeq(mem, head + PKT_YS_HEADLEN, last - PKT_YS_ENDLEN))}

LengthAt(mem, head) == mem[head + 3] * ByteMod + mem[head + 4]

\* Whatever is before and behind it, the frame is recognised and its payload handed out:
\* the sum is taken of the bytes that it was made of, with its own byte zero as it was then.
LEMMA FrameParsed ==
    ASSUME NEW p, Payload(p), NEW c \in Seq(Cell), NEW h \in Nat, h >= 1,
           pkt_match_head(c) = h, FrameAt(c, h, p)
    PROVE  Parse(c) = {Result("ok", p)}
  <1> DEFINE f == pkt_make_client(p)
             L == FrameLen(p)
             zeros == [k \in 1..Pad |-> 0]
             mem == c \o zeros
             sum == pkt_build_check_sum(Pack(p))
             l == h + L - 1
  <1>1. /\ L \in Nat /\ L = Len(p) + 6 /\ Len(p) \in Nat /\ Len(c) \in Nat
        /\ Len(Pack(p)) = L /\ Pack(p) \in Seq(Octet) /\ Pack(p)[2] = 0
        /\ f \in Seq(Cell) /\ IsFrame(f, p) /\ p \in Seq(Octet)
    <2>1. p \in Seq(Octet)
      BY DEF Payload
    <2>2. f \in Seq(Cell) /\ IsFrame(f, p)
      BY MadeFrame
    <2> HIDE DEF f
    <2>3. /\ L \in Nat /\ L = Len(p) + 6 /\ Len(p) \in Nat
          /\ Len(Pack(p)) = L /\ Pack(p) \in Seq(Octet) /\ Pack(p)[2] = 0
      BY PackFacts
    <2> QED
      BY <2>1, <2>2, <2>3
  <1>2. h - 1 + L <= Len(c) /\ \A j \in 1..L : c[h - 1 + j] = f[j]
    BY DEF FrameAt
  <1>3. zeros \in Seq(Cell)
    <2>1. 0 \in Cell /\ Pad \in Nat
      BY ByteFacts, FrameAssumption DEF Cell
    <2> QED
      BY <2>1
  <1>4. mem \in Seq(Cell) /\ Joins(mem, c, zeros)
    <2> HIDE DEF zeros
    <2> QED
      BY <1>3, Joined
  <1> HIDE DEF L, mem, zeros, f, sum
  <1>5. l <= Len(mem) /\ Len(mem) \in Nat /\ \A j \in 1..L : mem[h - 1 + j] = f[j]
    <2>1. Len(zeros) \in Nat /\ Len(mem) = Len(c) + Len(zeros) /\ \A j \in 1..Len(c) : mem[j] = c[j]
      BY <1>4 DEF Joins
    <2>2. \A j \in 1..L : h - 1 + j \in 1..Len(c)
      BY <1>1, <1>2
    <2>3. l <= Len(mem) /\ Len(mem) \in Nat
      BY <1>1, <1>2, <2>1
    <2> QED
      BY <1>2, <2>1, <2>2, <2>3
  <1>6. /\ f[1] = StartTag /\ f[2] = sum /\ f[3] = FrameType
        /\ f[4] * ByteMod + f[5] = L
        /\ \A j \in 1..Len(p) : f[5 + j] = p[j]
    BY <1>1 DEF IsFrame, L, sum
  <1>7. mem[h + 1] = sum /\ mem[h + 2] = FrameType /\ mem[h + 3] = f[4] /\ mem[h + 4] = f[5]
    <2>1. /\ 2 \in 1..L /\ 3 \in 1..L /\ 4 \in 1..L /\ 5 \in 1..L
          /\ h - 1 + 2 = h + 1 /\ h - 1 + 3 = h + 2 /\ h - 1 + 4 = h + 3 /\ h - 1 + 5 = h + 4
      BY <1>1
    <2>2. mem[h - 1 + 2] = f[2] /\ mem[h - 1 + 3] = f[3] /\ mem[h - 1 + 4] = f[4]
          /\ mem[h - 1 + 5] = f[5]
      BY <1>5, <2>1
    <2> QED
      BY <1>6, <2>1, <2>2
  <1>9. ASSUME NEW j \in 1..Len(p) PROVE mem[h + 4 + j] = p[j]
    <2>1. 5 + j \in 1..L /\ h - 1 + (5 + j) = h + 4 + j
      BY <1>1
    <2>2. mem[h - 1 + (5 + j)] = f[5 + j]
      BY <1>5, <2>1
    <2> QED
      BY <1>6, <2>1, <2>2
  <1> DEFINE cleared == [mem EXCEPT ![h + 1] = 0]
             body == SubSeq(cleared, h, l)
             part == SubSeq(mem, h + 5, l - 1)
  <1>10. body = Pack(p)
    <2>1. DOMAIN mem = 1..Len(mem) /\ h + 1 \in 1..Len(mem)
      BY <1>1, <1>4, <1>5
    <2>2. cleared[h + 1] = 0 /\ \A j \in 1..L : j # 2 => cleared[h - 1 + j] = f[j]
      <3>1. \A j \in 1..L : h - 1 + j \in 1..Len(mem) /\ (j # 2 => h - 1 + j # h + 1)
        BY <1>1, <1>5
      <3>2. \A i \in 1..Len(mem) : i # h + 1 => cleared[i] = mem[i]
        BY <2>1
      <3>3. cleared[h + 1] = 0
        BY <2>1
      <3> HIDE DEF cleared
      <3> QED
        BY <1>5, <3>1, <3>2, <3>3
    <2>3. \A j \in 1..L : j # 2 => f[j] = Pack(p)[j]
      <3>1. f = [Pack(p) EXCEPT ![2] = sum]
        BY DEF f, sum, pkt_make_client, Pack
      <3> QED
        BY <1>1, <3>1
    <2>4. \A j \in 1..L : cleared[h - 1 + j] = Pack(p)[j] /\ Pack(p)[j] \in Octet
      <3> HIDE DEF cleared
      <3>1. h - 1 + 2 = h + 1
        OBVIOUS
      <3>2. \A j \in 1..L : Pack(p)[j] \in Octet
        BY <1>1
      <3> QED
        BY <1>1, <2>2, <2>3, <3>1, <3>2
    <2> HIDE DEF cleared
    <2>5. /\ body \in Seq(Octet)
          /\ Len(body) = IF h <= l THEN l - h + 1 ELSE 0
          /\ \A i \in 1..l - h + 1 : body[i] = cleared[h + i - 1]
      <3>1. \A j \in h..l : j - h + 1 \in 1..L /\ h - 1 + (j - h + 1) = j
        BY <1>1
      <3>2. ASSUME NEW j \in h..l PROVE cleared[j] \in Octet
        <4>1. cleared[h - 1 + (j - h + 1)] \in Octet
          BY <2>4, <3>1
        <4> QED
          BY <3>1, <4>1
      <3>3. h \in Int /\ l \in Int
        BY <1>1
      <3> HIDE DEF l
      <3> QED
        BY <3>2, <3>3, SubSeqProperties
    <2> HIDE DEF body
    <2>6. Len(body) = L /\ \A i \in 1..L : body[i] = Pack(p)[i]
      <3>1. h <= l /\ l - h + 1 = L /\ \A i \in 1..L : h + i - 1 = h - 1 + i
        BY <1>1
      <3> QED
        BY <2>4, <2>5, <3>1
    <2> QED
      BY <1>1, <2>5, <2>6, SeqEqual
  <1>11. part = p
    <2>1. \A i \in h + 5..l - 1 : i - h - 4 \in 1..Len(p) /\ h + 4 + (i - h - 4) = i
      BY <1>1
    <2>2. \A i \in h + 5..l - 1 : mem[i] \in Octet
      <3> TAKE i \in h + 5..l - 1
      <3>1. mem[h + 4 + (i - h - 4)] = p[i - h - 4] /\ i - h - 4 \in 1..Len(p)
        BY <1>9, <2>1
      <3> QED
        BY <1>1, <2>1, <3>1
    <2> DEFINE m == h + 5
               e == l - 1
    <2>2a. m \in Int /\ e \in Int /\ e - m + 1 = Len(p) /\ (m <= e <=> Len(p) > 0)
           /\ \A i \in 1..Len(p) : m + i - 1 = h + 4 + i
      BY <1>1
    <2>2b. \A i \in m..e : mem[i] \in Octet
      BY <2>2
    <2>2c. part = SubSeq(mem, m, e)
      OBVIOUS
    <2> HIDE DEF m, e, part
    <2>3. /\ part \in Seq(Octet)
          /\ Len(part) = IF m <= e THEN e - m + 1 ELSE 0
          /\ \A i \in 1..e - m + 1 : part[i] = mem[m + i - 1]
      BY <2>2a, <2>2b, <2>2c, SubSeqProperties
    <2>4. Len(part) = Len(p) /\ \A i \in 1..Len(p) : part[i] = mem[h + 4 + i]
      <3>1. Len(part) = Len(p)
        <4>1. CASE m <= e
          BY <2>2a, <2>3, <4>1
        <4>2. CASE ~(m <= e)
          BY <1>1, <2>2a, <2>3, <4>2
        <4> QED
          BY <4>1, <4>2
      <3>2. \A i \in 1..Len(p) : part[i] = mem[m + i - 1]
        BY <2>2a, <2>3
      <3> QED
        BY <2>2a, <3>1, <3>2
    <2> QED
      BY <1>1, <1>9, <2>3, <2>4, SeqEqual
  <1>12. Parse(c) = ParseAt(mem, h, l, L)
    <2>1. LET i == pkt_match_head(c)
          IN  i = 0 \/ Parse(c) = ParseAt(MemOf(c), i, i + LengthAt(MemOf(c), i) - 1, LengthAt(MemOf(c), i))
      BY Zenon DEF Parse, ParseAt, MemOf, LengthAt
    <2>2. Parse(c) = ParseAt(MemOf(c), h, h + LengthAt(MemOf(c), h) - 1, LengthAt(MemOf(c), h))
      BY <2>1
    <2>3. MemOf(c) = mem
      BY DEF MemOf, mem, zeros
    <2>4. LengthAt(mem, h) = L
      BY <1>6, <1>7 DEF LengthAt
    <2> QED
      BY <2>2, <2>3, <2>4
  <1>13. h + PKT_YS_HEADLEN = h + 5 /\ PKT_YS_ENDLEN = 1
    BY DEF PKT_YS_HEADLEN, PKT_YS_ENDLEN
  <1>14. mem[h + 2] = FrameType /\ ~(l > Len(mem)) /\ ~(L < Around) /\ mem[h + 1] = sum
    <2>1. ~(l > Len(mem))
      BY <1>1, <1>5
    <2>2. ~(L < Around)
      BY <1>1, ByteFacts
    <2> QED
      BY <1>7, <2>1, <2>2
  <1>15. ParseAt(mem, h, l, L) =
            IF mem[h + 2] # FrameType THEN {Result("assert", None)}
            ELSE IF l > Len(mem) THEN {Refused, Result("wild", None)} \cup Unknown(mem, h, l)
            ELSE IF pkt_build_check_sum(body) # mem[h + 1] \/ L < Around THEN {Refused}
            ELSE {Result("ok", part)}
    BY <1>13 DEF ParseAt
  <1> HIDE DEF body, part, l
  <1> QED
    BY <1>10, <1>11, <1>12, <1>14, <1>15 DEF sum

-----------------------------------------------------------------------------
(* Numbers, and what do_work writes.                                       *)

\* The bytes of y lie in z behind its first n.
At(z, n, y) == \A j \in 1..Len(y) : z[n + j] = y[j]

LEMMA AtEnd ==
    ASSUME NEW x \in Seq(Octet), NEW y \in Seq(Octet)
    PROVE  /\ x \o y \in Seq(Octet) /\ Len(x \o y) = Len(x) + Len(y)
           /\ At(x \o y, 0, x) /\ At(x \o y, Len(x), y)
  <1>1. x \o y \in Seq(Octet) /\ Joins(x \o y, x, y)
    BY Joined
  <1> DEFINE z == x \o y
  <1>2. z \in Seq(Octet) /\ Joins(z, x, y)
    BY <1>1
  <1> HIDE DEF z
  <1>3. \A j \in 1..Len(x) : 0 + j = j
    OBVIOUS
  <1>4. Len(z) = Len(x) + Len(y) /\ At(z, 0, x) /\ At(z, Len(x), y)
    BY <1>2, <1>3 DEF Joins, At
  <1> QED
    BY <1>2, <1>4 DEF z

\* What lies in x lies in x \o y, and in y \o x further on.
LEMMA AtStays ==
    ASSUME NEW x \in Seq(Octet), NEW y \in Seq(Octet), NEW n \in Nat, NEW w \in Seq(Octet),
           n + Len(w) <= Len(x), At(x, n, w)
    PROVE  At(x \o y, n, w) /\ At(y \o x, Len(y) + n, w)
  <1>1. Joins(x \o y, x, y) /\ Joins(y \o x, y, x)
    BY Joined
  <1> DEFINE z == x \o y
             u == y \o x
  <1>2. Joins(z, x, y) /\ Joins(u, y, x)
    BY <1>1
  <1> HIDE DEF z, u
  <1>3. ASSUME NEW j \in 1..Len(w) PROVE z[n + j] = w[j] /\ u[Len(y) + n + j] = w[j]
    <2>1. Len(w) \in Nat /\ Len(x) \in Nat /\ Len(y) \in Nat
      OBVIOUS
    <2>2. n + j \in 1..Len(x) /\ Len(y) + n + j = Len(y) + (n + j)
      BY <2>1
    <2>3. x[n + j] = w[j]
      BY DEF At
    <2> QED
      BY <1>2, <2>2, <2>3 DEF Joins
  <1>4. At(z, n, w) /\ At(u, Len(y) + n, w)
    BY <1>3 DEF At
  <1> QED
    BY <1>4 DEF z, u

\* The same, of sequences that have names and lengths.
Bytes(x, n) == x \in Seq(Octet) /\ Len(x) = n
Cat(z, x, y) == z = x \o y

LEMMA CatEnd ==
    ASSUME NEW n \in Nat, NEW m \in Nat, NEW x, Bytes(x, n), NEW y, Bytes(y, m),
           NEW z, Cat(z, x, y)
    PROVE  Bytes(z, n + m) /\ At(z, 0, x) /\ At(z, n, y)
  <1>1. x \in Seq(Octet) /\ Len(x) = n /\ y \in Seq(Octet) /\ Len(y) = m
    BY DEF Bytes
  <1> QED
    BY <1>1, AtEnd DEF Cat, Bytes

LEMMA CatStays ==
    ASSUME NEW n \in Nat, NEW m \in Nat, NEW x, Bytes(x, n), NEW y, Bytes(y, m),
           NEW z, Cat(z, x, y),
           NEW k \in Nat, NEW l \in Nat, NEW w, Bytes(w, l), k + l <= n, At(x, k, w)
    PROVE  At(z, k, w)
  <1>1. x \in Seq(Octet) /\ Len(x) = n /\ y \in Seq(Octet) /\ w \in Seq(Octet) /\ Len(w) = l
    BY DEF Bytes
  <1> QED
    BY <1>1, AtStays DEF Cat

LEMMA OutTwo ==
    ASSUME NEW v \in Nat
    PROVE  OUT16_LE(v) \in Seq(Octet) /\ Len(OUT16_LE(v)) = 2
           /\ OUT16_LE(v)[1] = v % ByteMod /\ OUT16_LE(v)[2] = (v \div ByteMod) % ByteMod
  <1> DEFINE q == v \div ByteMod
             a == v % ByteMod
             b == q % ByteMod
  <1>1. q \in Nat /\ a \in Nat /\ a < ByteMod
    BY ByteFacts, DivIs
  <1>2. b \in Nat /\ b < ByteMod
    <2> HIDE DEF q
    <2> QED
      BY <1>1, ByteFacts, DivIs
  <1>3. a \in Octet /\ b \in Octet
    <2> HIDE DEF a, b
    <2> QED
      BY <1>1, <1>2, ByteFacts DEF Octet
  <1> HIDE DEF a, b
  <1>4. OUT16_LE(v) = << a, b >>
    BY DEF OUT16_LE, a, b, q
  <1> QED
    BY <1>3, <1>4 DEF a, b, q

\* What was written as two bytes is read as what it was.
LEMMA ReadTwo ==
    ASSUME NEW v \in Short16, NEW z \in Seq(Octet), NEW n \in Nat, n + 2 <= Len(z),
           At(z, n, OUT16_LE(v))
    PROVE  IN16_LE(z, n + 1) = v /\ (n = 0 => Short(z) = v)
  <1>1. v \in Nat /\ v = (v \div ByteMod) * ByteMod + (v % ByteMod)
        /\ (v \div ByteMod) % ByteMod = v \div ByteMod
    BY TwoBytes, ByteFacts DEF Short16
  <1> DEFINE o == OUT16_LE(v)
             q == v \div ByteMod
             r == v % ByteMod
  <1>2. Len(o) = 2 /\ o[1] = r /\ o[2] = q
    BY <1>1, OutTwo
  <1>2a. At(z, n, o)
    OBVIOUS
  <1>2b. v = q * ByteMod + r /\ q \in Nat /\ r \in Nat
    BY <1>1, DivIs, ByteFacts
  <1> HIDE DEF o, q, r
  <1>3. z[n + 1] = r /\ z[n + 2] = q
    BY <1>2, <1>2a DEF At
  <1> DEFINE k == n + 1
             m == k + 1
             s == SubSeq(z, k, m)
  <1>4. s[1] = z[n + 1] /\ s[2] = z[n + 2]
    <2>1. \A i \in k..m : z[i] \in Octet
      <3>1. Len(z) \in Nat /\ \A i \in k..m : i \in 1..Len(z)
        OBVIOUS
      <3> QED
        BY <3>1
    <2>2. k \in Int /\ m \in Int
      OBVIOUS
    <2>3. 1 \in 1..m - k + 1 /\ 2 \in 1..m - k + 1
          /\ k + 1 - 1 = n + 1 /\ k + 2 - 1 = n + 2
      OBVIOUS
    <2> HIDE DEF k, m
    <2>4. \A i \in 1..m - k + 1 : s[i] = z[k + i - 1]
      BY <2>1, <2>2, SubSeqProperties
    <2> HIDE DEF s
    <2> QED
      BY <2>3, <2>4
  <1>5. IN16_LE(z, n + 1) = s[1] + s[2] * ByteMod
    BY DEF IN16_LE, Short
  <1> HIDE DEF s
  <1>6. r + q * ByteMod = v
    BY <1>2b, ByteFacts
  <1>7. n = 0 => Short(z) = v
    BY <1>3, <1>6 DEF Short
  <1> QED
    BY <1>3, <1>4, <1>5, <1>6, <1>7

\* A long number, its upper and its lower half.
LEMMA TwoHalves ==
    ASSUME NEW v \in Long32
    PROVE  LET M == ByteMod * ByteMod
               w == v \div M
               low == v % M
           IN  /\ v \in Nat /\ w \in Short16 /\ low \in Short16 /\ v = w * M + low
               /\ v % ByteMod = low % ByteMod
               /\ (v \div ByteMod) % ByteMod = (low \div ByteMod) % ByteMod
  <1> DEFINE B == ByteMod
             M == B * B
             w == v \div M
             low == v % M
  <1>1. B \in Nat /\ B > 0 /\ M \in Nat
    BY ByteFacts
  <1>1a. M > 0
    <2>1. PICK x \in Nat : B = x + 1
      <3>1. B - 1 \in Nat /\ B = (B - 1) + 1
        BY <1>1
      <3> QED
        BY <3>1
    <2>2. M = x * x + 2 * x + 1 /\ x * x >= 0
      BY <2>1
    <2> QED
      BY <1>1, <2>1, <2>2
  <1>2. v \in Nat /\ v < M * M
    <2>1. ByteMod * ByteMod * ByteMod * ByteMod = M * M
      BY <1>1
    <2>2. M * M \in Nat
      BY <1>1
    <2> HIDE DEF M
    <2> QED
      BY <2>1, <2>2 DEF Long32
  <1>3. w \in Nat /\ low \in Nat /\ low < M /\ v = w * M + low
    <2> HIDE DEF M
    <2> QED
      BY <1>1, <1>1a, <1>2, DivIs
  <1> HIDE DEF w, low
  <1>4. w < M
    <2> HIDE DEF M
    <2>1. SUFFICES ASSUME w >= M PROVE FALSE
      BY <1>1, <1>3
    <2>2. PICK x \in Nat : w = M + x
      <3>1. w - M \in Nat /\ w = M + (w - M)
        BY <1>1, <1>3, <2>1
      <3> QED
        BY <3>1
    <2>3. w * M = M * M + x * M /\ x * M >= 0 /\ M * M \in Nat
      BY <1>1, <2>2
    <2> QED
      BY <1>1, <1>2, <1>3, <2>3
  <1>5. w \in Short16 /\ low \in Short16
    BY <1>1, <1>3, <1>4 DEF Short16
  <1> DEFINE q == low \div B
             r == low % B
  <1>6. q \in Nat /\ r \in Nat /\ r < B /\ low = q * B + r
    BY <1>1, <1>3, DivIs
  <1>6a. q % B = q /\ q < B
    BY <1>1, <1>5, TwoBytes, ByteFacts
  <1> HIDE DEF q, r
  <1> DEFINE t == w * B + q
  <1>7. t \in Nat /\ v = t * B + r
    <2>1. w * M = (w * B) * B
      BY <1>1, <1>3
    <2>2. t * B = (w * B) * B + q * B
      BY <1>1, <1>3, <1>6
    <2>3. (w * B) * B \in Nat /\ q * B \in Nat /\ t \in Nat
      BY <1>1, <1>3, <1>6
    <2> HIDE DEF t, M
    <2> QED
      BY <1>1, <1>3, <1>6, <2>1, <2>2, <2>3
  <1>8. t \div B = w /\ t % B = q
    <2>1. t = w * B + q
      OBVIOUS
    <2> HIDE DEF t
    <2> QED
      BY <1>1, <1>3, <1>6, <1>6a, <1>7, <2>1, DivUnique
  <1> HIDE DEF t
  <1>9. v \div B = t /\ v % B = r
    BY <1>1, <1>2, <1>6, <1>7, DivUnique
  <1> QED
    BY <1>2, <1>3, <1>5, <1>6a, <1>8, <1>9 DEF q, r, w, low

LEMMA OutFour ==
    ASSUME NEW v \in Long32
    PROVE  LET w == v \div (ByteMod * ByteMod)
               low == v % (ByteMod * ByteMod)
           IN  /\ OUT32_LE(v) = OUT16_LE(low) \o OUT16_LE(w)
               /\ OUT32_LE(v) \in Seq(Octet) /\ Len(OUT32_LE(v)) = 4
  <1> DEFINE w == v \div (ByteMod * ByteMod)
             low == v % (ByteMod * ByteMod)
  <1>1. /\ v \in Nat /\ w \in Short16 /\ low \in Short16
        /\ v % ByteMod = low % ByteMod
        /\ (v \div ByteMod) % ByteMod = (low \div ByteMod) % ByteMod
    BY TwoHalves
  <1>2. OUT32_LE(v) = OUT16_LE(v) \o OUT16_LE(w)
    BY DEF OUT32_LE
  <1> HIDE DEF w, low
  <1>3. OUT16_LE(v) = OUT16_LE(low)
    BY <1>1, Zenon DEF OUT16_LE
  <1>4. w \in Nat /\ low \in Nat
    BY <1>1 DEF Short16
  <1>5. /\ OUT16_LE(low) \in Seq(Octet) /\ Len(OUT16_LE(low)) = 2
        /\ OUT16_LE(w) \in Seq(Octet) /\ Len(OUT16_LE(w)) = 2
    BY <1>4, OutTwo
  <1>6. OUT32_LE(v) = OUT16_LE(low) \o OUT16_LE(w)
    BY <1>2, <1>3
  <1>7. OUT32_LE(v) \in Seq(Octet) /\ Len(OUT32_LE(v)) = 2 + 2
    BY <1>5, <1>6, AtEnd
  <1> QED
    BY <1>6, <1>7 DEF w, low

LEMMA ReadFour ==
    ASSUME NEW v \in Long32, NEW z \in Seq(Octet), NEW n \in Nat, n + 4 <= Len(z),
           At(z, n, OUT32_LE(v))
    PROVE  IN32_LE(z, n + 1) = v
  <1> DEFINE M == ByteMod * ByteMod
             w == v \div M
             low == v % M
             lowly == OUT16_LE(low)
             highly == OUT16_LE(w)
             o == OUT32_LE(v)
  <1>1. v \in Nat /\ w \in Short16 /\ low \in Short16 /\ v = w * M + low
    BY TwoHalves
  <1>2. o = lowly \o highly /\ Len(o) = 4
    BY OutFour
  <1>2a. M \in Nat
    BY ByteFacts
  <1> HIDE DEF w, low, o
  <1>3. w \in Nat /\ low \in Nat
    BY <1>1 DEF Short16
  <1>4. /\ lowly \in Seq(Octet) /\ Len(lowly) = 2
        /\ highly \in Seq(Octet) /\ Len(highly) = 2
    BY <1>3, OutTwo
  <1> HIDE DEF lowly, highly
  <1>5. At(o, 0, lowly) /\ At(o, 2, highly)
    BY <1>2, <1>4, AtEnd
  <1>6. At(z, n, o) /\ Len(z) \in Nat
    BY DEF o
  <1>7. At(z, n, lowly) /\ At(z, n + 2, highly)
    <2>1. ASSUME NEW j \in 1..2 PROVE z[n + j] = lowly[j] /\ z[n + 2 + j] = highly[j]
      <3>1. j \in 1..4 /\ 2 + j \in 1..4 /\ 0 + j = j /\ n + 2 + j = n + (2 + j)
        OBVIOUS
      <3>2. z[n + j] = o[j] /\ z[n + (2 + j)] = o[2 + j]
        BY <1>2, <1>6, <3>1 DEF At
      <3>3. o[0 + j] = lowly[j] /\ o[2 + j] = highly[j]
        BY <1>4, <1>5 DEF At
      <3> QED
        BY <3>1, <3>2, <3>3
    <2> QED
      BY <1>4, <2>1 DEF At
  <1>8. IN16_LE(z, n + 1) = low
    BY <1>1, <1>6, <1>7, ReadTwo DEF lowly
  <1>9. IN16_LE(z, n + 2 + 1) = w
    <2>1. n + 2 \in Nat /\ n + 2 + 2 <= Len(z)
      BY <1>6
    <2> QED
      BY <1>1, <1>7, <2>1, ReadTwo DEF highly
  <1>10. n + 1 + 2 = n + 2 + 1
    OBVIOUS
  <1>11. IN32_LE(z, n + 1) = low + w * ByteMod * ByteMod
    BY <1>8, <1>9, <1>10 DEF IN32_LE
  <1>12. w * ByteMod * ByteMod = w * M
    BY <1>3, ByteFacts
  <1> HIDE DEF M
  <1>13. w * M \in Nat
    BY <1>2a, <1>3
  <1> QED
    BY <1>1, <1>3, <1>11, <1>12, <1>13

\* The numbers of a User.
UserType ==
    [id : Long32, status : Octet, money_z : Long32, money_d : Long32,
     solo_w : Long32, solo_f : Long32, solo_s : Short16, lv : Short16]

\* Where todata's numbers lie in z from n on.
Written(z, n, user) ==
    /\ At(z, n, OUT32_LE(user.id)) /\ At(z, n + 5, OUT32_LE(user.money_z))
    /\ At(z, n + 9, OUT32_LE(user.money_d)) /\ At(z, n + 13, OUT32_LE(user.solo_w))
    /\ At(z, n + 17, OUT32_LE(user.solo_f)) /\ At(z, n + 21, OUT16_LE(user.solo_s))
    /\ At(z, n + 23, OUT16_LE(user.lv))

LEMMA TodataFacts ==
    ASSUME NEW user \in UserType, todata(user) # None
    PROVE  /\ user.id >= U_ID_INIT
           /\ todata(user) \in Seq(Octet) /\ Len(todata(user)) = USER_DATA_SIZE
           /\ Written(todata(user), 0, user)
  <1> DEFINE a == OUT32_LE(user.id)
             b == << user.status >>
             c == OUT32_LE(user.money_z)
             d == OUT32_LE(user.money_d)
             e == OUT32_LE(user.solo_w)
             f == OUT32_LE(user.solo_f)
             g == OUT16_LE(user.solo_s)
             h == OUT16_LE(user.lv)
             ab == a \o b
             ac == ab \o c
             ad == ac \o d
             ae == ad \o e
             af == ae \o f
             ag == af \o g
             ah == ag \o h
  <1>1. ~(user.id < U_ID_INIT) /\ todata(user) = ah
    BY Zenon DEF todata
  <1>2. /\ user.id \in Long32 /\ user.money_z \in Long32 /\ user.money_d \in Long32
        /\ user.solo_w \in Long32 /\ user.solo_f \in Long32
        /\ user.solo_s \in Nat /\ user.lv \in Nat /\ user.status \in Octet
    BY DEF UserType, Short16
  <1>3. /\ a \in Seq(Octet) /\ Len(a) = 4 /\ c \in Seq(Octet) /\ Len(c) = 4
        /\ d \in Seq(Octet) /\ Len(d) = 4 /\ e \in Seq(Octet) /\ Len(e) = 4
        /\ f \in Seq(Octet) /\ Len(f) = 4
    BY <1>2, OutFour
  <1>4. g \in Seq(Octet) /\ Len(g) = 2 /\ h \in Seq(Octet) /\ Len(h) = 2
    BY <1>2, OutTwo
  <1>5. b \in Seq(Octet) /\ Len(b) = 1
    BY <1>2
  <1> HIDE DEF a, b, c, d, e, f, g, h
  <1>5a. /\ Cat(ab, a, b) /\ Cat(ac, ab, c) /\ Cat(ad, ac, d) /\ Cat(ae, ad, e)
         /\ Cat(af, ae, f) /\ Cat(ag, af, g) /\ Cat(ah, ag, h)
    BY DEF Cat
  <1> HIDE DEF ab, ac, ad, ae, af, ag, ah
  <1>5b. /\ Bytes(a, 4) /\ Bytes(b, 1) /\ Bytes(c, 4) /\ Bytes(d, 4) /\ Bytes(e, 4)
         /\ Bytes(f, 4) /\ Bytes(g, 2) /\ Bytes(h, 2)
    BY <1>3, <1>4, <1>5 DEF Bytes
  <1>6. Bytes(ab, 5) /\ At(ab, 0, a)
    BY <1>5a, <1>5b, CatEnd
  <1>7. Bytes(ac, 9) /\ At(ac, 0, a) /\ At(ac, 5, c)
    <2>1. Bytes(ac, 9) /\ At(ac, 5, c)
      BY <1>6, <1>5a, <1>5b, CatEnd
    <2>2. At(ac, 0, a)
      BY <1>6, <1>5a, <1>5b, CatStays
    <2> QED
      BY <2>1, <2>2
  <1>8. Bytes(ad, 13) /\ At(ad, 0, a) /\ At(ad, 5, c) /\ At(ad, 9, d)
    <2>1. Bytes(ad, 13) /\ At(ad, 9, d)
      BY <1>7, <1>5a, <1>5b, CatEnd
    <2>2. At(ad, 0, a) /\ At(ad, 5, c)
      BY <1>7, <1>5a, <1>5b, CatStays
    <2> QED
      BY <2>1, <2>2
  <1>9. /\ Bytes(ae, 17)
        /\ At(ae, 0, a) /\ At(ae, 5, c) /\ At(ae, 9, d) /\ At(ae, 13, e)
    <2>1. Bytes(ae, 17) /\ At(ae, 13, e)
      BY <1>8, <1>5a, <1>5b, CatEnd
    <2>2. At(ae, 0, a) /\ At(ae, 5, c) /\ At(ae, 9, d)
      BY <1>8, <1>5a, <1>5b, CatStays
    <2> QED
      BY <2>1, <2>2
  <1>10. /\ Bytes(af, 21)
         /\ At(af, 0, a) /\ At(af, 5, c) /\ At(af, 9, d) /\ At(af, 13, e) /\ At(af, 17, f)
    <2>1. Bytes(af, 21) /\ At(af, 17, f)
      BY <1>9, <1>5a, <1>5b, CatEnd
    <2>2. At(af, 0, a) /\ At(af, 5, c) /\ At(af, 9, d) /\ At(af, 13, e)
      BY <1>9, <1>5a, <1>5b, CatStays
    <2> QED
      BY <2>1, <2>2
  <1>11. /\ Bytes(ag, 23)
         /\ At(ag, 0, a) /\ At(ag, 5, c) /\ At(ag, 9, d) /\ At(ag, 13, e) /\ At(ag, 17, f)
         /\ At(ag, 21, g)
    <2>1. Bytes(ag, 23) /\ At(ag, 21, g)
      BY <1>10, <1>5a, <1>5b, CatEnd
    <2>2. At(ag, 0, a) /\ At(ag, 5, c) /\ At(ag, 9, d) /\ At(ag, 13, e) /\ At(ag, 17, f)
      BY <1>10, <1>5a, <1>5b, CatStays
    <2> QED
      BY <2>1, <2>2
  <1>12. /\ Bytes(ah, 25)
         /\ At(ah, 0, a) /\ At(ah, 5, c) /\ At(ah, 9, d) /\ At(ah, 13, e) /\ At(ah, 17, f)
         /\ At(ah, 21, g) /\ At(ah, 23, h)
    <2>1. Bytes(ah, 25) /\ At(ah, 23, h)
      BY <1>11, <1>5a, <1>5b, CatEnd
    <2>2. /\ At(ah, 0, a) /\ At(ah, 5, c) /\ At(ah, 9, d) /\ At(ah, 13, e) /\ At(ah, 17, f)
          /\ At(ah, 21, g)
      BY <1>11, <1>5a, <1>5b, CatStays
    <2> QED
      BY <2>1, <2>2
  <1>13. Written(ah, 0, user)
    <2>1. 0 + 5 = 5 /\ 0 + 9 = 9 /\ 0 + 13 = 13 /\ 0 + 17 = 17 /\ 0 + 21 = 21 /\ 0 + 23 = 23
      OBVIOUS
    <2> QED
      BY <1>12, <2>1 DEF Written, a, c, d, e, f, g, h
  <1>14. user.id >= U_ID_INIT
    BY <1>1, <1>2, FrameAssumption DEF Long32
  <1> QED
    BY <1>1, <1>12, <1>13, <1>14 DEF USER_DATA_SIZE, Bytes

LEMMA UserFacts ==
    ASSUME NEW row \in Account, NEW user \in NewUser(row)
    PROVE  /\ user \in UserType
           /\ \E q \in Account \cup Leftover :
                 /\ q.id = user.id /\ q.money_z = user.money_z /\ q.money_d = user.money_d
                 /\ q.solo_w = user.solo_w /\ q.solo_f = user.solo_f
                 /\ q.solo_s = user.solo_s /\ q.lv = user.lv
  <1>1. Account \cup Leftover \subseteq UserType
    BY FrameAssumption DEF UserType
  <1>2. CASE row.id < U_ID_INIT
    BY <1>1, <1>2 DEF NewUser
  <1>3. CASE ~(row.id < U_ID_INIT)
    <2>1. user = [row EXCEPT !.status = ON_LINE]
      BY <1>3 DEF NewUser
    <2>2. ON_LINE \in Octet /\ row \in UserType
      BY <1>1, ByteFacts DEF ON_LINE, Octet
    <2>3. user \in UserType
      BY <2>1, <2>2 DEF UserType
    <2>4. /\ row.id = user.id /\ row.money_z = user.money_z /\ row.money_d = user.money_d
          /\ row.solo_w = user.solo_w /\ row.solo_f = user.solo_f
          /\ row.solo_s = user.solo_s /\ row.lv = user.lv
      BY <2>1, <2>2 DEF UserType
    <2> QED
      BY <2>3, <2>4
  <1> QED
    BY <1>2, <1>3

\* The head of an answer: two bytes of its kind and one more.
Headed(kind, o) == OUT16_LE(kind) \o << o >>

LEMMA AnswerHead ==
    ASSUME NEW kind \in Octet, NEW o \in Octet
    PROVE  /\ Bytes(Headed(kind, o), 3) /\ At(Headed(kind, o), 0, OUT16_LE(kind))
           /\ Headed(kind, o)[3] = o /\ kind \in Short16
  <1> DEFINE a == OUT16_LE(kind)
             b == << o >>
             head == a \o b
  <1>1. kind \in Nat /\ kind \in Short16
    <2>1. ByteMod <= ByteMod * ByteMod /\ ByteMod * ByteMod \in Nat
      <3>1. PICK x \in Nat : ByteMod = x + 1
        <4>1. ByteMod - 1 \in Nat /\ ByteMod = (ByteMod - 1) + 1
          BY ByteFacts
        <4> QED
          BY <4>1
      <3>2. ByteMod * ByteMod = ByteMod + x * ByteMod /\ x * ByteMod >= 0
        BY <3>1, ByteFacts
      <3> QED
        BY <3>2, ByteFacts
    <2> DEFINE M == ByteMod * ByteMod
    <2>2. M \in Nat /\ kind \in Nat /\ kind < M
      BY <2>1, ByteFacts
    <2> HIDE DEF M
    <2>3. kind \in 0..M - 1
      BY <2>2
    <2> QED
      BY <2>2, <2>3 DEF Short16, M
  <1>2. a \in Seq(Octet) /\ Len(a) = 2
    BY <1>1, OutTwo
  <1>3. b \in Seq(Octet) /\ Len(b) = 1 /\ b[1] = o
    OBVIOUS
  <1> HIDE DEF a, b
  <1>4. Bytes(a, 2) /\ Bytes(b, 1) /\ Cat(head, a, b)
    BY <1>2, <1>3 DEF Bytes, Cat
  <1> HIDE DEF head
  <1>5. Bytes(head, 2 + 1) /\ At(head, 0, a) /\ At(head, 2, b)
    BY <1>4, CatEnd
  <1>6. head[2 + 1] = b[1]
    BY <1>3, <1>5 DEF At
  <1>7. Bytes(head, 3) /\ At(head, 0, a) /\ head[3] = o
    BY <1>3, <1>5, <1>6
  <1>8. Headed(kind, o) = head
    BY DEF Headed, head, a, b
  <1> QED
    BY <1>1, <1>7, <1>8 DEF a

\* The kind of an answer is read from its first two bytes.
LEMMA AnswerKind ==
    ASSUME NEW kind \in Octet, kind \in Short16, NEW z, NEW n \in Nat, n >= 2, Bytes(z, n),
           At(z, 0, OUT16_LE(kind))
    PROVE  Short(z) = kind
  <1>1. z \in Seq(Octet) /\ 0 + 2 <= Len(z) /\ 0 \in Nat
    BY DEF Bytes
  <1> QED
    BY <1>1, ReadTwo

\* An answer of three bytes or of USER_DATA_SIZE more fits a frame.
LEMMA ShortEnough ==
    ASSUME NEW z, NEW n \in Nat, n <= 3 + USER_DATA_SIZE, Bytes(z, n)
    PROVE  Payload(z)
  <1>1. PICK x \in Nat : ByteMod = 7 + x
    <2>1. ByteMod - 7 \in Nat /\ ByteMod = 7 + (ByteMod - 7)
      BY ByteFacts
    <2> QED
      BY <2>1
  <1>2. ByteMod * ByteMod = 49 + 14 * x + x * x /\ x * x \in Nat
    BY <1>1
  <1> DEFINE M == ByteMod * ByteMod
  <1>3. M \in Nat /\ M >= 49
    BY <1>2, ByteFacts
  <1> HIDE DEF M
  <1>4. n + 6 \in 0..M - 1
    BY <1>3 DEF USER_DATA_SIZE
  <1> QED
    BY <1>4, ByteFacts DEF Payload, Bytes, Short16, M

\* The kinds of a request, as numbers.
LEMMA RequestFacts ==
    ASSUME NEW r \in Request
    PROVE  Payload(r) /\ Short(r) = r[1] /\ r[1] \in {LOGIN, MATCH, REGISTER}
  <1>1. /\ r \in Seq(Octet) /\ Len(r) >= 2 /\ Len(r) + Around \in Short16
        /\ r[1] \in {LOGIN, MATCH, REGISTER} /\ r[2] = 0
    BY FrameAssumption
  <1>2. Short(r) = r[1] + 0 * ByteMod
    BY <1>1 DEF Short
  <1>3. r[1] \in Nat /\ ByteMod \in Nat
    BY <1>1, ByteFacts DEF LOGIN, MATCH, REGISTER
  <1> QED
    BY <1>1, <1>2, <1>3 DEF Payload

\* What is written in u is written in z, if u lies in z.
Within(z, n, u) == At(z, n, u) /\ Len(u) = 25 /\ n \in Nat

LEMMA AtWithin ==
    ASSUME NEW z, NEW n, NEW u, Within(z, n, u), NEW k \in Nat, NEW l \in Nat, NEW w, Bytes(w, l),
           k + l <= 25, At(u, k, w)
    PROVE  At(z, n + k, w)
  <1>1. Len(w) = l /\ n \in Nat /\ Len(u) = 25 /\ At(z, n, u)
    BY DEF Bytes, Within
  <1>2. ASSUME NEW j \in 1..l PROVE z[n + k + j] = w[j]
    <2>1. k + j \in 1..25 /\ n + (k + j) = n + k + j
      BY <1>1
    <2>2. u[k + j] = w[j] /\ z[n + (k + j)] = u[k + j]
      BY <1>1, <2>1 DEF At
    <2> QED
      BY <2>1, <2>2
  <1> QED
    BY <1>1, <1>2 DEF At

\* Reading from bytes of a known length.
LEMMA ReadFrom ==
    ASSUME NEW m \in Nat, NEW z, Bytes(z, m), NEW n \in Nat
    PROVE  /\ \A v \in Long32 : At(z, n, OUT32_LE(v)) /\ n + 4 <= m => IN32_LE(z, n + 1) = v
           /\ \A v \in Short16 : At(z, n, OUT16_LE(v)) /\ n + 2 <= m => IN16_LE(z, n + 1) = v
  <1>1. z \in Seq(Octet) /\ Len(z) = m
    BY DEF Bytes
  <1> QED
    BY <1>1, ReadTwo, ReadFour

LEMMA WrittenFurther ==
    ASSUME NEW user \in UserType, NEW z, NEW u, Within(z, 3, u), Written(u, 0, user)
    PROVE  /\ At(z, 3, OUT32_LE(user.id)) /\ At(z, 8, OUT32_LE(user.money_z))
           /\ At(z, 12, OUT32_LE(user.money_d)) /\ At(z, 16, OUT32_LE(user.solo_w))
           /\ At(z, 20, OUT32_LE(user.solo_f)) /\ At(z, 24, OUT16_LE(user.solo_s))
           /\ At(z, 26, OUT16_LE(user.lv))
  <1> DEFINE a == OUT32_LE(user.id)
             c == OUT32_LE(user.money_z)
             d == OUT32_LE(user.money_d)
             e == OUT32_LE(user.solo_w)
             f == OUT32_LE(user.solo_f)
             g == OUT16_LE(user.solo_s)
             h == OUT16_LE(user.lv)
  <1>1. /\ Bytes(a, 4) /\ Bytes(c, 4) /\ Bytes(d, 4) /\ Bytes(e, 4) /\ Bytes(f, 4)
        /\ Bytes(g, 2) /\ Bytes(h, 2)
    <2>1. /\ user.id \in Long32 /\ user.money_z \in Long32 /\ user.money_d \in Long32
          /\ user.solo_w \in Long32 /\ user.solo_f \in Long32
          /\ user.solo_s \in Nat /\ user.lv \in Nat
      BY DEF UserType, Short16
    <2> QED
      BY <2>1, OutTwo, OutFour DEF Bytes
  <1>2. /\ At(u, 0, a) /\ At(u, 5, c) /\ At(u, 9, d) /\ At(u, 13, e) /\ At(u, 17, f)
        /\ At(u, 21, g) /\ At(u, 23, h)
    <2>1. 0 + 5 = 5 /\ 0 + 9 = 9 /\ 0 + 13 = 13 /\ 0 + 17 = 17 /\ 0 + 21 = 21 /\ 0 + 23 = 23
      OBVIOUS
    <2> QED
      BY <2>1 DEF Written
  <1> HIDE DEF a, c, d, e, f, g, h
  <1>3. /\ At(z, 3 + 0, a) /\ At(z, 3 + 5, c) /\ At(z, 3 + 9, d) /\ At(z, 3 + 13, e)
        /\ At(z, 3 + 17, f) /\ At(z, 3 + 21, g) /\ At(z, 3 + 23, h)
    BY <1>1, <1>2, AtWithin
  <1> QED
    BY <1>3 DEF a, c, d, e, f, g, h

\* An answer to a login with a user's numbers in it.
LoginRec(user, o) == Headed(REC_LOGIN, o) \o SubSeq(todata(user), 1, USER_DATA_SIZE)

LEMMA LoginAnswer ==
    ASSUME NEW row \in Account, NEW user \in NewUser(row), todata(user) # None,
           NEW o \in Octet, o # 0
    PROVE  /\ Bytes(LoginRec(user, o), 28) /\ Short(LoginRec(user, o)) = REC_LOGIN
           /\ LoginTrue(LoginRec(user, o))
  <1> DEFINE head == Headed(REC_LOGIN, o)
             u == todata(user)
             kind == OUT16_LE(REC_LOGIN)
             rec == head \o u
  <1>1. user \in UserType
    BY UserFacts
  <1>2. /\ user.id >= U_ID_INIT /\ u \in Seq(Octet) /\ Len(u) = USER_DATA_SIZE
        /\ Written(u, 0, user)
    BY <1>1, TodataFacts
  <1>3. SubSeq(u, 1, USER_DATA_SIZE) = u
    <2> HIDE DEF u
    <2> QED
      BY <1>2, SubSeqFull
  <1>4. REC_LOGIN \in Octet
    BY ByteFacts DEF REC_LOGIN, Octet
  <1>5. Bytes(head, 3) /\ At(head, 0, kind) /\ head[3] = o /\ REC_LOGIN \in Short16
    BY <1>4, AnswerHead
  <1>6. Bytes(u, 25)
    BY <1>2 DEF Bytes, USER_DATA_SIZE
  <1>7. Bytes(kind, 2)
    <2>1. REC_LOGIN \in Nat
      BY DEF REC_LOGIN
    <2> QED
      BY <2>1, OutTwo DEF Bytes
  <1>8. Cat(rec, head, u)
    BY DEF Cat
  <1>9. LoginRec(user, o) = rec
    BY <1>3 DEF LoginRec
  <1> HIDE DEF head, u, kind, rec
  <1>10. Bytes(rec, 3 + 25) /\ At(rec, 0, head) /\ At(rec, 3, u)
    BY <1>5, <1>6, <1>8, CatEnd
  <1>11. At(rec, 0, kind)
    BY <1>5, <1>6, <1>7, <1>8, CatStays
  <1>12. rec[3] = o
    <2>1. Len(head) = 3
      BY <1>5 DEF Bytes
    <2>2. rec[0 + 3] = head[3]
      BY <1>10, <2>1 DEF At
    <2> QED
      BY <1>5, <2>2
  <1>13. Short(rec) = REC_LOGIN
    BY <1>4, <1>5, <1>10, <1>11, AnswerKind DEF kind
  <1>14. Within(rec, 3, u) /\ rec \in Seq(Octet) /\ Len(rec) = 28
    BY <1>6, <1>10 DEF Within, Bytes
  <1>15. LoginTrue(rec)
    <2>1. PICK q \in Account \cup Leftover :
             /\ q.id = user.id /\ q.money_z = user.money_z /\ q.money_d = user.money_d
             /\ q.solo_w = user.solo_w /\ q.solo_f = user.solo_f
             /\ q.solo_s = user.solo_s /\ q.lv = user.lv
      BY UserFacts
    <2>2. /\ user.id \in Long32 /\ user.money_z \in Long32 /\ user.money_d \in Long32
          /\ user.solo_w \in Long32 /\ user.solo_f \in Long32
          /\ user.solo_s \in Short16 /\ user.lv \in Short16
      BY <1>1 DEF UserType
    <2>3. /\ At(rec, 3, OUT32_LE(user.id)) /\ At(rec, 8, OUT32_LE(user.money_z))
          /\ At(rec, 12, OUT32_LE(user.money_d)) /\ At(rec, 16, OUT32_LE(user.solo_w))
          /\ At(rec, 20, OUT32_LE(user.solo_f)) /\ At(rec, 24, OUT16_LE(user.solo_s))
          /\ At(rec, 26, OUT16_LE(user.lv))
      BY <1>1, <1>2, <1>14, WrittenFurther
    <2>0. Bytes(rec, 28)
      BY <1>10
    <2>4. /\ IN32_LE(rec, 3 + 1) = user.id /\ IN32_LE(rec, 8 + 1) = user.money_z
          /\ IN32_LE(rec, 12 + 1) = user.money_d /\ IN32_LE(rec, 16 + 1) = user.solo_w
          /\ IN32_LE(rec, 20 + 1) = user.solo_f
      BY <2>0, <2>2, <2>3, ReadFrom
    <2>5. IN16_LE(rec, 24 + 1) = user.solo_s /\ IN16_LE(rec, 26 + 1) = user.lv
      BY <2>0, <2>2, <2>3, ReadFrom
    <2> QED
      BY <1>2, <1>12, <1>14, <2>1, <2>4, <2>5 DEF LoginTrue, USER_DATA_SIZE
  <1> QED
    <2>1. Bytes(rec, 28)
      BY <1>10
    <2> QED
      BY <1>9, <1>13, <1>15, <2>1

\* What do_work writes for a request of a kind; and that it is what a client may rely on.
RightAnswer(rec, kind) ==
    /\ Payload(rec) /\ rec # None /\ Short(rec) = Answers[kind]
    /\ Short(rec) = REC_LOGIN => LoginTrue(rec)

LEMMA AnswerKinds ==
    /\ Answers[LOGIN] = REC_LOGIN /\ Answers[MATCH] = REC_MATCH
    /\ Answers[REGISTER] = REC_REGISTER
  <1>1. LOGIN = 1 /\ MATCH = 2 /\ REGISTER = 4
    BY DEF LOGIN, MATCH, REGISTER
  <1> QED
    BY <1>1 DEF Answers

LEMMA AnswerTrue ==
    ASSUME NEW r \in Request, NEW good \in BOOLEAN, NEW row \in Account, NEW user \in NewUser(row)
    PROVE  RightAnswer(do_work(r, good, user), r[1])
  <1> DEFINE rec == do_work(r, good, user)
             u_buf == IF good THEN todata(user) ELSE None
             rec_inx == IF good THEN Inx + 1 ELSE 0
             yes == IF good THEN 1 ELSE 0
             where == IF good THEN Address ELSE None
             long == Headed(REC_LOGIN, rec_inx) \o SubSeq(u_buf, 1, USER_DATA_SIZE)
  <1>1. Short(r) = r[1] /\ r[1] \in {LOGIN, MATCH, REGISTER}
    BY RequestFacts
  <1>2. LOGIN = 1 /\ MATCH = 2 /\ REC_LOGIN = 3 /\ REGISTER = 4 /\ REC_REGISTER = 5 /\ REC_MATCH = 6
    BY DEF LOGIN, MATCH, REC_LOGIN, REGISTER, REC_REGISTER, REC_MATCH
  <1>3. REC_LOGIN \in Octet /\ REC_REGISTER \in Octet /\ REC_MATCH \in Octet /\ 1 \in Octet /\ 0 \in Octet
    BY <1>2, ByteFacts DEF Octet
  <1>4. rec_inx \in Octet /\ yes \in Octet
    BY <1>3, FrameAssumption
  <1>5. rec = CASE Short(r) = LOGIN ->
                     IF u_buf = None THEN Headed(REC_LOGIN, 0)
                     ELSE long
                [] Short(r) = MATCH -> Headed(REC_MATCH, yes) \o where
                [] Short(r) = REGISTER -> Headed(REC_REGISTER, rec_inx)
                [] OTHER -> None
    <2> DEFINE x == r \o << 0, 0 >>
    <2>1. rec = CASE Short(x) = LOGIN ->
                       IF u_buf = None THEN Headed(REC_LOGIN, 0)
                       ELSE long
                  [] Short(x) = MATCH -> Headed(REC_MATCH, yes) \o where
                  [] Short(x) = REGISTER -> Headed(REC_REGISTER, rec_inx)
                  [] OTHER -> None
      BY DEF do_work, Headed
    <2>2. x[1] = r[1] /\ x[2] = r[2]
      BY FrameAssumption
    <2> HIDE DEF x, rec
    <2>3. Short(x) = Short(r)
      BY <2>2 DEF Short
    <2> QED
      BY <2>1, <2>3
  <1>6. ASSUME NEW z, NEW n \in Nat, n > 0, Bytes(z, n) PROVE z # None
    <2>1. Len(None) = 0
      BY DEF None
    <2> QED
      BY <1>6, <2>1 DEF Bytes
  <1>6a. (good => where = Address) /\ (~good => where = << >>)
    BY DEF None
  <1>6b. u_buf # None => good /\ u_buf = todata(user) /\ rec_inx # 0
    BY FrameAssumption
  <1> HIDE DEF rec, u_buf, rec_inx, yes, where, long
  <1>7. CASE r[1] = LOGIN /\ u_buf = None
    <2>1. rec = Headed(REC_LOGIN, 0)
      BY <1>1, <1>2, <1>5, <1>7
    <2>2. Bytes(rec, 3) /\ At(rec, 0, OUT16_LE(REC_LOGIN)) /\ rec[3] = 0 /\ REC_LOGIN \in Short16
      BY <1>3, <2>1, AnswerHead
    <2>3. Short(rec) = REC_LOGIN
      BY <1>3, <2>2, AnswerKind
    <2>4. Payload(rec) /\ rec # None
      BY <1>6, <2>2, ShortEnough DEF USER_DATA_SIZE
    <2>5. LoginTrue(rec)
      BY <2>2 DEF LoginTrue, Bytes
    <2>6. Answers[r[1]] = REC_LOGIN
      BY <1>7, AnswerKinds
    <2> QED
      BY <2>3, <2>4, <2>5, <2>6 DEF RightAnswer, rec
  <1>8. CASE r[1] = LOGIN /\ u_buf # None
    <2>1. good /\ u_buf = todata(user) /\ rec_inx # 0
      BY <1>6b, <1>8
    <2>2. rec = LoginRec(user, rec_inx)
      <3>1. rec = long
        BY <1>1, <1>2, <1>5, <1>8
      <3> QED
        BY <2>1, <3>1, Zenon DEF LoginRec, long
    <2>3. Bytes(rec, 28) /\ Short(rec) = REC_LOGIN /\ LoginTrue(rec)
      BY <1>4, <1>8, <2>1, <2>2, LoginAnswer
    <2>4. Payload(rec) /\ rec # None
      BY <1>6, <2>3, ShortEnough DEF USER_DATA_SIZE
    <2>5. Answers[r[1]] = REC_LOGIN
      BY <1>8, AnswerKinds
    <2> QED
      BY <2>3, <2>4, <2>5 DEF RightAnswer, rec
  <1>9. CASE r[1] = MATCH
    <2> DEFINE head == Headed(REC_MATCH, yes)
               kind == OUT16_LE(REC_MATCH)
    <2>1. rec = head \o where
      BY <1>1, <1>2, <1>5, <1>9
    <2>2. Bytes(head, 3) /\ At(head, 0, kind) /\ REC_MATCH \in Short16
      BY <1>3, <1>4, AnswerHead
    <2>3. /\ where \in Seq(Octet) /\ Len(where) \in Nat
          /\ 3 + Len(where) + Around \in Short16
      <3>1. CASE good
        BY <1>6a, <3>1, FrameAssumption
      <3>2. CASE ~good
        <4>1. where = << >> /\ Len(where) = 0
          BY <1>6a, <3>2
        <4>2. Payload(head) /\ Len(head) = 3
          <5> HIDE DEF head
          <5>1. Len(head) = 3
            BY <2>2 DEF Bytes
          <5>2. 3 \in Nat /\ 3 <= 3 + USER_DATA_SIZE
            BY DEF USER_DATA_SIZE
          <5> QED
            BY <2>2, <5>1, <5>2, ShortEnough
        <4>3. 3 + Len(where) + Around = Len(head) + Around
          <5> HIDE DEF head
          <5> QED
            BY <4>1, <4>2
        <4>4. where \in Seq(Octet)
          <5> HIDE DEF head
          <5> QED
            BY <4>1
        <4> QED
          BY <4>1, <4>2, <4>3, <4>4 DEF Payload
      <3> QED
        BY <3>1, <3>2
    <2> DEFINE m == Len(where)
    <2>4. m \in Nat /\ Bytes(where, m) /\ Cat(rec, head, where)
      BY <2>1, <2>3 DEF Bytes, Cat
    <2>5. Bytes(kind, 2)
      BY <1>2, OutTwo DEF Bytes
    <2> HIDE DEF head, kind, m
    <2>6. Bytes(rec, 3 + m) /\ 3 + m \in Nat /\ 3 + m >= 2
      BY <2>2, <2>4, CatEnd
    <2>7. At(rec, 0, kind)
      BY <2>2, <2>4, <2>5, CatStays
    <2>8. Short(rec) = REC_MATCH
      BY <1>3, <2>2, <2>6, <2>7, AnswerKind DEF kind
    <2>9. Payload(rec) /\ rec # None
      <3>1. rec \in Seq(Octet) /\ Len(rec) = 3 + m
        BY <2>6 DEF Bytes
      <3>2. Len(rec) + Around \in Short16
        BY <2>3, <3>1 DEF m
      <3>3. 3 + m > 0
        BY <2>6
      <3> QED
        BY <1>6, <2>6, <3>1, <3>2, <3>3 DEF Payload
    <2>10. Answers[r[1]] = REC_MATCH /\ REC_MATCH # REC_LOGIN
      BY <1>2, <1>9, AnswerKinds
    <2> QED
      BY <2>8, <2>9, <2>10 DEF RightAnswer, rec
  <1>10. CASE r[1] = REGISTER
    <2>1. rec = Headed(REC_REGISTER, rec_inx)
      BY <1>1, <1>2, <1>5, <1>10
    <2>2. Bytes(rec, 3) /\ At(rec, 0, OUT16_LE(REC_REGISTER)) /\ REC_REGISTER \in Short16
      BY <1>3, <1>4, <2>1, AnswerHead
    <2>3. Short(rec) = REC_REGISTER
      BY <1>3, <2>2, AnswerKind
    <2>4. Payload(rec) /\ rec # None
      BY <1>6, <2>2, ShortEnough DEF USER_DATA_SIZE
    <2>5. Answers[r[1]] = REC_REGISTER /\ REC_REGISTER # REC_LOGIN
      BY <1>2, <1>10, AnswerKinds
    <2> QED
      BY <2>3, <2>4, <2>5 DEF RightAnswer, rec
  <1> QED
    BY <1>1, <1>7, <1>8, <1>9, <1>10

\* Such an answer, made a frame and parsed as a client does, is what it was.
LEMMA AnswerParsed ==
    ASSUME NEW p, Payload(p)
    PROVE  Parse(pkt_make_client(p)) = {Result("ok", p)}
  <1> DEFINE f == pkt_make_client(p)
  <1>1. f \in Seq(Cell) /\ Len(f) = FrameLen(p)
    BY MadeFrame
  <1>2. FrameLen(p) \in Nat
    BY PackFacts
  <1>3. FrameAt(f, 1, p)
    <2>1. 1 - 1 + FrameLen(p) <= Len(f) /\ \A j \in 1..FrameLen(p) : 1 - 1 + j = j
      BY <1>1, <1>2
    <2> HIDE DEF f
    <2>2. \A j \in 1..FrameLen(p) : f[1 - 1 + j] = pkt_make_client(p)[j]
      BY <2>1 DEF f
    <2> QED
      BY <2>1, <2>2 DEF FrameAt
  <1>3a. f[1] = StartTag /\ Len(f) >= 1
    <2>1. IsFrame(f, p)
      BY MadeFrame
    <2>1a. FrameLen(p) = Len(p) + 6 /\ Len(p) \in Nat
      BY PackFacts
    <2> HIDE DEF f
    <2> QED
      BY <1>1, <2>1, <2>1a DEF IsFrame
  <1> HIDE DEF f
  <1>3b. pkt_match_head(f) = 1
    BY <1>1, <1>3a, HeadFirst
  <1>4. Parse(f) = {Result("ok", p)}
    BY <1>1, <1>3, <1>3b, FrameParsed
  <1> QED
    BY <1>4 DEF f

-----------------------------------------------------------------------------
(* What is on the wire.                                                    *)

Requested == [payload : Request, from : Nat]

\* All that has not been taken of q's frame is on the wire w, whose first byte stands at
\* that place in the stream; and so is the whole frame if none of it has been taken.
OnWire(w, at, q) ==
    /\ q.from + FrameLen(q.payload) <= at + Len(w)
    /\ q.from >= at => At(w, q.from - at, pkt_make_client(q.payload))

ChunkOK(chunk, at) ==
    /\ chunk.from \in Nat /\ chunk.len \in Nat /\ chunk.len > 0
    /\ End(chunk) <= at

FrameInv ==
    /\ requests \in Seq(Requested)
    /\ wire \in Seq(Cell)
    /\ took \in Seq({took[i] : i \in 1..Len(took)})
    /\ \A i \in 1..Len(took) : ChunkOK(took[i], Position)
    /\ \A k \in 1..Len(requests) : OnWire(wire, Position, requests[k])
    /\ WholeFramesAnswered

LEMMA QueryFacts ==
    ASSUME NEW q \in Requested
    PROVE  /\ q.from \in Nat /\ Payload(q.payload) /\ q.payload \in Request
           /\ FrameLen(q.payload) \in Nat /\ FrameLen(q.payload) > 0
           /\ pkt_make_client(q.payload) \in Seq(Cell)
           /\ Len(pkt_make_client(q.payload)) = FrameLen(q.payload)
  <1>1. q.from \in Nat /\ q.payload \in Request
    BY DEF Requested
  <1> DEFINE p == q.payload
  <1>2. p \in Request
    BY <1>1
  <1> HIDE DEF p
  <1>3. Payload(p)
    BY <1>2, RequestFacts
  <1>4. FrameLen(p) \in Nat /\ FrameLen(p) = Len(p) + 6 /\ Len(p) \in Nat
    BY <1>3, PackFacts
  <1>5. pkt_make_client(p) \in Seq(Cell) /\ Len(pkt_make_client(p)) = FrameLen(p)
    BY <1>3, MadeFrame
  <1> QED
    BY <1>1, <1>3, <1>4, <1>5 DEF p

LEMMA PositionFacts ==
    ASSUME took \in Seq({took[i] : i \in 1..Len(took)}),
           \A i \in 1..Len(took) : ChunkOK(took[i], Position)
    PROVE  Position \in Nat
  <1>1. CASE took = None
    BY <1>1 DEF Position
  <1>2. CASE took # None
    <2>1. Len(took) \in 1..Len(took)
      <3> DEFINE X == {took[i] : i \in 1..Len(took)}
      <3>1. took \in Seq(X)
        OBVIOUS
      <3> HIDE DEF X
      <3>2. Len(took) \in Nat /\ Len(took) # 0
        BY <1>2, <3>1 DEF None
      <3> QED
        BY <3>2
    <2>2. ChunkOK(took[Len(took)], Position)
      BY <2>1
    <2> QED
      BY <1>2, <2>2 DEF Position, ChunkOK, End
  <1> QED
    BY <1>1, <1>2

\* More bytes behind it do not move a frame.
LEMMA WireGrows ==
    ASSUME NEW w \in Seq(Cell), NEW x \in Seq(Cell), NEW at \in Nat, NEW q \in Requested,
           OnWire(w, at, q)
    PROVE  OnWire(w \o x, at, q)
  <1> DEFINE z == w \o x
             F == pkt_make_client(q.payload)
             L == FrameLen(q.payload)
  <1>1. q.from \in Nat /\ L \in Nat /\ Len(F) = L
    BY QueryFacts
  <1>2. Joins(z, w, x)
    BY Joined
  <1>3. q.from + L <= at + Len(w) /\ (q.from >= at => At(w, q.from - at, F))
    BY DEF OnWire
  <1> HIDE DEF z, F, L
  <1>4. Len(z) = Len(w) + Len(x) /\ Len(w) \in Nat /\ Len(x) \in Nat
    BY <1>2 DEF Joins
  <1>5. ASSUME q.from >= at, NEW j \in 1..Len(F) PROVE z[q.from - at + j] = F[j]
    <2>1. q.from - at + j \in 1..Len(w)
      BY SMTT(20), <1>1, <1>3, <1>4, <1>5
    <2>2. w[q.from - at + j] = F[j]
      BY <1>3, <1>5 DEF At
    <2> QED
      BY <1>2, <2>1, <2>2 DEF Joins
  <1>6. q.from + L <= at + Len(z)
    BY <1>1, <1>3, <1>4
  <1> QED
    BY <1>5, <1>6 DEF OnWire, At, z, F, L

\* What has just been sent lies behind what is on its way.
LEMMA WireNew ==
    ASSUME NEW w \in Seq(Cell), NEW at \in Nat, NEW r \in Request
    PROVE  OnWire(w \o pkt_make_client(r), at, [payload |-> r, from |-> at + Len(w)])
  <1> DEFINE F == pkt_make_client(r)
             L == FrameLen(r)
             z == w \o F
             q == [payload |-> r, from |-> at + Len(w)]
  <1>1. Payload(r)
    BY RequestFacts
  <1>2. F \in Seq(Cell) /\ Len(F) = L
    BY <1>1, MadeFrame
  <1> HIDE DEF F, L
  <1>3. Joins(z, w, F)
    BY <1>2, Joined
  <1> HIDE DEF z
  <1>4. Len(w) \in Nat /\ Len(F) \in Nat /\ Len(z) = Len(w) + L
    BY <1>2, <1>3 DEF Joins
  <1>5. q.from = at + Len(w) /\ q.payload = r
    OBVIOUS
  <1>6. q.from + L <= at + Len(z) /\ q.from - at = Len(w)
    BY <1>2, <1>4, <1>5
  <1>7. At(z, Len(w), F)
    BY <1>3 DEF At, Joins
  <1> HIDE DEF q
  <1>8. OnWire(z, at, q)
    BY <1>5, <1>6, <1>7 DEF OnWire, F, L
  <1> QED
    BY <1>8 DEF z, q, F

\* The bytes that are left when n have been taken.
LEMMA WireTaken ==
    ASSUME NEW w \in Seq(Cell), NEW n \in 1..Len(w)
    PROVE  /\ SubSeq(w, 1, n) \in Seq(Cell) /\ Len(SubSeq(w, 1, n)) = n
           /\ \A i \in 1..n : SubSeq(w, 1, n)[i] = w[i]
           /\ SubSeq(w, n + 1, Len(w)) \in Seq(Cell)
           /\ Len(SubSeq(w, n + 1, Len(w))) = Len(w) - n
           /\ \A i \in 1..Len(w) - n : SubSeq(w, n + 1, Len(w))[i] = w[n + i]
  <1>1. Len(w) \in Nat /\ n \in Nat /\ n >= 1 /\ n <= Len(w)
    OBVIOUS
  <1>2. /\ SubSeq(w, 1, n) \in Seq(Cell) /\ Len(SubSeq(w, 1, n)) = n
        /\ \A i \in 1..n : SubSeq(w, 1, n)[i] = w[i]
    <2>1. \A i \in 1..n : w[i] \in Cell
      BY <1>1
    <2> QED
      BY <1>1, <2>1, SubSeqProperties
  <1> DEFINE l == Len(w)
             m == n + 1
             y == SubSeq(w, m, l)
  <1>3. \A i \in m..l : w[i] \in Cell
    BY <1>1
  <1>4. m \in Int /\ l \in Int /\ l - m + 1 = l - n /\ \A i \in Int : m + i - 1 = n + i
    BY <1>1
  <1>5. (m <= l => l - m + 1 = l - n) /\ (~(m <= l) => l - n = 0)
    BY <1>1
  <1> HIDE DEF m, l
  <1>6. /\ y \in Seq(Cell) /\ Len(y) = IF m <= l THEN l - m + 1 ELSE 0
        /\ \A i \in 1..l - m + 1 : y[i] = w[m + i - 1]
    BY <1>3, <1>4, SubSeqProperties
  <1> HIDE DEF y
  <1>7. y \in Seq(Cell) /\ Len(y) = l - n /\ \A i \in 1..l - n : y[i] = w[n + i]
    <2>1. Len(y) = l - n
      BY <1>4, <1>5, <1>6
    <2>2. ASSUME NEW i \in 1..l - n PROVE y[i] = w[n + i]
      <3>1. i \in 1..l - m + 1 /\ m + i - 1 = n + i
        BY <1>4
      <3> QED
        BY <1>6, <3>1
    <2> QED
      BY <1>6, <2>1, <2>2
  <1> QED
    BY <1>2, <1>7 DEF y, m, l

LEMMA WireShrinks ==
    ASSUME NEW w \in Seq(Cell), NEW n \in 1..Len(w), NEW at \in Nat, NEW q \in Requested,
           OnWire(w, at, q)
    PROVE  OnWire(SubSeq(w, n + 1, Len(w)), at + n, q)
  <1> DEFINE y == SubSeq(w, n + 1, Len(w))
             F == pkt_make_client(q.payload)
             L == FrameLen(q.payload)
  <1>1. q.from \in Nat /\ L \in Nat /\ Len(F) = L
    BY QueryFacts
  <1>2. q.from + L <= at + Len(w) /\ (q.from >= at => At(w, q.from - at, F))
    BY DEF OnWire
  <1>3. Len(y) = Len(w) - n /\ \A i \in 1..Len(w) - n : y[i] = w[n + i]
    BY WireTaken
  <1>4. Len(w) \in Nat /\ n \in Nat
    OBVIOUS
  <1> HIDE DEF y, F, L
  <1>5. ASSUME q.from >= at + n, NEW j \in 1..Len(F) PROVE y[q.from - (at + n) + j] = F[j]
    <2>1. /\ q.from - (at + n) + j \in 1..Len(w) - n
          /\ n + (q.from - (at + n) + j) = q.from - at + j
          /\ q.from >= at
      BY SMTT(20), <1>1, <1>2, <1>4, <1>5
    <2>2. w[q.from - at + j] = F[j]
      BY <1>2, <2>1 DEF At
    <2> QED
      BY <1>3, <2>1, <2>2
  <1>6. q.from + L <= at + n + Len(y)
    BY <1>1, <1>2, <1>3, <1>4
  <1> QED
    BY <1>5, <1>6 DEF OnWire, At, y, F, L

\* A chunk that holds the first byte of a frame and cuts nothing off reaches to its end.
LEMMA NothingCutOff ==
    ASSUME NEW q \in Requested, NEW chunk, NEW at \in Nat, chunk.from = at, NEW n \in Nat,
           chunk.len = n, q.from < at + n, CutOff(q, chunk) = None
    PROVE  q.from + FrameLen(q.payload) <= at + n
  <1> DEFINE F == pkt_make_client(q.payload)
             L == FrameLen(q.payload)
             m == at + n - q.from + 1
             s == SubSeq(F, m, L)
  <1>1. L \in Nat /\ F \in Seq(Cell) /\ Len(F) = L /\ q.from \in Nat
    BY QueryFacts
  <1>2. End(chunk) - q.from + 1 = m
    BY <1>1 DEF End
  <1>3. CutOff(q, chunk) = s
    BY <1>2 DEF CutOff, FrameLen
  <1>4. m \in Int /\ \A i \in m..L : i \in 1..L
    BY <1>1
  <1> HIDE DEF F, L
  <1>5. SUFFICES ASSUME m <= L PROVE FALSE
    BY <1>1 DEF L
  <1> HIDE DEF m
  <1>6. \A i \in m..L : F[i] \in Cell
    BY <1>1, <1>4
  <1>7. Len(s) = IF m <= L THEN L - m + 1 ELSE 0
    BY <1>1, <1>4, <1>6, SubSeqProperties
  <1> HIDE DEF s
  <1>8. Len(s) > 0 /\ Len(None) = 0
    BY <1>1, <1>4, <1>5, <1>7 DEF None
  <1> QED
    BY <1>3, <1>8

-----------------------------------------------------------------------------
(* The steps.                                                              *)

\* What read_cb sends for what it has parsed.
Reply(frame, good, user) ==
    LET rec == do_work(frame.payload, good, user)
    IN  IF frame.how = "ok" THEN (IF rec = None THEN None ELSE pkt_make_client(rec)) ELSE None

\* The new chunk answers the frame that is first and is whole in it: it is all there, so
\* it is parsed, so do_work is called with the request, and its answer parses too.
LEMMA ChunkAnswered ==
    ASSUME NEW w \in Seq(Cell), NEW n \in 1..Len(w), NEW at \in Nat, NEW q \in Requested,
           OnWire(w, at, q), NEW frame \in Parse(SubSeq(w, 1, n)),
           NEW good \in BOOLEAN, NEW row \in Account, NEW user \in NewUser(row),
           NEW chunk, chunk.from = at, chunk.len = n, chunk.got = frame.payload,
           chunk.head = pkt_match_head(SubSeq(w, 1, n)),
           chunk.answer = Reply(frame, good, user)
    PROVE  WholeFrameAnswered(chunk, q)
  <1> DEFINE c == SubSeq(w, 1, n)
             p == q.payload
             rec == do_work(p, good, user)
             h == q.from - at + 1
  <1>1. SUFFICES ASSUME at <= q.from, q.from < End(chunk), chunk.head = h,
                        CutOff(q, chunk) = None
                 PROVE  /\ chunk.got = p
                        /\ \E a \in Parse(chunk.answer) :
                              /\ a.how = "ok"
                              /\ Short(a.payload) = Answers[p[1]]
                              /\ Short(a.payload) = REC_LOGIN => LoginTrue(a.payload)
    BY DEF WholeFrameAnswered, FoundFirst
  <1>2. q.from \in Nat /\ Payload(p) /\ p \in Request /\ FrameLen(p) \in Nat
        /\ Len(pkt_make_client(p)) = FrameLen(p)
    BY QueryFacts
  <1>3. q.from < at + n /\ q.from + FrameLen(p) <= at + n /\ n \in Nat
    <2>1. q.from < at + n /\ n \in Nat
      BY <1>1, <1>2 DEF End
    <2> QED
      BY <1>1, <2>1, NothingCutOff
  <1>4. c \in Seq(Cell) /\ Len(c) = n /\ \A i \in 1..n : c[i] = w[i]
    BY WireTaken
  <1>5. At(w, q.from - at, pkt_make_client(p))
    BY <1>1, <1>2 DEF OnWire
  <1>5a. Parse(c) = Parse(SubSeq(w, 1, n)) /\ p = q.payload /\ chunk.head = pkt_match_head(c)
    OBVIOUS
  <1>5b. h \in Nat /\ h >= 1 /\ h - 1 = q.from - at /\ h - 1 + FrameLen(p) <= n
    BY <1>1, <1>2, <1>3
  <1> HIDE DEF c, p, rec, h
  <1>6. FrameAt(c, h, p)
    <2>1. ASSUME NEW j \in 1..FrameLen(p) PROVE c[h - 1 + j] = pkt_make_client(p)[j]
      <3>1. h - 1 + j \in 1..n
        BY <1>2, <1>3, <1>5b
      <3>2. w[q.from - at + j] = pkt_make_client(p)[j]
        BY <1>2, <1>5 DEF At
      <3> QED
        BY <1>4, <1>5b, <3>1, <3>2
    <2> QED
      BY <1>4, <1>5b, <2>1 DEF FrameAt
  <1>6a. pkt_match_head(c) = h
    BY <1>1, <1>5a
  <1>7. frame = Result("ok", p)
    BY <1>2, <1>4, <1>5a, <1>5b, <1>6, <1>6a, FrameParsed
  <1>8. frame.how = "ok" /\ frame.payload = p
    BY <1>7 DEF Result
  <1>9. RightAnswer(rec, p[1])
    BY <1>2, AnswerTrue DEF rec
  <1>10. chunk.answer = pkt_make_client(rec)
    <2>1. rec # None
      BY <1>9 DEF RightAnswer
    <2> QED
      BY <1>8, <2>1 DEF Reply, rec
  <1>11. Parse(chunk.answer) = {Result("ok", rec)}
    BY <1>9, <1>10, AnswerParsed DEF RightAnswer
  <1> DEFINE a == Result("ok", rec)
  <1>12. a \in Parse(chunk.answer) /\ a.how = "ok" /\ a.payload = rec
    BY <1>11 DEF Result
  <1> HIDE DEF a
  <1> QED
    BY <1>8, <1>9, <1>12 DEF RightAnswer

LEMMA InitFrameInv == FrameInit => FrameInv
  <1> SUFFICES ASSUME FrameInit PROVE FrameInv
    OBVIOUS
  <1>1. requests = << >> /\ wire = << >> /\ took = << >>
    BY DEF FrameInit
  <1>2. Len(took) = 0 /\ Len(requests) = 0 /\ 1..0 = {}
    BY <1>1
  <1>3. requests \in Seq(Requested) /\ wire \in Seq(Cell)
        /\ took \in Seq({took[i] : i \in 1..Len(took)})
    BY <1>1
  <1> QED
    BY <1>2, <1>3 DEF FrameInv, WholeFramesAnswered

\* An appended sequence is one of what is in it.
Grown(u, t, e) ==
    /\ u \in Seq({u[i] : i \in 1..Len(u)})
    /\ Len(t) \in Nat /\ Len(u) = Len(t) + 1 /\ u[Len(u)] = e /\ u # << >>
    /\ \A i \in 1..Len(t) : u[i] = t[i]

LEMMA Appended ==
    ASSUME NEW t, t \in Seq({t[i] : i \in 1..Len(t)}), NEW e
    PROVE  Grown(Append(t, e), t, e)
  <1> DEFINE u == Append(t, e)
             X == {t[i] : i \in 1..Len(t)}
             Y == X \cup {e}
             Z == {u[i] : i \in 1..Len(u)}
  <1>1. t \in Seq(Y)
    <2>1. t \in Seq(X) /\ X \subseteq Y
      OBVIOUS
    <2> HIDE DEF X, Y
    <2>2. \A i \in 1..Len(t) : t[i] \in Y
      BY <2>1
    <2> QED
      BY <2>1, <2>2
  <1>2. e \in Y
    OBVIOUS
  <1> HIDE DEF Y
  <1>3. /\ u \in Seq(Y) /\ Len(t) \in Nat /\ Len(u) = Len(t) + 1 /\ u[Len(u)] = e
        /\ \A i \in 1..Len(t) : u[i] = t[i]
    BY <1>1, <1>2, AppendProperties
  <1> HIDE DEF u
  <1>4. \A i \in 1..Len(u) : u[i] \in Z
    OBVIOUS
  <1> HIDE DEF Z
  <1>5. u \in Seq(Z)
    BY <1>3, <1>4
  <1>6. u # << >>
    BY <1>3
  <1> QED
    BY <1>3, <1>5, <1>6 DEF u, Z, Grown

LEMMA AskStep ==
    ASSUME FrameInv, NEW r \in Request, Ask(r)
    PROVE  FrameInv'
  <1> DEFINE F == pkt_make_client(r)
             at == Position
             q == [payload |-> r, from |-> at + Len(wire)]
  <1>1. /\ requests \in Seq(Requested) /\ wire \in Seq(Cell)
        /\ took \in Seq({took[i] : i \in 1..Len(took)})
        /\ \A i \in 1..Len(took) : ChunkOK(took[i], at)
        /\ \A k \in 1..Len(requests) : OnWire(wire, at, requests[k])
        /\ \A i \in 1..Len(took), k \in 1..Len(requests) : WholeFrameAnswered(took[i], requests[k])
    BY DEF FrameInv, WholeFramesAnswered
  <1>2. requests' = Append(requests, q) /\ wire' = wire \o F /\ took' = took
    BY DEF Ask
  <1>3. at \in Nat /\ at' = at
    <2>1. at \in Nat
      BY <1>1, PositionFacts
    <2> QED
      BY <1>2, <2>1 DEF Position
  <1>4. F \in Seq(Cell)
    BY RequestFacts, MadeFrame
  <1>5. OnWire(wire \o F, at, q)
    BY <1>1, <1>3, WireNew
  <1>6. Len(wire) \in Nat /\ wire \o F \in Seq(Cell)
    BY <1>1, <1>4
  <1>7. q \in Requested /\ q.from = at + Len(wire)
    BY <1>3, <1>6 DEF Requested
  <1> HIDE DEF F, at, q
  <1>8. /\ requests' \in Seq(Requested) /\ Len(requests') = Len(requests) + 1 /\ Len(requests) \in Nat
        /\ requests'[Len(requests) + 1] = q
        /\ \A k \in 1..Len(requests) : requests'[k] = requests[k] /\ requests[k] \in Requested
    BY <1>1, <1>2, <1>7
  <1>9. ASSUME NEW k \in 1..Len(requests') PROVE k \in 1..Len(requests) \/ requests'[k] = q
    BY <1>8
  <1>10. ASSUME NEW k \in 1..Len(requests') PROVE OnWire(wire', at', requests'[k])
    <2>1. CASE k \in 1..Len(requests)
      <3> DEFINE o == requests[k]
      <3>1. o \in Requested /\ OnWire(wire, at, o) /\ requests'[k] = o
        BY <1>1, <1>8, <2>1
      <3> HIDE DEF o
      <3>2. OnWire(wire \o F, at, o)
        BY <1>1, <1>3, <1>4, <3>1, WireGrows
      <3> QED
        BY <1>2, <1>3, <3>1, <3>2
    <2>2. CASE requests'[k] = q
      BY <1>2, <1>3, <1>5, <2>2
    <2> QED
      BY <1>9, <2>1, <2>2
  <1>11. ASSUME NEW i \in 1..Len(took'), NEW k \in 1..Len(requests')
         PROVE  WholeFrameAnswered(took'[i], requests'[k])
    <2>1. CASE k \in 1..Len(requests)
      BY <1>1, <1>2, <1>8, <2>1
    <2>2. CASE requests'[k] = q
      <3> DEFINE chunk == took[i]
      <3>1. ChunkOK(chunk, at) /\ took'[i] = chunk
        BY <1>1, <1>2
      <3> HIDE DEF chunk
      <3>2. ~(q.from < End(chunk))
        BY <1>3, <1>6, <1>7, <3>1 DEF ChunkOK, End
      <3> QED
        BY <2>2, <3>1, <3>2 DEF WholeFrameAnswered, FoundFirst
    <2> QED
      BY <1>9, <2>1, <2>2
  <1>12. took' \in Seq({took'[i] : i \in 1..Len(took')}) /\ wire' \in Seq(Cell)
         /\ \A i \in 1..Len(took') : ChunkOK(took'[i], at')
    BY <1>1, <1>2, <1>3, <1>6
  <1> QED
    BY <1>8, <1>10, <1>11, <1>12 DEF FrameInv, WholeFramesAnswered, at

LEMMA ReadStep ==
    ASSUME FrameInv, NEW n \in 1..Len(wire), NEW good \in BOOLEAN, NEW row \in Account,
           read_cb(n, good, row)
    PROVE  FrameInv'
  <1> DEFINE c == SubSeq(wire, 1, n)
             at == Position
             left == SubSeq(wire, n + 1, Len(wire))
  <1>1. /\ requests \in Seq(Requested) /\ wire \in Seq(Cell)
        /\ took \in Seq({took[i] : i \in 1..Len(took)})
        /\ \A i \in 1..Len(took) : ChunkOK(took[i], at)
        /\ \A k \in 1..Len(requests) : OnWire(wire, at, requests[k])
        /\ \A i \in 1..Len(took), k \in 1..Len(requests) : WholeFrameAnswered(took[i], requests[k])
    BY DEF FrameInv, WholeFramesAnswered
  <1>2. PICK frame \in Parse(c), user \in NewUser(row) :
           took' = Append(took, [from |-> at, len |-> n, head |-> pkt_match_head(c),
                                 got |-> frame.payload, answer |-> Reply(frame, good, user)])
    BY DEF read_cb, Reply
  <1>3. wire' = left /\ requests' = requests
    BY DEF read_cb
  <1> DEFINE chunk == [from |-> at, len |-> n, head |-> pkt_match_head(c),
                       got |-> frame.payload, answer |-> Reply(frame, good, user)]
  <1>4. /\ chunk.from = at /\ chunk.len = n /\ chunk.got = frame.payload
        /\ chunk.answer = Reply(frame, good, user)
        /\ chunk.head = pkt_match_head(SubSeq(wire, 1, n))
    OBVIOUS
  <1>5. took' = Append(took, chunk)
    BY <1>2
  <1>6. at \in Nat
    BY <1>1, PositionFacts
  <1>7. left \in Seq(Cell) /\ Len(wire) \in Nat /\ n \in Nat /\ n > 0
    BY <1>1, WireTaken
  <1> HIDE DEF chunk
  <1>8. /\ took' \in Seq({took'[i] : i \in 1..Len(took')})
        /\ Len(took) \in Nat /\ Len(took') = Len(took) + 1 /\ took'[Len(took')] = chunk
        /\ took' # << >> /\ \A i \in 1..Len(took) : took'[i] = took[i]
    <2>1. Grown(Append(took, chunk), took, chunk)
      BY <1>1, Appended
    <2>2. Grown(took', took, chunk)
      BY <1>5, <2>1
    <2> QED
      BY <2>2 DEF Grown
  <1>9. at' = at + n
    BY <1>4, <1>8 DEF Position, End, None
  <1> HIDE DEF at, left
  <1>10. ASSUME NEW i \in 1..Len(took') PROVE i \in 1..Len(took) \/ took'[i] = chunk
    BY <1>8
  <1>11. ASSUME NEW i \in 1..Len(took') PROVE ChunkOK(took'[i], at')
    <2>1. CASE i \in 1..Len(took)
      <3> DEFINE o == took[i]
      <3>1. ChunkOK(o, at) /\ took'[i] = o
        BY <1>1, <1>8, <2>1
      <3> HIDE DEF o
      <3> QED
        BY <1>6, <1>7, <1>9, <3>1 DEF ChunkOK, End
    <2>2. CASE took'[i] = chunk
      BY <1>4, <1>6, <1>7, <1>9, <2>2 DEF ChunkOK, End
    <2> QED
      BY <1>10, <2>1, <2>2
  <1>12. ASSUME NEW k \in 1..Len(requests')
         PROVE  OnWire(wire', at', requests'[k]) /\ WholeFrameAnswered(chunk, requests'[k])
    <2> DEFINE q == requests[k]
    <2>1. q \in Requested /\ OnWire(wire, at, q) /\ requests'[k] = q
      BY <1>1, <1>3
    <2> HIDE DEF q
    <2>2. OnWire(left, at + n, q)
      BY <1>1, <1>6, <2>1, WireShrinks DEF left
    <2>3. WholeFrameAnswered(chunk, q)
      BY <1>1, <1>2, <1>4, <1>6, <2>1, ChunkAnswered
    <2> QED
      BY <1>3, <1>9, <2>1, <2>2, <2>3
  <1>13. ASSUME NEW i \in 1..Len(took'), NEW k \in 1..Len(requests')
         PROVE  WholeFrameAnswered(took'[i], requests'[k])
    BY <1>1, <1>3, <1>8, <1>10, <1>12
  <1> QED
    BY <1>1, <1>3, <1>7, <1>8, <1>11, <1>12, <1>13 DEF FrameInv, WholeFramesAnswered, at

LEMMA NextFrameInv == FrameInv /\ [FrameNext]_frameVars => FrameInv'
  <1> SUFFICES ASSUME FrameInv, [FrameNext]_frameVars PROVE FrameInv'
    OBVIOUS
  <1>1. ASSUME NEW r \in Request, Ask(r) PROVE FrameInv'
    BY <1>1, AskStep
  <1>2. ASSUME NEW n \in 1..Len(wire), NEW good \in BOOLEAN, NEW row \in Account,
               read_cb(n, good, row)
        PROVE  FrameInv'
    BY <1>2, ReadStep
  <1>3. CASE UNCHANGED frameVars
    BY <1>3 DEF FrameInv, frameVars, WholeFramesAnswered, Position
  <1> QED
    BY <1>1, <1>2, <1>3 DEF FrameNext

\* However the stream is cut and joined, whatever the check sum is, for all requests of the
\* three kinds, all rows and all that a User's memory may hold: a request whose frame
\* is found first in a chunk and is whole in it is handled by do_work (read_cb,
\* YS.cpp:125), and what is sent back parses to an answer of its kind with the numbers of
\* one user in it.
THEOREM FramesAreAnswered == FrameSpec => []WholeFramesAnswered
  <1>1. FrameInv => WholeFramesAnswered
    BY DEF FrameInv
  <1> QED
    BY <1>1, InitFrameInv, NextFrameInv, PTL DEF FrameSpec
=============================================================================
