------------------------------ MODULE Framing -------------------------------
(* Frames and requests: Server/Ypkt.cpp, read_cb (Server/YS.cpp) and do_work *)
(* (Server/Yprocess.cpp) for one client of a worker.                         *)
(*                                                                           *)
(* The connection is a stream: what a client has sent in two frames may come *)
(* in one chunk, and one frame in two.  read_cb takes what there is.         *)
EXTENDS Integers, Sequences, SequencesExt

CONSTANTS
    ByteMod,        \* a byte is a number below it: 256
    ExOr(_, _),     \* exclusive or, of the bits of two bytes
    StartTag, FrameType, EndTag,     \* PKT_YS_START_TAG, ..FRAME_TYPE, ..END_TAG
    Pad,            \* zero bytes behind a chunk: xmalloc clears and pads
    Beyond(_),      \* what so many bytes of memory further on may hold
    Request,        \* the payloads that clients send
    Account,        \* the rows of the user table: the numbers of a User
    Leftover,       \* what a new User's memory may hold
    U_ID_INIT,
    Address,        \* port and address of the game server
    Inx,            \* this worker's number
    MaxRequests, MaxChunks

VARIABLES
    requests,       \* the requests that the client has sent, and where in the stream
                    \* their frames begin (history)
    wire,           \* bytes on their way, read_cb has not seen them
    took,           \* the chunks that read_cb took, where in the stream they began,
                    \* which byte is their first start tag, and what it did (history)
    halt            \* "no", "assert" (the process aborts) or "wild" (undefined)

frameVars == << requests, wire, took, halt >>

PKT_YS_HEADLEN == 5
PKT_YS_ENDLEN == 1
Around == PKT_YS_HEADLEN + PKT_YS_ENDLEN
None == << >>

pkt_build_check_sum(bytes) == FoldLeft(ExOr, 0, bytes)

OUT16_BE(v) == << (v \div ByteMod) % ByteMod, v % ByteMod >>
Short(bytes) == bytes[1] + bytes[2] * ByteMod
OUT16_LE(v) == << v % ByteMod, (v \div ByteMod) % ByteMod >>
OUT32_LE(v) == OUT16_LE(v) \o OUT16_LE(v \div (ByteMod * ByteMod))
IN16_LE(bytes, k) == Short(SubSeq(bytes, k, k + 1))
IN32_LE(bytes, k) == IN16_LE(bytes, k) + IN16_LE(bytes, k + 2) * ByteMod * ByteMod

\* A slip that the code does not make: a length without the six bytes around
\* the payload.
FaultShortLength(buf) ==
    LET pack == << StartTag, 0, FrameType >> \o OUT16_BE(Len(buf))
                    \o buf \o << EndTag >>
    IN [pack EXCEPT ![2] = pkt_build_check_sum(pack)]

\* The sum is taken while its own byte is zero, and put there then.
pkt_make_client(buf) ==
    LET pack == << StartTag, 0, FrameType >> \o OUT16_BE(Len(buf) + Around)
                    \o buf \o << EndTag >>
    IN [pack EXCEPT ![2] = pkt_build_check_sum(pack)]

-----------------------------------------------------------------------------

\* What a chunk is taken for.  The bytes behind it are zero as far as they are
\* allocated; what the sum is taken of further on may be anything: it is wrong
\* ("refused"), or right by chance, and what is there is handled, or the program
\* is lost ("wild").  A length below the six bytes around a payload leaves
\* xchain_add nothing to add.
pkt_match_head(buf) == SelectInSeq(buf, LAMBDA b : b = StartTag)

Result(how, payload) == [how |-> how, payload |-> payload]
Refused == Result("refused", None)

\* A slip that the code does not make: the sum is not looked at.
FaultNoSum(buf) ==
    LET head == pkt_match_head(buf)
        mem == buf \o [k \in 1..Pad |-> 0]
        v == mem[head + 3] * ByteMod + mem[head + 4]
    IN  IF head = 0 \/ head + v - 1 > Len(mem) \/ v < Around THEN {Refused}
        ELSE {Result("ok", SubSeq(mem, head + PKT_YS_HEADLEN, head + v - 2))}

\* The memory from the payload's first byte on, up to the end tag's place.
Unknown(mem, head, last) ==
    {Result("ok", SubSeq(mem, head + PKT_YS_HEADLEN, Len(mem)) \o rest) :
        rest \in Beyond(last - PKT_YS_ENDLEN - Len(mem))}

Parse(buf) ==
    LET head == pkt_match_head(buf)
        mem == buf \o [k \in 1..Pad |-> 0]
        xor_cc == mem[head + 1]
        v == mem[head + 3] * ByteMod + mem[head + 4]
        last == head + v - 1
        sum == pkt_build_check_sum(SubSeq([mem EXCEPT ![head + 1] = 0], head, last))
    IN  IF head = 0 THEN {Refused}
        ELSE IF mem[head + 2] # FrameType THEN {Result("assert", None)}
        ELSE IF last > Len(mem)
             THEN {Refused, Result("wild", None)} \cup Unknown(mem, head, last)
        ELSE IF sum # xor_cc \/ v < Around THEN {Refused}
        ELSE {Result("ok", SubSeq(mem, head + PKT_YS_HEADLEN, last - PKT_YS_ENDLEN))}

-----------------------------------------------------------------------------

\* The constructor leaves the User as its memory was if the row's id is too low.
\* todata writes the numbers of one that has an id and a status, 25 bytes.
ON_LINE == 1
USER_DATA_SIZE == 25
NewUser(row) == IF row.id < U_ID_INIT THEN Leftover ELSE {[row EXCEPT !.status = ON_LINE]}

todata(user) ==
    IF user.id < U_ID_INIT \/ user.status = 0 THEN None
    ELSE OUT32_LE(user.id) \o << user.status >>
            \o OUT32_LE(user.money_z) \o OUT32_LE(user.money_d)
            \o OUT32_LE(user.solo_w) \o OUT32_LE(user.solo_f)
            \o OUT16_LE(user.solo_s) \o OUT16_LE(user.lv)

\* What do_work puts into the answer.  The outcome of a request is a choice:
\* login, ready_start and rigister are modelled in Match and Cursor.
LOGIN == 1
MATCH == 2
REC_LOGIN == 3
REGISTER == 4
REC_REGISTER == 5
REC_MATCH == 6

do_work(payload, good, user) ==
    LET type == Short(payload \o << 0, 0 >>)   \* it is 0 before xchain_get
        u_buf == IF good THEN todata(user) ELSE None
        rec_inx == IF good THEN Inx + 1 ELSE 0
    IN  CASE type = LOGIN ->
                IF u_buf = None THEN OUT16_LE(REC_LOGIN) \o << 0 >>
                ELSE OUT16_LE(REC_LOGIN) \o << rec_inx >> \o SubSeq(u_buf, 1, USER_DATA_SIZE)
          [] type = MATCH ->
                OUT16_LE(REC_MATCH) \o << IF good THEN 1 ELSE 0 >>
                    \o (IF good THEN Address ELSE None)
          [] type = REGISTER -> OUT16_LE(REC_REGISTER) \o << rec_inx >>
          [] OTHER -> None

-----------------------------------------------------------------------------

\* The client's requests are of the three kinds, the lengths of frames fit two bytes, and
\* the numbers of a User are unsigned, of 32 and of 16 bits.
Octet == 0..ByteMod - 1
Short16 == 0..ByteMod * ByteMod - 1
Long32 == 0..ByteMod * ByteMod * ByteMod * ByteMod - 1

ASSUME FrameAssumption ==
    /\ ByteMod \in Nat /\ ByteMod > REC_MATCH
    /\ {StartTag, FrameType, EndTag} \subseteq Octet
    /\ Pad \in Nat /\ Pad >= 4
    /\ \A n \in Short16 : \A rest \in Beyond(n) : rest \in Seq(Octet) /\ Len(rest) = n
    /\ Inx \in Nat /\ Inx + 1 \in Octet
    /\ Address \in Seq(Octet) /\ 3 + Len(Address) + Around \in Short16
    /\ \A request \in Request :
          /\ request \in Seq(Octet) /\ Len(request) >= 2 /\ Len(request) + Around \in Short16
          /\ request[1] \in {LOGIN, MATCH, REGISTER} /\ request[2] = 0
    /\ Account \cup Leftover \subseteq
          [id : Long32, status : Octet, money_z : Long32, money_d : Long32,
           solo_w : Long32, solo_f : Long32, solo_s : Short16, lv : Short16]
    /\ U_ID_INIT \in Nat

-----------------------------------------------------------------------------

\* Where in the stream a chunk ends, and where the next one begins.
End(chunk) == chunk.from + chunk.len
Position == IF took = None THEN 0 ELSE End(took[Len(took)])

FrameInit ==
    /\ requests = << >> /\ wire = << >> /\ took = << >>
    /\ halt = "no"

Ask(request) ==
    /\ Len(requests) < MaxRequests /\ halt = "no"
    /\ requests' = Append(requests, [payload |-> request, from |-> Position + Len(wire)])
    /\ wire' = wire \o pkt_make_client(request)
    /\ UNCHANGED << took, halt >>

\* One call: the first n bytes are what the input buffer holds.  All of them
\* are removed; the first frame in them is handled, the rest is dropped.
\* Nothing is answered when do_work has put nothing into wchain.
read_cb(n, good, row) ==
    LET chunk == SubSeq(wire, 1, n)
        answer(payload, user) ==
            LET rec == do_work(payload, good, user)
            IN IF rec = None THEN None ELSE pkt_make_client(rec)
    IN
    /\ Len(took) < MaxChunks /\ halt = "no"
    /\ wire' = SubSeq(wire, n + 1, Len(wire))
    /\ \E frame \in Parse(chunk), user \in NewUser(row) :
          /\ took' = Append(took,
                [from |-> Position, len |-> n, head |-> pkt_match_head(chunk),
                 got |-> frame.payload,
                 answer |-> IF frame.how = "ok" THEN answer(frame.payload, user) ELSE None])
          /\ halt' = IF frame.how \in {"assert", "wild"} THEN frame.how ELSE "no"
    /\ UNCHANGED requests

FrameNext ==
    \/ \E request \in Request : Ask(request)
    \/ \E n \in 1..Len(wire), good \in BOOLEAN, row \in Account : read_cb(n, good, row)

FrameSpec == FrameInit /\ [][FrameNext]_frameVars

-----------------------------------------------------------------------------

\* The kinds of the answers.
Answers == [type \in {LOGIN, MATCH, REGISTER} |->
                CASE type = LOGIN -> REC_LOGIN
                  [] type = MATCH -> REC_MATCH
                  [] OTHER -> REC_REGISTER]

\* The bytes of a request's frame that a chunk does not reach.
CutOff(request, chunk) ==
    SubSeq(pkt_make_client(request.payload),
           End(chunk) - request.from + 1, Len(request.payload) + Around)
\* The frame of the request is what read_cb finds first in the chunk.
FoundFirst(chunk, request) ==
    /\ chunk.from <= request.from /\ request.from < End(chunk)
    /\ chunk.head = request.from - chunk.from + 1

\* A frame that is found first in a chunk, after the end of another or not, but whose
\* own end has not come with it: do_work is called with that request and nothing else,
\* or not at all.  It is only called if the sum cannot tell the missing bytes from
\* the zeroes in their place (YS.cpp:172); if there are more of them than zeroes,
\* nothing is sure about the payload's end.  What comes in the next chunk has no part
\* in it: never is the head of one frame handled with the end of another.
CutFrameRefused(chunk, request) ==
    LET cut == CutOff(request, chunk)
        here == Len(request.payload) + PKT_YS_ENDLEN - Len(cut)
        come == SubSeq(request.payload, 1, here)
    IN  FoundFirst(chunk, request) /\ cut # None /\ here >= 0 /\ chunk.got # None =>
           /\ Len(chunk.got) = Len(request.payload)
           /\ IsPrefix(come, chunk.got)
           /\ Len(cut) <= Pad =>
                 /\ pkt_build_check_sum(cut) = 0
                 /\ chunk.got = come \o [k \in 1..Len(cut) - PKT_YS_ENDLEN |-> 0]

CutFramesRefused ==
    \A i \in 1..Len(took), k \in 1..Len(requests) : CutFrameRefused(took[i], requests[k])

\* A client reads the numbers behind the type and the worker's number.
LoginTrue(payload) ==
    IF payload[3] = 0 THEN Len(payload) = 3
    ELSE \E row \in Account \cup Leftover :
            /\ row.id >= U_ID_INIT
            /\ Len(payload) = 3 + USER_DATA_SIZE
            /\ << IN32_LE(payload, 4), IN32_LE(payload, 9), IN32_LE(payload, 13),
                  IN32_LE(payload, 17), IN32_LE(payload, 21),
                  IN16_LE(payload, 25), IN16_LE(payload, 27) >>
               = << row.id, row.money_z, row.money_d, row.solo_w, row.solo_f,
                    row.solo_s, row.lv >>

\* A request whose frame is found first in a chunk and is whole in it is handled,
\* whatever precedes it there and follows it, and is answered with a frame that parses,
\* by pkt_parse_data's rules, to an answer to a request of its kind (pkt_make_client,
\* Ypkt.cpp:85; do_work, Yprocess.cpp:215).  The numbers in an answer to a login are
\* those of one user: a row of the table with an id that the constructor takes
\* (YUser.cpp:39), or what the memory of a User held.
WholeFrameAnswered(chunk, request) ==
    FoundFirst(chunk, request) /\ CutOff(request, chunk) = None =>
       /\ chunk.got = request.payload
       /\ \E rec \in Parse(chunk.answer) :
             /\ rec.how = "ok"
             /\ Short(rec.payload) = Answers[request.payload[1]]
             /\ Short(rec.payload) = REC_LOGIN => LoginTrue(rec.payload)

WholeFramesAnswered ==
    \A i \in 1..Len(took), k \in 1..Len(requests) : WholeFrameAnswered(took[i], requests[k])
=============================================================================
