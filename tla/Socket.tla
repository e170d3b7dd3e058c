------------------------------- MODULE Socket -------------------------------
(* The stream sockets of afx/xsocket.cpp: connecting, messages with a head   *)
(* that holds their length, and the forwarder between two sockets.  A        *)
(* program sends to another one through a forwarder; the kernel is external: *)
(* two buffers of bytes, calls that take or give less than they are asked    *)
(* for, and calls that a signal interrupts.                                  *)
EXTENDS Integers, Sequences, SequencesExt

CONSTANTS
    XSK_HEAD_LEN, BUFFER_SIZE,
    MaxSize,        \* a length that xsk_recv does not believe: 32 megabytes
    Room,           \* bytes that a kernel buffer holds
    Message,        \* what is sent
    Junk,           \* what lies behind the sender's data
    MaxAsked        \* bound on the messages of a connection

VARIABLES
    link,           \* the ends that have the connection: "none", "listen", "client", "both"
    up, down,       \* bytes to the forwarder and from it
    tx, rx,         \* where the sender and the receiver are
    asked, got,     \* messages that were begun, and received, on this connection (history)
    spoilt          \* bytes were lost or added on the way (history)

sockVars == << link, up, down, tx, rx, asked, got, spoilt >>

Nil == << >>
Smaller(a, b) == IF a < b THEN a ELSE b

\* The head is the length, its highest byte first; ntohl puts the bytes together again.
Byte == 0..255
Shifted(n) == LET d[k \in 0..XSK_HEAD_LEN] == IF k = 0 THEN n ELSE d[k-1] \div 256 IN d
htonl(n) == [k \in 1..XSK_HEAD_LEN |-> Shifted(n)[XSK_HEAD_LEN - k] % 256]
ntohl(head) ==
    LET v[k \in 0..Len(head)] == IF k = 0 THEN 0 ELSE 256 * v[k-1] + head[k]
    IN v[Len(head)]

\* A length that is believed fits into the head: 32 megabytes into four bytes.
ASSUME SocketAssumption ==
    /\ XSK_HEAD_LEN \in Nat \ {0} /\ BUFFER_SIZE \in Nat \ {0} /\ MaxSize \in Nat
    /\ Room \in Nat /\ MaxAsked \in Nat
    /\ Message \subseteq Seq(Byte) /\ Junk \in Seq(Byte)
    /\ \A n \in 0..MaxSize - 1 : Shifted(n)[XSK_HEAD_LEN] = 0

TxIdle == [at |-> "idle", left |-> Nil, body |-> Nil, timeout |-> 0, wild |-> FALSE]
RxHead == [at |-> "head", buf |-> Nil, need |-> XSK_HEAD_LEN, wild |-> FALSE]

Fresh ==
    /\ up' = Nil /\ down' = Nil /\ tx' = TxIdle /\ rx' = RxHead
    /\ asked' = Nil /\ got' = Nil /\ spoilt' = FALSE

SockInit ==
    /\ link = "none"
    /\ up = Nil /\ down = Nil /\ tx = TxIdle /\ rx = RxHead
    /\ asked = Nil /\ got = Nil /\ spoilt = FALSE

streams == << up, down, tx, rx, asked, got, spoilt >>

-----------------------------------------------------------------------------

xsk_init_listen_socket(init_func, bound) ==
    /\ link = "none"
    /\ link' = IF init_func /\ bound THEN "listen" ELSE "none"
    /\ UNCHANGED streams

\* What the kernel answers to a connecting program.  With a timeout the socket does not
\* block until the connection is there: a select, repeated when it is interrupted, and
\* the socket's error tell.  It must block again before it is used.
KernelAnswers == [socket : BOOLEAN, nonblock : BOOLEAN, connect : {"ok", "in progress", "refused"},
            select : {"ready", "late", "error"}, error : BOOLEAN, block : BOOLEAN]

IsConnected(a, timeout) ==
    /\ a.socket
    /\ timeout > 0 => a.nonblock /\ a.block
    /\ \/ a.connect = "ok"
       \/ timeout > 0 /\ a.connect = "in progress" /\ a.select = "ready" /\ ~ a.error

xsk_init_client(timeout, a) ==
    /\ link = "listen"
    /\ link' = IF IsConnected(a, timeout) THEN "client" ELSE "listen"
    /\ UNCHANGED streams

\* An accepted socket is closed again if it cannot be made to block.
xsk_accept(block) ==
    /\ link = "client"
    /\ link' = IF block THEN "both" ELSE "listen"
    /\ UNCHANGED streams

\* The callers leave a connection on which a call has failed; here, both.
xsk_disconnect ==
    /\ link = "both"
    /\ link' = "listen"
    /\ Fresh

-----------------------------------------------------------------------------

\* xsk_send, or a program that frames its messages itself and calls xsk_snd with a
\* timeout, which xsk_send does not give.  No data, or too much of it, is not sent.
xsk_send(message, timeout) ==
    /\ link = "both" /\ tx.at = "idle" /\ Len(asked) < MaxAsked
    /\ 0 < Len(message) /\ Len(message) < MaxSize
    /\ asked' = Append(asked, message)
    /\ tx' = [at |-> "head", left |-> htonl(Len(message)), body |-> message,
              timeout |-> timeout, wild |-> FALSE]
    /\ UNCHANGED << link, up, down, rx, got, spoilt >>

Sending == link = "both" /\ tx.at \in {"head", "body"}
xsk_can_write == Len(up) < Room

\* What follows when n more of its bytes have gone: the rest, the body, or the next message.
TxAfter(n) ==
    LET left == SubSeq(tx.left, n + 1, Len(tx.left)) IN
    IF left # Nil THEN [tx EXCEPT !.left = left, !.wild = FALSE]
    ELSE IF tx.at = "head" THEN [tx EXCEPT !.at = "body", !.left = tx.body, !.wild = FALSE]
    ELSE TxIdle

\* One send: as much as the kernel takes, of at most a buffer.  The one that is repeated
\* after a signal asks for -1 bytes, that is, for all memory that follows: what goes
\* beyond the data makes xsk_snd's result another than was wanted, and the call fails.
xsk_snd(n) ==
    LET most == IF tx.wild THEN Len(tx.left) + Len(Junk) ELSE Smaller(Len(tx.left), BUFFER_SIZE)
        sent == SubSeq(tx.left \o Junk, 1, n)
    IN
    /\ Sending /\ n <= most /\ Len(up) + n <= Room
    /\ up' = up \o sent
    /\ tx' = IF n > Len(tx.left) THEN [tx EXCEPT !.at = "failed"] ELSE TxAfter(n)
    /\ spoilt' = (spoilt \/ n > Len(tx.left))
    /\ UNCHANGED << link, down, rx, asked, got >>

SendInterrupted ==
    /\ Sending
    /\ tx' = [tx EXCEPT !.wild = TRUE]
    /\ UNCHANGED << link, up, down, rx, asked, got, spoilt >>

\* An error, or no room until the time is over; what has gone before is on its way.
SendFails ==
    /\ Sending /\ tx' = [tx EXCEPT !.at = "failed"]
    /\ UNCHANGED << link, up, down, rx, asked, got, spoilt >>

SendTimesOut ==
    /\ Sending /\ tx.timeout > 0 /\ ~ xsk_can_write
    /\ tx' = [tx EXCEPT !.at = "failed"]
    /\ UNCHANGED << link, up, down, rx, asked, got, spoilt >>

-----------------------------------------------------------------------------

\* The forwarder reads what there is, at most a buffer, and sends it on in one call: what
\* that call does not take is lost.
xsk_forward(n, k) ==
    /\ link = "both" /\ Len(down) + k <= Room
    /\ down' = down \o SubSeq(up, 1, k)
    /\ up' = SubSeq(up, n + 1, Len(up))
    /\ spoilt' = (spoilt \/ k < n)
    /\ UNCHANGED << link, tx, rx, asked, got >>

-----------------------------------------------------------------------------

Receiving == link = "both" /\ rx.at \in {"head", "body"}
xsk_can_read == down # Nil

\* xsk_recv, when a call of xsk_rcv has all it needs: a length that cannot be is refused.
RxAfter(buf) ==
    IF rx.at = "body" THEN RxHead
    ELSE IF ntohl(buf) = 0 \/ ntohl(buf) >= MaxSize THEN [rx EXCEPT !.at = "failed"]
    ELSE [at |-> "body", buf |-> Nil, need |-> ntohl(buf), wild |-> FALSE]

\* A slip that the code does not make: what one recv gives is taken for all.
FaultOneRecv(n) ==
    LET buf == rx.buf \o SubSeq(down, 1, n) IN
    /\ Receiving /\ xsk_can_read /\ n <= Len(down)
    /\ n <= Smaller(rx.need - Len(rx.buf), BUFFER_SIZE)
    /\ down' = SubSeq(down, n + 1, Len(down))
    /\ rx' = RxAfter(buf)
    /\ got' = IF rx.at = "body" THEN Append(got, buf) ELSE got
    /\ UNCHANGED << link, up, tx, asked, spoilt >>

\* One recv: part of what there is.  The one that is repeated after a signal takes
\* whatever there is, and writes what it did not need behind the caller's buffer.
xsk_rcv(n) ==
    LET need == rx.need - Len(rx.buf)
        buf == rx.buf \o SubSeq(down, 1, n)
    IN
    /\ Receiving /\ xsk_can_read /\ n <= Len(down)
    /\ ~ rx.wild => n <= Smaller(need, BUFFER_SIZE)
    /\ down' = SubSeq(down, n + 1, Len(down))
    /\ rx' = IF n > need THEN [rx EXCEPT !.at = "overrun"]
             ELSE IF n < need THEN [rx EXCEPT !.buf = buf, !.wild = FALSE]
             ELSE RxAfter(buf)
    /\ got' = IF n = need /\ rx.at = "body" THEN Append(got, buf) ELSE got
    /\ UNCHANGED << link, up, tx, asked, spoilt >>

ReceiveInterrupted ==
    /\ Receiving
    /\ rx' = [rx EXCEPT !.wild = TRUE]
    /\ UNCHANGED << link, up, down, tx, asked, got, spoilt >>

\* An error, or the other end has left.
ReceiveFails ==
    /\ Receiving /\ rx' = [rx EXCEPT !.at = "failed"]
    /\ UNCHANGED << link, up, down, tx, asked, got, spoilt >>

SockNext ==
    \/ \E init_func, bound \in BOOLEAN : xsk_init_listen_socket(init_func, bound)
    \/ \E timeout \in 0..1, a \in KernelAnswers : xsk_init_client(timeout, a)
    \/ \E block \in BOOLEAN : xsk_accept(block)
    \/ \E message \in Message, timeout \in 0..1 : xsk_send(message, timeout)
    \/ \E n \in 1..Room : xsk_snd(n) \/ xsk_rcv(n)
    \/ \E n \in 1..Smaller(Len(up), BUFFER_SIZE) : \E k \in 1..n : xsk_forward(n, k)
    \/ SendInterrupted \/ SendFails \/ SendTimesOut \/ ReceiveInterrupted \/ ReceiveFails
    \/ xsk_disconnect

SockSpec == SockInit /\ [][SockNext]_sockVars

-----------------------------------------------------------------------------

Frame(message) == htonl(Len(message)) \o message
Frames(messages) == [k \in DOMAIN messages |-> Frame(messages[k])]
Bytes(messages) == FlattenSeq(Frames(messages))

\* Whatever parts the kernel takes and gives, wherever a call fails, times out or is
\* interrupted, as long as nothing is lost or added on the way: what xsk_recv returns are
\* whole messages, those that xsk_send was called with, in their order, and no byte of
\* one is handed out in another.  Nothing is left over either: what has gone and was not
\* received is on its way or in the receiver's buffer.  (Bytes are lost by xsk_forward,
\* xsocket.cpp:578, and added, or written behind a buffer, by the calls that are repeated
\* after a signal, :318 and :380.)
MessagesWhole ==
    ~ spoilt =>
       /\ IsPrefix(got, asked)
       /\ LET part == IF rx.at = "body" THEN htonl(rx.need) \o rx.buf ELSE rx.buf
              seen == Bytes(got) \o part \o down \o up
          IN rx.at \in {"head", "body"} =>
                /\ IsPrefix(seen, Bytes(asked))
                /\ tx.at = "idle" => seen = Bytes(asked)
=============================================================================
