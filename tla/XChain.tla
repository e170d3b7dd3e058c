------------------------------- MODULE XChain -------------------------------
(* The byte chain of afx/xchain.cpp: granules of a fixed size, filled at the *)
(* end by xchain_add and at the front by xchain_pre_add, a count of the bytes *)
(* kept beside them, and a string of the content that xchain_str hands out.  *)
EXTENDS Integers, Sequences, SequencesExt

CONSTANTS
    BUFFER_GRANULE,
    Data,           \* what is added: sequences of bytes
    MaxQueue        \* bound on the content

\* A call with nothing to add does nothing, and is left out.
ASSUME ChainAssumption ==
    /\ BUFFER_GRANULE \in Nat \ {0} /\ MaxQueue \in Nat
    /\ Data \subseteq Seq(0..255) \ {<< >>}

VARIABLES
    chain,          \* granules, buffersize, update, string
    queue,          \* the bytes that a reader is to find, in order (history)
    read            \* what xchain_get or xchain_str gave in the last step, and what
                    \* the queue has there (history)

chainVars == << chain, queue, read >>

NULL == "NULL"
Unread == << << >>, << >> >>
Least(a, b) == IF a < b THEN a ELSE b
FirstOf(n, s) == SubSeq(s, 1, Least(n, Len(s)))
WithoutFirst(n, s) == SubSeq(s, n + 1, Len(s))

\* A granule holds the bytes from bufpos to buflen: data.
Granule(bufpos, data) == [bufpos |-> bufpos, data |-> data]
buflen(g) == g.bufpos + Len(g.data)

\* Pieces of at most a granule, from the front.
Pieces(data) ==
    LET n == (Len(data) + BUFFER_GRANULE - 1) \div BUFFER_GRANULE
    IN [k \in 1..n |-> FirstOf(BUFFER_GRANULE, WithoutFirst((k - 1) * BUFFER_GRANULE, data))]

xchain_init == [granules |-> << >>, buffersize |-> 0, update |-> 0, string |-> NULL]

-----------------------------------------------------------------------------

\* xchain_add: the last granule is filled, the rest goes into new ones.
Appended(ch, data) ==
    LET last == Len(ch.granules)
        room == IF last = 0 THEN 0 ELSE BUFFER_GRANULE - buflen(ch.granules[last])
        filled == IF room = 0 THEN ch.granules
                  ELSE [ch.granules EXCEPT ![last].data = @ \o FirstOf(room, data)]
        pieces == Pieces(WithoutFirst(room, data))
    IN [ch EXCEPT !.granules = filled \o [k \in DOMAIN pieces |-> Granule(0, pieces[k])],
                  !.buffersize = @ + Len(data),
                  !.update = 1]

\* A slip that the code does not make: the room before the first granule is filled
\* with the front of the data.
FaultFrontIntoRoom(ch, data) ==
    LET copylen == Least(ch.granules[1].bufpos, Len(data))
        rest == Len(data) - copylen
        filled == [ch.granules EXCEPT ![1].bufpos = @ - copylen,
                                      ![1].data = FirstOf(copylen, data) \o @]
        pieces == Pieces(WithoutFirst(copylen, data))
        new == [k \in DOMAIN pieces |->
                    Granule(BUFFER_GRANULE - Len(pieces[k]), pieces[k])]
    IN [ch EXCEPT !.granules = Reverse(new) \o filled,
                  !.buffersize = @ + Len(data),
                  !.update = 1]

\* xchain_pre_add: the end of the data goes into the room before the first granule,
\* and the rest, from its front, into new granules before it, one before the other.
Prepended(ch, data) ==
    LET copylen == Least(ch.granules[1].bufpos, Len(data))
        rest == Len(data) - copylen
        filled == [ch.granules EXCEPT ![1].bufpos = @ - copylen,
                                      ![1].data = WithoutFirst(rest, data) \o @]
        pieces == Pieces(FirstOf(rest, data))
        new == [k \in DOMAIN pieces |->
                    Granule(BUFFER_GRANULE - Len(pieces[k]), pieces[k])]
    IN [ch EXCEPT !.granules = Reverse(new) \o filled,
                  !.buffersize = @ + Len(data),
                  !.update = 1]

\* xchain_delete of no more than there is: a granule that is used up is freed, one that
\* is not is moved into.  Each round but the last frees one.
Round(l) ==
    LET first == l.ch.granules[1]
        n == Least(l.len, Len(first.data))
        left == IF n = Len(first.data) THEN Tail(l.ch.granules)
                ELSE [l.ch.granules EXCEPT ![1] = Granule(@.bufpos + n, WithoutFirst(n, @.data))]
    IN IF l.len = 0 THEN l
       ELSE [ch |-> [l.ch EXCEPT !.granules = left, !.buffersize = @ - n], len |-> l.len - n]

Rounds(ch, len) ==
    LET l[k \in 0..Len(ch.granules)] == IF k = 0 THEN [ch |-> ch, len |-> len] ELSE Round(l[k-1])
    IN l

Deleted(ch, len) == [Rounds(ch, len)[Len(ch.granules)].ch EXCEPT !.update = 1]

\* xchain_get of no more than there is, granule by granule.
Content(ch) == FlattenSeq([k \in DOMAIN ch.granules |-> ch.granules[k].data])
Got(ch, n) == FirstOf(Least(n, ch.buffersize), Content(ch))

-----------------------------------------------------------------------------

ChainInit ==
    /\ chain = xchain_init
    /\ queue = << >>
    /\ read = Unread

xchain_add(data) ==
    /\ Len(queue) + Len(data) <= MaxQueue
    /\ chain' = Appended(chain, data)
    /\ queue' = queue \o data
    /\ read' = Unread

\* What it is to do is to put the data before the content.  Of more than a granule's
\* worth of new granules it makes something else (xchain.cpp:131), and the queue is
\* what the chain has then.
xchain_pre_add(data) ==
    LET room == IF chain.granules = << >> THEN Len(data) ELSE chain.granules[1].bufpos IN
    /\ Len(queue) + Len(data) <= MaxQueue
    /\ chain' = IF chain.buffersize <= 0 THEN Appended(chain, data) ELSE Prepended(chain, data)
    /\ queue' = IF Len(data) - room <= BUFFER_GRANULE THEN data \o queue ELSE Content(chain')
    /\ read' = Unread

xchain_delete(n) ==
    /\ chain' = Deleted(chain, Least(n, chain.buffersize))
    /\ queue' = WithoutFirst(n, queue)
    /\ read' = Unread

xchain_get(n) ==
    /\ read' = << Got(chain, n), FirstOf(n, queue) >>
    /\ UNCHANGED << chain, queue >>

\* The string is made anew when there is none or anything has changed; nothing ever
\* says that it has not.
xchain_str ==
    LET new == IF chain.buffersize = 0 THEN NULL ELSE Got(chain, chain.buffersize)
        string == IF chain.update = 0 /\ chain.string # NULL THEN chain.string ELSE new
    IN /\ chain' = [chain EXCEPT !.string = string]
       /\ read' = << string, IF queue = << >> THEN NULL ELSE queue >>
       /\ UNCHANGED queue

xchain_reset ==
    /\ chain' = xchain_init
    /\ queue' = << >>
    /\ read' = Unread

ChainNext ==
    \/ \E data \in Data : xchain_add(data) \/ xchain_pre_add(data)
    \/ \E n \in 1..MaxQueue : xchain_delete(n) \/ xchain_get(n)
    \/ xchain_str \/ xchain_reset

ChainSpec == ChainInit /\ [][ChainNext]_chainVars

-----------------------------------------------------------------------------

\* Whatever is added at both ends, taken away and read in between: the chain holds the
\* bytes that a queue would, reads give them in order (a worker parses requests out of
\* one chain with xchain_get and xchain_delete, Yprocess.cpp:234, and sends what
\* xchain_2data makes of another), and the count kept beside the granules is that of
\* their bytes, which is what xchain_delete's and xchain_get's assertions
\* (xchain.cpp:154, :193) rely on: they follow as many granules as the count says.
\* No granule is empty or overfull, and only the outer ones have room inside.
ChainIsQueue ==
    /\ Content(chain) = queue
    /\ chain.buffersize = Len(queue)
    /\ read[1] = read[2]
    /\ \A k \in DOMAIN chain.granules :
          LET g == chain.granules[k] IN
          /\ g.data # << >> /\ buflen(g) <= BUFFER_GRANULE
          /\ k < Len(chain.granules) => buflen(g) = BUFFER_GRANULE
=============================================================================
