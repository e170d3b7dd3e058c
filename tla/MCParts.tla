------------------------------ MODULE MCParts -------------------------------
(* The parts that have no state in common with the server's threads, or with *)
(* each other, in one instance: a behaviour is one of one part, which its    *)
(* first state chooses.                                                      *)
EXTENDS Framing, Cursor, XChain, XBigHeap, XTreap, XArray, Socket, Bitwise

VARIABLE part

vars == << part, frameVars, curVars, chainVars, heapVars, treapVars, arrayVars, sockVars >>

Init ==
    /\ part \in {"frames", "cursor", "chain", "heap", "treap", "array", "socket"}
    /\ FrameInit /\ CurInit /\ ChainInit /\ HeapInit /\ TreapInit /\ ArrayInit /\ SockInit

Next ==
    /\ UNCHANGED part
    /\ \/ /\ part = "frames" /\ FrameNext
          /\ UNCHANGED << curVars, chainVars, heapVars, treapVars, arrayVars, sockVars >>
       \/ /\ part = "cursor" /\ CurNext
          /\ UNCHANGED << frameVars, chainVars, heapVars, treapVars, arrayVars, sockVars >>
       \/ /\ part = "chain" /\ ChainNext
          /\ UNCHANGED << frameVars, curVars, heapVars, treapVars, arrayVars, sockVars >>
       \/ /\ part = "heap" /\ HeapNext
          /\ UNCHANGED << frameVars, curVars, chainVars, treapVars, arrayVars, sockVars >>
       \/ /\ part = "treap" /\ TreapNext
          /\ UNCHANGED << frameVars, curVars, chainVars, heapVars, arrayVars, sockVars >>
       \/ /\ part = "array" /\ ArrayNext
          /\ UNCHANGED << frameVars, curVars, chainVars, heapVars, treapVars, sockVars >>
       \/ /\ part = "socket" /\ SockNext
          /\ UNCHANGED << frameVars, curVars, chainVars, heapVars, treapVars, arrayVars >>

Spec == Init /\ [][Next]_vars

ExclusiveOr(a, b) == a ^^ b

\* Requests of each kind, short ones; a chunk that begins within the first and holds a
\* frame of the second may be taken for a frame made of both.  What an answer to them
\* carries, and what memory may hold.
Requests == {<< 1, 0, 5, 4, 6, 1, 1 >>, << 2, 0, 5, 1, 3 >>, << 4, 0, 1, 1, 6, 0 >>}
HeapBytes(n) == {[k \in 1..n |-> 0], [k \in 1..n |-> 1]}
Numbers(id, status) ==
    [id |-> id, status |-> status, money_z |-> 1, money_d |-> 70, solo_w |-> 520,
     solo_f |-> 0, solo_s |-> 9, lv |-> 3]
Accounts == {Numbers(100, 0), Numbers(99, 0)}
Memory == {Numbers(0, 0), Numbers(4000, 1)}
Server == << 7, 3 >>

\* Two users, and a batch of both.
Rows == {<< "a", "p" >>, << "b", "q" >>}
Both == << << "a", "p" >>, << "b", "q" >> >>

\* Less than a granule, a whole one, and more.
Bytes123 == {<< 1 >>, << 1, 2 >>, << 2, 1, 1 >>}

\* Both sides of zero, the first cell, its end, the next one, and one that is too far.
Indices == {-1, 0, 3}
Indices2 == {-2, 0, 1, 3, 4}

\* A message that fits the kernel's buffer and one that does not, and that holds what
\* looks like a head; and two that are not sent.
Messages == {<< >>, << 1 >>, << 0, 1, 2 >>, << 1, 1, 1, 1 >>}
Behind == << 0 >>
=============================================================================
