------------------------------ MODULE XBigHeap ------------------------------
(* The priority queue of afx/xbigheap.cpp: a binary heap in an xarray, whose *)
(* nodes know their place, so that a caller may change the weight of one     *)
(* that is somewhere inside (xbigheap_update).                               *)
EXTENDS Integers, Sequences

CONSTANTS
    Ref,            \* the nodes that callers may hold
    Weight

ASSUME WeightAssumption == Weight \subseteq Int /\ Weight # {}

VARIABLES
    heap,           \* the slots from 1: slot zero of the array is never used
    node            \* weight and idx of every node

heapVars == << heap, node >>

Parent(i) == i \div 2
WeightAt(h, n, i) == n[h[i]].weight

\* A loop has heap and node, and at, the place it has come to.  Two nodes change
\* places, and each is told its new one.
xbigheap_exchange(s, i, j) ==
    [heap |-> [s.heap EXCEPT ![i] = s.heap[j], ![j] = s.heap[i]],
     node |-> [s.node EXCEPT ![s.heap[j]].idx = i, ![s.heap[i]].idx = j],
     at |-> j]

\* Where swimming goes on: at the parent, if that is lighter.
SwimTo(s) ==
    IF s.at > 1 /\ WeightAt(s.heap, s.node, s.at) > WeightAt(s.heap, s.node, Parent(s.at))
    THEN Parent(s.at) ELSE s.at

\* Where sinking goes on: a node goes down as long as it has two children and the heavier
\* one is heavier than it.  A node with one child stays.
HeavierChild(s) ==
    IF WeightAt(s.heap, s.node, 2 * s.at) < WeightAt(s.heap, s.node, 2 * s.at + 1)
    THEN 2 * s.at + 1 ELSE 2 * s.at
SinkTo(s) ==
    IF /\ 2 * s.at < Len(s.heap)
       /\ WeightAt(s.heap, s.node, s.at) < WeightAt(s.heap, s.node, HeavierChild(s))
    THEN HeavierChild(s) ELSE s.at

\* A loop that has come to its end stays there; no loop has more rounds than there are
\* places.
Goes(s, to) == IF to = s.at THEN s ELSE xbigheap_exchange(s, s.at, to)
Turn(s, up) == IF up THEN Goes(s, SwimTo(s)) ELSE Goes(s, SinkTo(s))
Turns(s, up) ==
    LET t[k \in 0..Len(s.heap)] == IF k = 0 THEN s ELSE Turn(t[k-1], up) IN t
xbigheap_swim(s) == Turns(s, TRUE)[Len(s.heap)]
xbigheap_sink(s) == Turns(s, FALSE)[Len(s.heap)]

Becomes(s) == heap' = s.heap /\ node' = s.node

-----------------------------------------------------------------------------

HeapInit ==
    /\ heap = << >>
    /\ node = [ref \in Ref |-> [weight |-> CHOOSE w \in Weight : TRUE, idx |-> 0]]

Held(ref) == node[ref].idx # 0

xbigheap_push(ref, weight) ==
    LET last == Len(heap) + 1 IN
    /\ ~ Held(ref)
    /\ Becomes(xbigheap_swim([heap |-> Append(heap, ref),
                              node |-> [node EXCEPT ![ref] = [weight |-> weight, idx |-> last]],
                              at |-> last]))

\* The first node is handed out and freed, the last one takes its place.
xbigheap_pop ==
    LET last == Len(heap)
        freed == [node EXCEPT ![heap[1]].idx = 0]
        rest == SubSeq(heap, 1, last - 1)
    IN
    /\ heap # << >>
    /\ Becomes(IF last = 1 THEN [heap |-> rest, node |-> freed]
               ELSE xbigheap_sink([heap |-> [rest EXCEPT ![1] = heap[last]],
                                   node |-> [freed EXCEPT ![heap[last]].idx = 1],
                                   at |-> 1]))

\* A slip that the code does not make: a lighter node is left where it is.
FaultNoSink(ref, weight) ==
    LET s == [heap |-> heap, node |-> [node EXCEPT ![ref].weight = weight], at |-> node[ref].idx] IN
    /\ Held(ref) /\ weight # node[ref].weight
    /\ Becomes(IF weight > node[ref].weight THEN xbigheap_swim(s) ELSE s)

xbigheap_update(ref, weight) ==
    LET s == [heap |-> heap, node |-> [node EXCEPT ![ref].weight = weight], at |-> node[ref].idx] IN
    /\ Held(ref) /\ weight # node[ref].weight
    /\ Becomes(IF weight > node[ref].weight THEN xbigheap_swim(s) ELSE xbigheap_sink(s))

HeapNext ==
    \/ \E ref \in Ref, weight \in Weight : xbigheap_push(ref, weight) \/ xbigheap_update(ref, weight)
    \/ xbigheap_pop

HeapSpec == HeapInit /\ [][HeapNext]_heapVars

-----------------------------------------------------------------------------

OutOfOrder(h, n) == {i \in 2..Len(h) : WeightAt(h, n, i) > WeightAt(h, n, Parent(i))}
Knows(h, n) == \A ref \in Ref :
    IF n[ref].idx = 0 THEN \A i \in DOMAIN h : h[i] # ref
    ELSE n[ref].idx \in DOMAIN h /\ h[n[ref].idx] = ref

\* Every node knows its place, however often it was moved, which is what the assertions
\* of xbigheap_pop and xbigheap_update look at (xbigheap.cpp:154, :164, :177).  A heap in
\* which no child is heavier than its parent hands out its heaviest node, and stays in
\* order, but for one pair: the last node, where it is its parent's only child, may be
\* heavier than that.  (xbigheap_sink, :87, does not look at such a child; out of that
\* pair a later pop may hand out a node that is not the heaviest.)
HeapKeepsOrder ==
    [][ /\ Knows(heap', node')
        /\ OutOfOrder(heap, node) = {} =>
              /\ \A ref \in Ref :
                    Held(ref) /\ node'[ref].idx = 0 =>
                        \A other \in Ref : Held(other) => node[other].weight <= node[ref].weight
              /\ \A i \in OutOfOrder(heap', node') : i = Len(heap') /\ i % 2 = 0
      ]_heapVars
=============================================================================
