------------------------------- MODULE XTreap -------------------------------
(* The search tree of afx/xtreap.cpp: keys in order, with a random number    *)
(* (fix) in every node, of which a parent's is never the smaller.            *)
EXTENDS Integers, Sequences, SequencesExt, FiniteSets

CONSTANTS
    Key, Value, Fix     \* what is pushed, under which key, and what rand() gives

VARIABLES
    root,           \* the tree: nested records
    kept,           \* the pairs that were pushed and not broken out (history)
    broke           \* what the last xtreap_break gave, and what a find before it (history)

treapVars == << root, kept, broke >>

NoNode == [size |-> 0]
NoValue == "none"

xtreap_node_alloc(key, value, fix) ==
    [size |-> 1, key |-> key, value |-> value, fix |-> fix, ch |-> << NoNode, NoNode >>]

\* ch[0] and ch[1] are ch[1] and ch[2] here.
Other(d) == 3 - d
xtreap_node_maintain(t) == [t EXCEPT !.size = 1 + t.ch[1].size + t.ch[2].size]

\* The child on the other side of d comes up, its child on side d changes its parent.
xtreap_node_rotate(t, d) ==
    LET k == t.ch[Other(d)]
        down == xtreap_node_maintain([t EXCEPT !.ch[Other(d)] = k.ch[d]])
    IN xtreap_node_maintain([k EXCEPT !.ch[d] = down])

\* A slip that the code does not make: the child with the smaller number comes up.
FaultSmallerUp(t) == IF t.ch[1].fix > t.ch[2].fix THEN 1 ELSE 2

\* The side to which a node goes down: the child with the greater number comes up.
Down(t) == IF t.ch[1].fix > t.ch[2].fix THEN 2 ELSE 1

Side(t, key) == IF key < t.key THEN 1 ELSE 2

RECURSIVE xtreap_node_push(_, _)
xtreap_node_push(t, new) ==
    IF t = NoNode THEN new
    ELSE LET d == Side(t, new.key)
             pushed == [t EXCEPT !.ch[d] = xtreap_node_push(@, new)]
         IN xtreap_node_maintain(
                IF pushed.ch[d].fix > t.fix THEN xtreap_node_rotate(pushed, Other(d))
                ELSE pushed)

RECURSIVE xtreap_node_find(_, _)
xtreap_node_find(t, key) ==
    IF t = NoNode THEN NoValue
    ELSE IF t.key = key THEN t.value
    ELSE xtreap_node_find(t.ch[Side(t, key)], key)

\* The tree without the first node of the key on the way down, and that node's value.
RECURSIVE xtreap_node_break(_, _)
xtreap_node_break(t, key) ==
    IF t = NoNode THEN [t |-> t, value |-> NoValue]
    ELSE IF t.key = key /\ t.ch[1] = NoNode THEN [t |-> t.ch[2], value |-> t.value]
    ELSE IF t.key = key /\ t.ch[2] = NoNode THEN [t |-> t.ch[1], value |-> t.value]
    ELSE LET d == IF t.key = key THEN Down(t) ELSE Side(t, key)
             turned == IF t.key = key THEN xtreap_node_rotate(t, d) ELSE t
             rest == xtreap_node_break(turned.ch[d], key)
         IN [t |-> xtreap_node_maintain([turned EXCEPT !.ch[d] = rest.t]), value |-> rest.value]

\* The values whose keys are in a range, as the callback is called with them.
RECURSIVE xtreap_node_find_range(_, _, _)
xtreap_node_find_range(t, keyl, keyr) ==
    IF t = NoNode THEN << >>
    ELSE IF t.key < keyl THEN xtreap_node_find_range(t.ch[2], keyl, keyr)
    ELSE IF t.key > keyr THEN xtreap_node_find_range(t.ch[1], keyl, keyr)
    ELSE << t.value >> \o xtreap_node_find_range(t.ch[1], keyl, keyr)
                       \o xtreap_node_find_range(t.ch[2], keyl, keyr)

-----------------------------------------------------------------------------

TreapInit == root = NoNode /\ kept = {} /\ broke = << NoValue, NoValue >>

xtreap_push(key, value, fix) ==
    /\ \A pair \in kept : pair[2] # value
    /\ root' = xtreap_node_push(root, xtreap_node_alloc(key, value, fix))
    /\ kept' = kept \cup {<< key, value >>}
    /\ broke' = << NoValue, NoValue >>

xtreap_break(key) ==
    LET broken == xtreap_node_break(root, key) IN
    /\ root' = broken.t
    /\ kept' = kept \ {<< key, broken.value >>}
    /\ broke' = << broken.value, xtreap_node_find(root, key) >>

TreapNext ==
    \/ \E key \in Key, value \in Value, fix \in Fix : xtreap_push(key, value, fix)
    \/ \E key \in Key : xtreap_break(key)

-----------------------------------------------------------------------------

RECURSIVE Balanced(_)
Balanced(t) ==
    t = NoNode \/
       /\ t.size = 1 + t.ch[1].size + t.ch[2].size
       /\ \A d \in 1..2 : t.ch[d] # NoNode => t.ch[d].fix <= t.fix /\ Balanced(t.ch[d])

Within(keyl, keyr) == {pair[2] : pair \in {p \in kept : keyl <= p[1] /\ p[1] <= keyr}}

\* However the tree was turned by pushes and breaks, with equal keys among them: a find
\* gives a value of its key when there is one and none otherwise, a range gives every
\* value in it once, the sizes count the nodes, and no node's number is greater than its
\* parent's.  What a break takes out is what a find has just found (xtreap_test relies
\* on that to free it, xtreap.cpp:210).
TreapFinds ==
    /\ Balanced(root) /\ root.size = Cardinality(kept)
    /\ broke[1] = broke[2]
    /\ \A key \in Key :
          IF Within(key, key) = {} THEN xtreap_node_find(root, key) = NoValue
          ELSE xtreap_node_find(root, key) \in Within(key, key)
    /\ \A keyl, keyr \in Key :
          LET found == xtreap_node_find_range(root, keyl, keyr) IN
          /\ ToSet(found) = Within(keyl, keyr)
          /\ Len(found) = Cardinality(Within(keyl, keyr))
=============================================================================
