-------------------------- MODULE XListProperties ---------------------------
(* What the list of afx/xlist.cpp is meant to guarantee.                   *)
EXTENDS XList

\* The links are those of a list: next leads from node to node and ends at the
\* spare one, which is blank; prev leads back, and from the first node to the
\* spare one (every function of xlist.cpp).
ShapeOf(h) ==
    LET s == chain[h] IN
    /\ Len(s) > 0 /\ s[1] = head[h]
    /\ \A k \in 1..Len(s) - 1 : next[s[k]] = s[k+1] /\ prev[s[k+1]] = s[k]
    /\ next[s[Len(s)]] = NULL /\ prev[s[1]] = s[Len(s)]
    /\ data[s[Len(s)]] = Blank
Shape ==
    \A h \in Handle : IF head[h] = NULL THEN chain[h] = << >> ELSE ShapeOf(h)

\* No node is in two places: at two positions, in two lists, or in a list and
\* with somebody who has taken it.
Apart ==
    /\ \A g, h \in Handle : \A j \in 1..Len(chain[g]), k \in 1..Len(chain[h]) :
          chain[g][j] = chain[h][k] => g = h /\ j = k
    /\ \A h \in Handle : \A k \in 1..Len(chain[h]) : chain[h][k] \notin loose

\* Memory: what is allocated is in a list or has been taken out, no more and no
\* less, so that no call leaks a node or frees one that is in use.
NodesOwned == alive = loose \cup UNION {Range(chain[h]) : h \in Handle}

\* Every string that was handed to a list, and only such a one, is in exactly one
\* node, so that none is freed twice, leaked, or used after it was freed.
StringsOwned ==
    /\ \A n \in Node : StringOf(data[n]) \cap mine = {} /\ StringOf(data[n]) \subseteq Str
    /\ \A m, n \in Node : m # n => StringOf(data[m]) \cap StringOf(data[n]) = {}
    /\ \A v \in Str \ mine : \E n \in alive : v \in StringOf(data[n])

\* What is not allocated is blank, and what was taken out is not linked.
Blanks ==
    /\ \A n \in Node \ alive : next[n] = NULL /\ prev[n] = NULL /\ data[n] = Blank
    /\ \A n \in loose : next[n] = NULL /\ prev[n] = NULL

\* Inductive: the links, the chain and the allocated nodes agree.
IInv == TypeOK /\ Shape /\ Apart /\ NodesOwned /\ Blanks

-----------------------------------------------------------------------------

\* The items of a list, in order.
ItemsOf(h) ==
    IF head[h] = NULL THEN NULL
    ELSE [k \in 1..Len(chain[h]) - 1 |-> data[chain[h][k]]]

Abstract == INSTANCE Lists WITH
                Name <- Node, lists <- [h \in Handle |-> ItemsOf(h)],
                taken <- [n \in loose |-> data[n]]

\* Every call does to the list what a call of Lists would do to a sequence,
\* whatever node and links it has to move for it.
ImplementsLists == Abstract!Spec

\* And it is the call that its name says: the first item is popped, the last one
\* cut, the first one with the key removed, deleted or set, the one at the index
\* broken out, the new one added last, first, or at the index.
Calls(h) ==
    LET len == Len(chain[h]) - 1 IN
    /\ \A n \in Node, item \in Given :
          /\ xlist_cat(h, n, item) => Abstract!Put(h, len + 1, item)
          /\ xlist_push(h, n, item) => Abstract!Put(h, 1, item)
          /\ \A k \in 1..len + 1 : xlist_insert(h, k, n, item) => Abstract!Put(h, k, item)
    /\ xlist_pop(h) => \E n \in Node : Abstract!Take(h, 1, n)
    /\ xlist_cut(h) => \E n \in Node : Abstract!Take(h, len, n)
    /\ xlist_popv(h) => Abstract!Drop(h, 1)
    /\ \A k \in 1..len : xlist_break(h, k) => \E n \in Node : Abstract!Take(h, k, n)
    /\ \A key \in Key :
          /\ xlist_remove(h, key) => \E n \in Node : Abstract!TakeKey(h, key, n)
          /\ xlist_delete(h, key) \/ xlist_kill_remove(h, key) => Abstract!DropKey(h, key)
          /\ \A value \in Ptr \cup Str :
                xlist_set(h, key, value) => Abstract!Change(h, key, value)
    /\ \A g \in Handle : xlist_combin(h, g) => Abstract!Join(h, g)
    /\ \A k \in 1..len + 1 : xlist_terminal(h, k) => Abstract!Truncate(h, k)
CallsDoTheirs == [][\A h \in Handle : Calls(h)]_vars
=============================================================================
