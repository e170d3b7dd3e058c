----------------------------- MODULE XListMore ------------------------------
(***************************************************************************)
(* The calls of afx/xlist.cpp that loop over a list's links: xlist_dup,    *)
(* xlist_reverse, xlist_order, xlist_order_big and xlist_popv_notzero,     *)
(* beside those of XList.  The loops run on a record of the three fields   *)
(* of all nodes, and of the variables of the loop: a loop is the function  *)
(* of its rounds, at most max of them, and one that has come to its end    *)
(* stays there.                                                            *)
(***************************************************************************)
EXTENDS XListProperties

CONSTANTS beg, end      \* the nodes that xlist_orders allocates, and frees again

ASSUME KeyAssumption == Key \subseteq Nat       \* their order is that of xstrcmp
ASSUME EndsAssumption == beg # end /\ {beg, end} \cap (Node \cup {NULL}) = {}

\* The fields of the nodes in S; those that are not in Node are blank.
HeapOf(S) ==
    [next |-> [n \in S |-> IF n \in Node THEN next[n] ELSE NULL],
     prev |-> [n \in S |-> IF n \in Node THEN prev[n] ELSE NULL],
     data |-> [n \in S |-> IF n \in Node THEN data[n] ELSE Blank]]
Heap == HeapOf(Node)
Becomes(hp) ==
    /\ next' = [n \in Node |-> hp.next[n]]
    /\ prev' = [n \in Node |-> hp.prev[n]]
    /\ data' = [n \in Node |-> hp.data[n]]

\* The nodes from n on, in the order of next, max of them at most.
After(hp, n) == IF hp.next[n] = NULL THEN n ELSE hp.next[n]
Walk(hp, n, max) ==
    LET w[k \in 1..max] == IF k = 1 THEN n ELSE After(hp, w[k-1])
    IN  [k \in 1..FirstOf({k \in 1..max : hp.next[w[k]] = NULL}) |-> w[k]]

Link(hp, a, b) == [hp EXCEPT !.next[a] = b, !.prev[b] = a]
Exchange(hp, a, b) == [hp EXCEPT !.data[a] = hp.data[b], !.data[b] = hp.data[a]]
Blanked(hp, S) ==
    [next |-> [n \in Node |-> IF n \in S THEN NULL ELSE hp.next[n]],
     prev |-> [n \in Node |-> IF n \in S THEN NULL ELSE hp.prev[n]],
     data |-> [n \in Node |-> IF n \in S THEN Blank ELSE hp.data[n]]]

-----------------------------------------------------------------------------

\* The copy of an item, with another string.  A fault: only strings are copied.
FaultCopyBare(item, str) ==
    [item EXCEPT !.value = IF item.type = "STRING" /\ @ # NULL THEN str ELSE NULL]
CopyItem(item, str) ==
    IF item.type = "STRING" /\ item.value # NULL THEN [item EXCEPT !.value = str]
    ELSE item

\* A copy with nodes s, and strings of its own, t[k] for the k-th item.
xlist_dup(h, g, s, t) ==
    LET c == chain[h]
        At(n) == CHOOSE k \in 1..Len(s) : s[k] = n
        hp == [next |-> [n \in Node |-> IF n \in Range(s) /\ At(n) < Len(s)
                                        THEN s[At(n) + 1] ELSE next[n]],
               prev |-> [n \in Node |-> IF n \notin Range(s) THEN prev[n]
                                        ELSE IF n = s[1] THEN s[Len(s)] ELSE s[At(n) - 1]],
               data |-> [n \in Node |-> IF n \in Range(s) /\ At(n) < Len(s)
                                        THEN CopyItem(data[c[At(n)]], t[At(n)]) ELSE data[n]]]
    IN
    /\ head[h] # NULL /\ head[g] = NULL
    /\ Becomes(hp)
    /\ head' = [head EXCEPT ![g] = s[1]]
    /\ alive' = alive \cup Range(s)
    /\ mine' = mine \ UNION {StringOf(hp.data[n]) : n \in Range(s)}
    /\ chain' = [chain EXCEPT ![g] = s]
    /\ UNCHANGED loose

Duplicating(h) ==
    \E g \in Handle :
    \E s \in {f \in [1..Len(chain[h]) -> Node \ alive] : IsInjective(f)} :
    \E t \in {f \in [1..Len(chain[h]) -> mine \cup {NULL}] :
                 \A j, k \in DOMAIN f : f[j] = f[k] => j = k \/ f[j] = NULL} :
        /\ \A k \in 1..Len(chain[h]) :
              (StringOf(data[chain[h][k]]) # {}) <=> (t[k] # NULL)
        /\ xlist_dup(h, g, s, t)

\* Items are exchanged from both ends until the two meet or have passed.
Passed(s) == s.a = s.b \/ s.heap.next[s.b] = s.a
Swapping(s) ==
    IF Passed(s) THEN s
    ELSE [heap |-> Exchange(s.heap, s.a, s.b),
          a |-> s.heap.next[s.a], b |-> s.heap.prev[s.b]]
Swapped(s, max) ==
    LET t[k \in 0..max] == IF k = 0 THEN s ELSE Swapping(t[k-1]) IN t[max].heap
xlist_reverse(h) ==
    /\ head[h] # NULL
    /\ UNCHANGED <<head, alive, loose, mine, chain>>
    /\ Becomes(Swapped([heap |-> Heap, a |-> head[h], b |-> prev[prev[head[h]]]], Len(chain[h])))

-----------------------------------------------------------------------------
(* xlist_orders: insertion between two extra nodes, beg and end.           *)

\* The first node behind beg before which the item of i goes.
Before(hp, i, big, max) ==
    LET w == Walk(hp, hp.next[beg], max)
        hit(j) == \/ j = end
                  \/ IF big THEN hp.data[j].key <= hp.data[i].key
                     ELSE hp.data[j].key >= hp.data[i].key
    IN  w[FirstOf({k \in DOMAIN w : hit(w[k])})]

\* All items from i on, one after the other; the spare node comes last.
Inserting(s, big, max) ==
    LET j == Before(s.heap, s.i, big, max) IN
    IF s.heap.next[s.i] = NULL THEN s
    ELSE [heap |-> Link(Link(s.heap, s.heap.prev[j], s.i), s.i, j), i |-> s.heap.next[s.i]]
Inserted(s, big, max) ==
    LET t[k \in 0..max] == IF k = 0 THEN s ELSE Inserting(t[k-1], big, max)
    IN  [Link(t[max].heap, t[max].heap.prev[end], t[max].i) EXCEPT !.prev[beg] = t[max].i]

\* The handle's node has to stay the first one: it changes places, and items,
\* with the node that is first now.
FaultNotFronted(hp, olds) == hp
Fronted(hp, olds) ==
    LET news == hp.next[beg]
        swapped == Link(Exchange(hp, news, olds), beg, olds)
        between == IF hp.next[news] # olds
                   THEN Link(Link(swapped, olds, hp.next[news]), hp.prev[olds], news)
                   ELSE Link(swapped, olds, news)
    IN  IF news = olds THEN hp ELSE Link(between, news, hp.next[olds])

xlist_orders(h, big) ==
    LET start == [Link(HeapOf(Node \cup {beg, end}), beg, end) EXCEPT !.prev[beg] = end]
        hp == Fronted(Inserted([heap |-> start, i |-> head[h]], big, Len(chain[h])), head[h])
        done == [hp EXCEPT !.prev[head[h]] = hp.prev[beg]]
    IN
    /\ ~xlist_isempty(h)
    /\ UNCHANGED <<head, alive, loose, mine>>
    /\ Becomes(done)
    /\ chain' = [chain EXCEPT ![h] = Walk(done, head[h], Len(chain[h]))]

-----------------------------------------------------------------------------

\* Takes the first item until one has a value.  The list must have such an item:
\* xlist_break of an empty one reads the successor of the spare node.
Draining(s, xs) ==
    LET pivot == s.heap.next[xs]
        after == s.heap.next[pivot]
    IN  IF s.item.value # NULL THEN s
        ELSE [heap |-> [s.heap EXCEPT !.next[xs] = after, !.data[xs] = s.heap.data[pivot],
                                      !.prev[IF after = NULL THEN xs ELSE after] = xs],
              freed |-> s.freed \cup {pivot}, item |-> s.heap.data[xs]]
Drained(s, xs, max) ==
    LET t[k \in 0..max] == IF k = 0 THEN s ELSE Draining(t[k-1], xs) IN t[max]
xlist_popv_notzero(h) ==
    LET result == Drained([heap |-> Heap, freed |-> {}, item |-> Blank], head[h], Len(chain[h]))
        hp == Blanked(result.heap, result.freed)
    IN
    /\ head[h] # NULL
    /\ \E k \in 1..Len(chain[h]) : data[chain[h][k]].value # NULL
    /\ Becomes(hp)
    /\ alive' = alive \ result.freed
    /\ mine' = mine \cup StringOf(result.item)
    /\ chain' = [chain EXCEPT ![h] = Walk(hp, head[h], Len(chain[h]))]
    /\ UNCHANGED <<head, loose>>

Looping(h) ==
    Duplicating(h) \/ xlist_reverse(h) \/ xlist_popv_notzero(h)
    \/ \E big \in BOOLEAN : xlist_orders(h, big)

NextMore == Next \/ \E h \in Handle : Looping(h)

SpecMore == Init /\ [][NextMore]_vars

-----------------------------------------------------------------------------

\* A sequence that orders the items of h by their keys: the right result of
\* xlist_order, or of xlist_order_big.
IsOrdered(s, big) ==
    \A j, k \in DOMAIN s : j < k =>
        IF big THEN s[j].key >= s[k].key ELSE s[j].key <= s[k].key
Rearranges(s, t) ==
    \E p \in [DOMAIN s -> DOMAIN t] : IsInjective(p) /\ \A k \in DOMAIN s : s[k] = t[p[k]]

\* Items like the old ones: what a string was is now another, of those that were the
\* program's; all else is the same, and a pointer points where it did.
IsCopy(new, old) ==
    /\ Len(new) = Len(old)
    /\ \A k \in 1..Len(old) :
          IF StringOf(old[k]) = {} THEN new[k] = old[k]
          ELSE /\ new[k] = [old[k] EXCEPT !.value = new[k].value]
               /\ new[k].value \in mine

\* What each of the calls that loop leaves: the same list and another with the same
\* items but for strings of its own (xlist.cpp:182), the items backwards, the items in
\* order, what follows the first item with a value.
LoopsDoTheirs ==
    [][\A h \in Handle :
         LET old == ItemsOf(h)
             new == ItemsOf(h)'
         IN
         /\ Duplicating(h) =>
               /\ new = old
               /\ \E g \in Handle :
                     head[g] = NULL /\ head'[g] # NULL /\ IsCopy(ItemsOf(g)', old)
         /\ xlist_reverse(h) => new = Reverse(old)
         /\ \A big \in BOOLEAN :
               xlist_orders(h, big) =>
                   Len(new) = Len(old) /\ Rearranges(new, old) /\ IsOrdered(new, big)
         /\ xlist_popv_notzero(h) =>
               \E k \in 1..Len(old) :
                   /\ old[k].value # NULL /\ \A j \in 1..k-1 : old[j].value = NULL
                   /\ new = SubSeq(old, k + 1, Len(old))]_vars
=============================================================================
