------------------------------- MODULE XList --------------------------------
(***************************************************************************)
(* The doubly linked list of afx/xlist.cpp on its nodes.  A list ends with *)
(* a spare node that holds no item: an item is added by filling the spare  *)
(* node and linking a new one behind it.  prev of the first node is the    *)
(* spare node.  A handle keeps the address of the first node for good, so  *)
(* that an item is taken out by moving its successor's item into its node  *)
(* and unlinking the successor's node.                                     *)
(*                                                                         *)
(* One action is one call; the lists that threads share are modelled step  *)
(* by step in Match and Dispatch.  Nodes are addresses.                    *)
(***************************************************************************)
EXTENDS Naturals, Sequences, FiniteSets, SequencesExt

CONSTANTS
    Handle,         \* the variables of a program that hold a list
    Node,           \* addresses of nodes
    Key,            \* keys, strings in the code
    Ptr, Str,       \* values: pointers that a list just keeps, strings that it frees
    NULL

ASSUME NullAssumption ==
    /\ NULL \notin Node /\ NULL \notin Ptr /\ NULL \notin Str
ASSUME ValueAssumption == Ptr \cap Str = {}

VARIABLES
    head,           \* the node a handle holds
    next, prev,     \* the links of each node
    data,           \* what each node holds
    alive,          \* allocated and not freed
    loose,          \* nodes that were taken out and are their takers' now
    mine,           \* strings that belong to the program, not to a list
    chain           \* history: the nodes of each list, in order, the spare one last

pointerVars == <<head, next, prev, data>>
vars == <<pointerVars, alive, loose, mine, chain>>

Item ==
    [key : Key \cup {NULL}, type : {"PTR", "STRING"}, value : Ptr \cup Str \cup {NULL}]

ASSUME ListAssumption == NULL \notin Seq(Item)

\* xmalloc zeroes what it allocates.
Blank == [key |-> NULL, type |-> "PTR", value |-> NULL]

TypeOK ==
    /\ head \in [Handle -> Node \cup {NULL}]
    /\ next \in [Node -> Node \cup {NULL}] /\ prev \in [Node -> Node \cup {NULL}]
    /\ data \in [Node -> Item]
    /\ alive \subseteq Node /\ loose \subseteq Node /\ mine \subseteq Str
    /\ chain \in [Handle -> Seq(Node)]

Init ==
    /\ head = [h \in Handle |-> NULL]
    /\ next = [n \in Node |-> NULL] /\ prev = [n \in Node |-> NULL]
    /\ data = [n \in Node |-> Blank]
    /\ alive = {} /\ loose = {} /\ mine = Str
    /\ chain = [h \in Handle |-> << >>]

-----------------------------------------------------------------------------
(* Parts of several calls.                                                 *)

xlist_isempty(h) == head[h] = NULL \/ prev[head[h]] = head[h]

\* What a caller may hand over: a string only if it is its own.
Given == {item \in Item :
             /\ item.key \in Key
             /\ IF item.type = "PTR" THEN item.value \notin Str ELSE item.value \in mine}
HandedOver(item) == mine' = mine \ {item.value}

\* A string that is freed, or handed back, is the program's again.
StringOf(item) == IF item.type = "STRING" THEN {item.value} \ {NULL} ELSE {}
FaultStringLost(S) == UNCHANGED mine
GivenBack(S) == mine' = mine \cup UNION {StringOf(data[n]) : n \in S}

\* The first position with the key (xlist_get).
Hits(h, key) == {k \in 1..Len(chain[h]) - 1 : data[chain[h][k]].key = key}
FaultLastOf(S) == CHOOSE k \in S : \A l \in S : k >= l
FirstOf(S)   == CHOOSE k \in S : \A l \in S : k <= l

-----------------------------------------------------------------------------
(* Making lists, and putting items into them.                              *)

xlist_init(h, n) ==
    /\ head[h] = NULL /\ n \notin alive
    /\ head' = [head EXCEPT ![h] = n]
    /\ prev' = [prev EXCEPT ![n] = n]
    /\ alive' = alive \cup {n}
    /\ chain' = [chain EXCEPT ![h] = <<n>>]
    /\ UNCHANGED <<next, data, loose, mine>>

\* The item goes into the spare node, and n becomes the spare one.
CatPrev(h, n) == [prev EXCEPT ![n] = prev[head[h]], ![head[h]] = n]
xlist_cat(h, n, item) ==
    /\ head[h] # NULL /\ n \notin alive
    /\ next' = [next EXCEPT ![prev[head[h]]] = n]
    /\ prev' = CatPrev(h, n)
    /\ data' = [data EXCEPT ![prev[head[h]]] = item]
    /\ alive' = alive \cup {n}
    /\ chain' = [chain EXCEPT ![h] = Append(@, n)]
    /\ HandedOver(item)
    /\ UNCHANGED <<head, loose>>

\* The item goes into the node x, the k-th one, and what was there into n behind
\* it.
Linked(h, x, k, n, item) ==
    /\ next' = [next EXCEPT ![n] = next[x], ![x] = n]
    /\ prev' = IF next[x] # NULL THEN [prev EXCEPT ![next[x]] = n, ![n] = x]
               ELSE [prev EXCEPT ![head[h]] = n, ![n] = x]
    /\ data' = [data EXCEPT ![x] = item, ![n] = data[x]]
    /\ alive' = alive \cup {n}
    /\ chain' = [chain EXCEPT ![h] = InsertAt(@, k + 1, n)]
    /\ HandedOver(item)
    /\ UNCHANGED <<head, loose>>

xlist_insert(h, k, n, item) ==
    /\ head[h] # NULL /\ n \notin alive
    /\ k \in 1..Len(chain[h])
    /\ Linked(h, chain[h][k], k, n, item)

xlist_push(h, n, item) ==
    /\ head[h] # NULL /\ n \notin alive
    /\ \/ next[head[h]] = NULL /\ xlist_cat(h, n, item)
       \/ next[head[h]] # NULL /\ Linked(h, head[h], 1, n, item)

\* The type of the item stays: it is the caller's to give a value of that type.
xlist_set(h, key, value) ==
    LET x == chain[h][FirstOf(Hits(h, key))] IN
    /\ Hits(h, key) # {}
    /\ IF data[x].type = "STRING" THEN value \in mine ELSE value \in Ptr
    /\ data' = [data EXCEPT ![x].value = value]
    /\ mine' = (mine \ {value}) \cup StringOf(data[x])
    /\ UNCHANGED <<head, next, prev, alive, loose, chain>>

-----------------------------------------------------------------------------
(* Taking items out.                                                       *)

\* xlist_break takes the item out of x, the k-th node: x gets the item of its
\* successor, which is unlinked and left with the item, or freed and blank.
FaultSpareLost(h, x) == [prev EXCEPT ![next[x]] = NULL]
BreakPrev(h, x) ==
    LET pivot == next[x]
        unlinked == IF next[pivot] # NULL THEN [prev EXCEPT ![next[pivot]] = prev[pivot]]
                    ELSE prev
        closed == IF pivot = unlinked[head[h]] THEN [unlinked EXCEPT ![head[h]] = x]
                  ELSE unlinked
    IN  [closed EXCEPT ![pivot] = NULL]
Broken(h, x, k, left) ==
    /\ next' = [next EXCEPT ![prev[next[x]]] = next[next[x]], ![next[x]] = NULL]
    /\ prev' = BreakPrev(h, x)
    /\ data' = [data EXCEPT ![x] = data[next[x]], ![next[x]] = left]
    /\ chain' = [chain EXCEPT ![h] = RemoveAt(@, k + 1)]
    /\ UNCHANGED head

Taken(h, x, k) ==
    /\ Broken(h, x, k, data[x])
    /\ loose' = loose \cup {next[x]}
    /\ UNCHANGED <<alive, mine>>

xlist_break(h, k) ==
    /\ head[h] # NULL /\ k \in 1..Len(chain[h]) - 1
    /\ Taken(h, chain[h][k], k)
xlist_pop(h) ==
    /\ ~xlist_isempty(h)
    /\ Taken(h, head[h], 1)
xlist_cut(h) ==
    /\ ~xlist_isempty(h)
    /\ Taken(h, prev[prev[head[h]]], Len(chain[h]) - 1)
xlist_remove(h, key) ==
    LET k == FirstOf(Hits(h, key)) IN
    /\ Hits(h, key) # {}
    /\ Taken(h, chain[h][k], k)

\* The same, and the node is freed: with its string, unless the caller gets it.
Freed(x) == alive' = alive \ {x}
Dropped(h, x, k) ==
    /\ Broken(h, x, k, Blank)
    /\ Freed(next[x])
    /\ GivenBack({x})
    /\ UNCHANGED loose

xlist_popv(h) ==
    /\ ~xlist_isempty(h)
    /\ Dropped(h, head[h], 1)
xlist_delete(h, key) ==
    LET k == FirstOf(Hits(h, key)) IN
    /\ Hits(h, key) # {}
    /\ Dropped(h, chain[h][k], k)
xlist_kill_remove(h, key) ==
    LET k == FirstOf(Hits(h, key)) IN
    /\ Hits(h, key) # {}
    /\ Dropped(h, chain[h][k], k)

\* A taker frees what it has taken, by xlist_clean.
clean_taken(n) ==
    /\ n \in loose
    /\ loose' = loose \ {n}
    /\ Freed(n)
    /\ data' = [data EXCEPT ![n] = Blank]
    /\ GivenBack({n})
    /\ UNCHANGED <<head, next, prev, chain>>

-----------------------------------------------------------------------------
(* Whole lists.                                                            *)

\* The nodes of S are freed.
FreedAll(S) ==
    /\ alive' = alive \ S
    /\ data' = [n \in Node |-> IF n \in S THEN Blank ELSE data[n]]
    /\ GivenBack(S)

\* The spare node of h gets the first item of g; the others' nodes follow.
FaultPrevStays(h, g) == [prev EXCEPT ![head[g]] = NULL, ![next[head[g]]] = prev[head[h]]]
CombinPrev(h, g) ==
    [prev EXCEPT ![head[g]] = NULL, ![next[head[g]]] = prev[head[h]],
                 ![head[h]] = prev[head[g]]]
xlist_combin(h, g) ==
    LET tail == prev[head[h]] IN
    /\ h # g /\ head[h] # NULL /\ ~xlist_isempty(g)
    /\ next' = [next EXCEPT ![tail] = next[head[g]], ![head[g]] = NULL]
    /\ prev' = CombinPrev(h, g)
    /\ data' = [data EXCEPT ![tail] = data[head[g]], ![head[g]] = Blank]
    /\ Freed(head[g])
    /\ head' = [head EXCEPT ![g] = NULL]
    /\ chain' = [chain EXCEPT ![h] = @ \o Tail(chain[g]), ![g] = << >>]
    /\ UNCHANGED <<loose, mine>>

\* Ends the list before its k-th node, which must be an item's and not the
\* first one.
xlist_terminal(h, k) ==
    LET s == chain[h]
        pos == s[k]
        tail == prev[head[h]]
        S == {s[j] : j \in k..Len(s) - 1}
    IN
    /\ head[h] # NULL /\ k \in 2..Len(s) - 1
    /\ next' = [n \in Node |-> IF n \in S THEN NULL
                               ELSE IF n = prev[pos] THEN tail ELSE next[n]]
    /\ prev' = [n \in Node |-> IF n \in S THEN NULL
                               ELSE IF n = tail THEN prev[pos] ELSE prev[n]]
    /\ FreedAll(S)
    /\ chain' = [chain EXCEPT ![h] = Append(SubSeq(s, 1, k - 1), tail)]
    /\ UNCHANGED <<head, loose>>

xlist_clean(h) ==
    LET S == Range(chain[h]) IN
    /\ head[h] # NULL
    /\ next' = [n \in Node |-> IF n \in S THEN NULL ELSE next[n]]
    /\ prev' = [n \in Node |-> IF n \in S THEN NULL ELSE prev[n]]
    /\ FreedAll(S)
    /\ head' = [head EXCEPT ![h] = NULL]
    /\ chain' = [chain EXCEPT ![h] = << >>]
    /\ UNCHANGED loose

xlist_reset(h) ==
    LET S == Range(chain[h]) IN
    /\ head[h] # NULL
    /\ next' = [n \in Node |-> IF n \in S THEN NULL ELSE next[n]]
    /\ prev' = [n \in Node |-> IF n = head[h] THEN n
                               ELSE IF n \in S THEN NULL ELSE prev[n]]
    /\ data' = [n \in Node |-> IF n \in S THEN Blank ELSE data[n]]
    /\ GivenBack(S)
    /\ alive' = alive \ (S \ {head[h]})
    /\ chain' = [chain EXCEPT ![h] = <<head[h]>>]
    /\ UNCHANGED <<head, loose>>

-----------------------------------------------------------------------------

Adding(h) ==
    \E n \in Node, item \in Given :
        \/ xlist_cat(h, n, item) \/ xlist_push(h, n, item)
        \/ \E k \in 1..Len(chain[h]) : xlist_insert(h, k, n, item)

Taking(h) ==
    \/ xlist_pop(h) \/ xlist_cut(h) \/ xlist_popv(h)
    \/ \E k \in 1..Len(chain[h]) : xlist_break(h, k)
    \/ \E key \in Key :
          xlist_remove(h, key) \/ xlist_delete(h, key) \/ xlist_kill_remove(h, key)

Whole(h) ==
    \/ \E n \in Node : xlist_init(h, n)
    \/ \E g \in Handle : xlist_combin(h, g)
    \/ \E k \in 1..Len(chain[h]) : xlist_terminal(h, k)
    \/ xlist_clean(h) \/ xlist_reset(h)

Next ==
    \/ \E h \in Handle :
          \/ Adding(h) \/ Taking(h) \/ Whole(h)
          \/ \E key \in Key, value \in Ptr \cup Str : xlist_set(h, key, value)
    \/ \E n \in Node : clean_taken(n)

Spec == Init /\ [][Next]_vars
=============================================================================
