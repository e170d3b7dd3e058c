------------------------------- MODULE Lists --------------------------------
(***************************************************************************)
(* What afx/xlist.cpp promises, without nodes and pointers: lists are      *)
(* sequences of items, and what is taken out of a list keeps its item for  *)
(* whoever took it.  Module XList, which follows the code, implements this *)
(* specification.                                                          *)
(***************************************************************************)
EXTENDS Naturals, Sequences, FiniteSets, SequencesExt

CONSTANTS
    Handle,         \* the variables of a program that hold a list
    Name,           \* names for what has been taken out
    Item,           \* what a list holds, records with a key, a type and a value
    NULL            \* no list

VARIABLES
    lists,          \* the list of each handle
    taken           \* the items taken out, by name

vars == <<lists, taken>>

Init ==
    /\ lists = [h \in Handle |-> NULL]
    /\ taken = [n \in {} |-> NULL]

\* The first position that has the key.
Hits(h, key)  == {k \in 1..Len(lists[h]) : lists[h][k].key = key}
FirstOf(S)    == CHOOSE k \in S : \A l \in S : k <= l

New(h) ==
    /\ lists[h] = NULL
    /\ lists' = [lists EXCEPT ![h] = << >>]
    /\ UNCHANGED taken

Put(h, k, item) ==
    /\ lists' = [lists EXCEPT ![h] = InsertAt(@, k, item)]
    /\ UNCHANGED taken

Change(h, key, value) ==
    /\ Hits(h, key) # {}
    /\ lists' = [lists EXCEPT ![h][FirstOf(Hits(h, key))].value = value]
    /\ UNCHANGED taken

\* The item at k leaves the list, for somebody or for good.
Take(h, k, n) ==
    /\ n \notin DOMAIN taken
    /\ lists' = [lists EXCEPT ![h] = RemoveAt(@, k)]
    /\ taken' = [m \in DOMAIN taken \cup {n} |->
                    IF m = n THEN lists[h][k] ELSE taken[m]]
Drop(h, k) ==
    /\ lists' = [lists EXCEPT ![h] = RemoveAt(@, k)]
    /\ UNCHANGED taken

TakeKey(h, key, n) == Hits(h, key) # {} /\ Take(h, FirstOf(Hits(h, key)), n)
DropKey(h, key)    == Hits(h, key) # {} /\ Drop(h, FirstOf(Hits(h, key)))

Forget(n) ==
    /\ n \in DOMAIN taken
    /\ taken' = [m \in DOMAIN taken \ {n} |-> taken[m]]
    /\ UNCHANGED lists

\* The list of g comes behind that of h.
Join(h, g) ==
    /\ h # g /\ lists[g] # NULL
    /\ lists' = [lists EXCEPT ![h] = @ \o lists[g], ![g] = NULL]
    /\ UNCHANGED taken

Truncate(h, k) ==
    /\ lists' = [lists EXCEPT ![h] = SubSeq(@, 1, k - 1)]
    /\ UNCHANGED taken

Clear(h) ==
    /\ lists' = [lists EXCEPT ![h] = << >>]
    /\ UNCHANGED taken

Delete(h) ==
    /\ lists' = [lists EXCEPT ![h] = NULL]
    /\ UNCHANGED taken

\* The first k items go.
Skip(h, k) ==
    /\ lists' = [lists EXCEPT ![h] = SubSeq(@, k + 1, Len(@))]
    /\ UNCHANGED taken

\* The same items in some order.
Arrange(h) ==
    /\ \E p \in [1..Len(lists[h]) -> 1..Len(lists[h])] :
          /\ IsInjective(p)
          /\ lists' = [lists EXCEPT ![h] = [k \in 1..Len(@) |-> @[p[k]]]]
    /\ UNCHANGED taken

\* g becomes a list with the same items, but that a string is another one.
Copy(h, g) ==
    /\ lists[g] = NULL /\ lists'[g] # NULL
    /\ lists' = [lists EXCEPT ![g] = lists'[g]]
    /\ DOMAIN lists'[g] = DOMAIN lists[h]
    /\ \A k \in 1..Len(lists[h]) :
          lists'[g][k] = IF lists[h][k].type # "STRING" THEN lists[h][k]
                         ELSE [lists[h][k] EXCEPT !.value = lists'[g][k].value]
    /\ UNCHANGED taken

OfList(h) ==
    \/ \E k \in 1..Len(lists[h]) + 1, item \in Item : Put(h, k, item)
    \/ \E k \in 1..Len(lists[h]) :
          Drop(h, k) \/ Truncate(h, k) \/ Skip(h, k) \/ \E n \in Name : Take(h, k, n)
    \/ \E g \in Handle : Join(h, g) \/ Copy(h, g)
    \/ \E item \in Item :
          \/ Change(h, item.key, item.value)
          \/ DropKey(h, item.key) \/ \E n \in Name : TakeKey(h, item.key, n)
    \/ Arrange(h) \/ Clear(h) \/ Delete(h)

Next ==
    \/ \E h \in Handle : New(h) \/ (lists[h] # NULL /\ OfList(h))
    \/ \E n \in Name : Forget(n)

Spec == Init /\ [][Next]_vars
=============================================================================
