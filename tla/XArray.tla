------------------------------- MODULE XArray -------------------------------
(* The growing arrays of afx/xarray.cpp: an array of pointers to cells of a  *)
(* fixed size, one for indices from zero on and one for negative ones, and   *)
(* the array of two dimensions whose elements are such arrays.               *)
EXTENDS Integers, Sequences, SequencesExt

CONSTANTS
    CELL_SIZE,      \* elements of a cell
    PtrSize,        \* bytes of a pointer: 8
    CountMod,       \* array_count is an unsigned short: 2^16
    Index,          \* first indices
    Index2,         \* second ones
    Element,
    Zero,           \* what xmalloc's cleared bytes are read as: 0, or a null pointer
    MaxSets         \* bound on the calls of xarray2_set

ASSUME CellAssumption == CELL_SIZE \in Nat \ {0} /\ PtrSize \in Nat \ {0} /\ CountMod \in Nat \ {0}

\* An xarray_pos whose elements are of S, an xarray of elements: no null pointer is one.
Pointers(S) == [cells : Seq([0..(CELL_SIZE - 1) -> S]), array_size : Nat, size : Nat]
Rows2 == [positive : Pointers(Element \cup {Zero}), nagetive : Pointers(Element \cup {Zero})]

ASSUME IndexAssumption == Index \subseteq Int /\ Index2 \subseteq Int /\ Zero \notin Rows2

VARIABLES
    arr2,           \* the array of arrays
    stuck,          \* a call of xarrayp_set that never returns
    sets            \* the calls of xarray2_set, in order (history)

arrayVars == << arr2, stuck, sets >>

Greater(a, b) == IF a > b THEN a ELSE b
RoundUp(n) == ((n + CELL_SIZE - 1) \div CELL_SIZE) * CELL_SIZE

xarrayp_alloc == [cells |-> << >>, array_size |-> 0, size |-> 0]
array_count(arrp) == Len(arrp.cells)
NewCell == [j \in 0..(CELL_SIZE - 1) |-> Zero]

\* A slip that the code does not make: the size is the last index.
FaultSizeIsIndex(arrp, i, v) ==
    LET idx == i \div CELL_SIZE
        needsize == (idx + 1) * PtrSize
        count == Greater(array_count(arrp), idx + 1)
        cells == [k \in 1..count |-> IF k <= array_count(arrp) THEN arrp.cells[k] ELSE NewCell]
    IN [cells |-> [cells EXCEPT ![idx + 1][i % CELL_SIZE] = v],
        array_size |-> IF needsize > arrp.array_size THEN RoundUp(needsize) ELSE arrp.array_size,
        size |-> Greater(arrp.size, i)]

\* The pointers are given room, rounded up, as soon as they need more; all cells up to
\* the one that is asked for are made.
xarrayp_set(arrp, i, v) ==
    LET idx == i \div CELL_SIZE
        needsize == (idx + 1) * PtrSize
        count == Greater(array_count(arrp), idx + 1)
        cells == [k \in 1..count |-> IF k <= array_count(arrp) THEN arrp.cells[k] ELSE NewCell]
    IN [cells |-> [cells EXCEPT ![idx + 1][i % CELL_SIZE] = v],
        array_size |-> IF needsize > arrp.array_size THEN RoundUp(needsize) ELSE arrp.array_size,
        size |-> Greater(arrp.size, i + 1)]

\* The counter of cells cannot get beyond the index of the cell: the loop goes on.
NeverReturns(i) == i \div CELL_SIZE >= CountMod - 1

xarrayp_get(arrp, i) ==
    IF i >= arrp.size THEN << 0, Zero >>
    ELSE << 1, arrp.cells[i \div CELL_SIZE + 1][i % CELL_SIZE] >>

-----------------------------------------------------------------------------

xarray_alloc == [positive |-> xarrayp_alloc, nagetive |-> xarrayp_alloc]
Abs(i) == IF i < 0 THEN - i ELSE i
Of(arr, i) == IF i < 0 THEN arr.nagetive ELSE arr.positive
xarray_set(arr, i, v) ==
    IF i < 0 THEN [arr EXCEPT !.nagetive = xarrayp_set(@, - i, v)]
    ELSE [arr EXCEPT !.positive = xarrayp_set(@, i, v)]
xarray_get(arr, i) == xarrayp_get(Of(arr, i), Abs(i))
xarray_left_right(arr) == << - arr.nagetive.size, arr.positive.size >>

xarray2_get(i, j) ==
    LET arr == xarray_get(arr2, i)
    IN IF arr[2] = Zero THEN << 0, Zero >> ELSE xarray_get(arr[2], j)

xarray2_left_right == xarray_left_right(arr2)
xarray2_bottom_top(i) ==
    LET arr == xarray_get(arr2, i)
    IN IF arr[2] = Zero THEN << 0, 0 >> ELSE xarray_left_right(arr[2])

-----------------------------------------------------------------------------

ArrayInit ==
    /\ arr2 = xarray_alloc
    /\ stuck = FALSE /\ sets = << >>

xarray2_set(i, j, v) ==
    LET old == xarray_get(arr2, i)[2]
        arr == IF old = Zero THEN xarray_alloc ELSE old
    IN
    /\ Len(sets) < MaxSets /\ ~ stuck
    /\ IF NeverReturns(Abs(i)) \/ NeverReturns(Abs(j))
       THEN stuck' = TRUE /\ UNCHANGED << arr2, sets >>
       ELSE /\ arr2' = xarray_set(arr2, i, xarray_set(arr, j, v))
            /\ sets' = Append(sets, << i, j, v >>)
            /\ UNCHANGED stuck

xarray2_free ==
    /\ ~ stuck
    /\ arr2' = xarray_alloc
    /\ sets' = << >>
    /\ UNCHANGED stuck

ArrayNext ==
    \/ \E i \in Index, j \in Index2, v \in Element : xarray2_set(i, j, v)
    \/ xarray2_free

ArraySpec == ArrayInit /\ [][ArrayNext]_arrayVars

-----------------------------------------------------------------------------

Same(i, k) == (i < 0) = (k < 0)
SetsOf(i, j) == {n \in DOMAIN sets : sets[n][1] = i /\ sets[n][2] = j}
RowSets(i) == {n \in DOMAIN sets : sets[n][1] = i}
LastValue(i, j) == sets[CHOOSE n \in SetsOf(i, j) : \A m \in SetsOf(i, j) : m <= n][3]
Farthest(m, ns) ==
    LET out == {Abs(sets[n][m]) + 1 : n \in ns}
    IN IF out = {} THEN 0 ELSE CHOOSE r \in out : \A s \in out : s <= r
Limits(m, ns) == << - Farthest(m, {n \in ns : sets[n][m] < 0}),
                    Farthest(m, {n \in ns : sets[n][m] >= 0}) >>

Roomy(arrp) == array_count(arrp) * PtrSize <= arrp.array_size

\* In whatever order elements of whatever row and sign are set: an element reads as it
\* was last set; one that was not, as zero, and as missing when no element so far out has
\* been set in its row on its side of zero; the limits of the array and of a row are those
\* of the sets so far; and the pointers to the cells never take more than the room they
\* have (xarrayp_set, xarray.cpp:50, grows it by need).
ArrayReads ==
    /\ \A i \in Index, j \in Index2 :
          LET got == xarray2_get(i, j)
              out == {n \in RowSets(i) : Same(sets[n][2], j) /\ Abs(sets[n][2]) >= Abs(j)}
          IN /\ got[1] = IF out = {} THEN 0 ELSE 1
             /\ got[2] = IF SetsOf(i, j) = {} THEN Zero ELSE LastValue(i, j)
    /\ xarray2_left_right = Limits(1, DOMAIN sets)
    /\ \A i \in Index : xarray2_bottom_top(i) = Limits(2, RowSets(i))
    /\ Roomy(arr2.positive) /\ Roomy(arr2.nagetive)
    /\ \A i \in Index : xarray_get(arr2, i)[2] # Zero =>
          Roomy(xarray_get(arr2, i)[2].positive) /\ Roomy(xarray_get(arr2, i)[2].nagetive)
=============================================================================
