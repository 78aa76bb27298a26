-------------------------------- MODULE Dpl --------------------------------
(***************************************************************************)
(* dpl_t, the list of a write transaction's dirty pages: a sorted head and *)
(* an unsorted tail that is merged into it when it gets long.  An item is  *)
(* the number of a page and how many pages it spans.  Items count from 1;  *)
(* the stubs items[0] and items[length + 1] compare as 0 and P_INVALID.    *)
(***************************************************************************)
EXTENDS Integers, Sequences, FiniteSets, SequencesExt

CONSTANTS
    dpl_insertion_threshold,    \* how far from the end an item is still inserted in order
    LinearLimit                 \* tails up to this length are searched item by item: 7

ASSUME DplAssumption == dpl_insertion_threshold \in Nat /\ LinearLimit \in Nat \ {0}

NewDpl == [items |-> <<>>, sorted |-> 0, pages |-> 0, room |-> 0]

Pgno(dl, i) == IF i = 0 THEN 0 ELSE dl.items[i].pgno
Below(a, b) == a.pgno < b.pgno

\* dp_bsearch in the sorted head: the first item that is not below pgno.
dp_bsearch(dl, pgno) ==
    1 + Cardinality({i \in 1 .. dl.sorted : dl.items[i].pgno < pgno})

-----------------------------------------------------------------------------
\* The loop of txn_dpl_sort_slowpath: two ordered parts are merged from their
\* ends; it is over when all that is left of the head is in its place.
RECURSIVE MergeParts(_, _)
MergeParts(head, tail) ==
    IF tail = <<>> THEN head
    ELSE IF head # <<>> /\ Last(head).pgno > Last(tail).pgno
    THEN Append(MergeParts(Front(head), tail), Last(head))
    ELSE Append(MergeParts(head, Front(tail)), Last(tail))

\* txn_dpl_sort_slowpath: a long head is kept and the sorted tail merged into
\* it, otherwise (and by dp_radixsort, if the tail is very long) all is sorted.
txn_dpl_sort(dl) ==
    LET n == Len(dl.items)
        unsorted == n - dl.sorted
        head == SubSeq(dl.items, 1, dl.sorted)
        tail == SortSeq(SubSeq(dl.items, dl.sorted + 1, n), Below)
    IN  IF unsorted = 0 THEN dl
        ELSE [dl EXCEPT !.sorted = n,
                        !.items = IF dl.sorted > unsorted \div 4 + 4
                                  THEN MergeParts(head, tail)
                                  ELSE SortSeq(@, Below)]

\* txn_dpl_search: the list it leaves, and the index of pgno or of a place
\* where something else is.
txn_dpl_search(dl, pgno) ==
    LET n == Len(dl.items)
        found == {i \in dl.sorted + 1 .. n : dl.items[i].pgno = pgno}
        whole == txn_dpl_sort(dl)
    IN  IF n - dl.sorted > LinearLimit
        THEN [dl |-> whole, at |-> dp_bsearch(whole, pgno)]
        ELSE [dl |-> dl, at |-> IF found # {} THEN CHOOSE i \in found : TRUE
                                ELSE dp_bsearch(dl, pgno)]

\* debug_txn_dpl_find: the same without sorting.
debug_txn_dpl_find(dl, pgno) ==
    \/ \E i \in dl.sorted + 1 .. Len(dl.items) : dl.items[i].pgno = pgno
    \/ LET i == dp_bsearch(dl, pgno)
       IN  dl.sorted > 0 /\ i <= Len(dl.items) /\ dl.items[i].pgno = pgno

\* txn_dpl_remove_ex of the item at i.
txn_dpl_remove_ex(dl, i) ==
    [dl EXCEPT !.pages = @ - dl.items[i].npages,
               !.sorted = IF @ >= i THEN @ - 1 ELSE @,
               !.items = RemoveAt(@, i)]

\* txn_dpl_append: into the sorted head if the tail is short and the place
\* close to the end of the head, else behind the tail.
txn_dpl_append(dl, dp) ==
    LET n == Len(dl.items)
        pivot == n - dpl_insertion_threshold
        place == Cardinality({i \in 1 .. dl.sorted : dl.items[i].pgno < dp.pgno})
        ordered == pivot <= dl.sorted /\ Pgno(dl, IF pivot < 0 THEN 0 ELSE pivot) < dp.pgno
    IN  [dl EXCEPT !.pages = @ + dp.npages,
                   !.sorted = IF ordered THEN @ + 1 ELSE @,
                   !.items = IF ordered THEN InsertAt(@, place + 1, dp) ELSE Append(@, dp)]

\* txn_dpl_sift: every page of an ascending list leaves the dirty list.  The
\* scan loop and the update loop walk through both lists side by side; kept is
\* what was written so far, r and i are the places reached.
RECURSIVE SiftAt(_, _, _, _, _)
SiftAt(dl, pl, r, i, kept) ==
    IF r > Len(dl.items) \/ i > Len(pl)
    THEN kept \o SubSeq(dl.items, r, Len(dl.items))
    ELSE IF dl.items[r].pgno < pl[i] THEN SiftAt(dl, pl, r + 1, i, Append(kept, dl.items[r]))
    ELSE IF dl.items[r].pgno > pl[i] THEN SiftAt(dl, pl, r, i + 1, kept)
    ELSE SiftAt(dl, pl, r + 1, i + 1, kept)

Span(items) == FoldLeft(LAMBDA sum, dp : sum + dp.npages, 0, items)

txn_dpl_sift(dl, pl) ==
    LET all == txn_dpl_sort(dl)
        r == txn_dpl_search(all, pl[1]).at
        left == SiftAt(all, pl, r, 1, SubSeq(all.items, 1, r - 1))
    IN  IF pl = <<>> \/ dl.items = <<>> THEN dl
        ELSE [items |-> left, sorted |-> Len(left),
              pages |-> dl.pages - (Span(all.items) - Span(left)),
              room |-> dl.room + Len(all.items) - Len(left)]

\* txn_dpl_check, of what it says of the list itself.
txn_dpl_check(dl) ==
    /\ dl.sorted <= Len(dl.items)
    /\ dl.pages = Span(dl.items)
    /\ \A i \in 1 .. dl.sorted - 1 :
            dl.items[i + 1].pgno >= dl.items[i].pgno + dl.items[i].npages
=============================================================================
