-------------------------------- MODULE Rkl --------------------------------
(***************************************************************************)
(* rkl_t, the set of transaction numbers in which a write transaction      *)
(* keeps the GC records it took, may use again or has put back: an         *)
(* interval solid_begin .. solid_end - 1 and an ascending list of the      *)
(* numbers outside it, together with the iterator that walks through the   *)
(* numbers and through the holes between them.                             *)
(*                                                                         *)
(* Positions count from 0 as in the code, so that list[pos] of the code is *)
(* r.list[pos + 1].  The growth of the list's buffer is left out.          *)
(***************************************************************************)
EXTENDS Integers, Sequences, FiniteSets

CONSTANTS
    MAX_TXNID,      \* the number no record has
    RklSwapFrom,    \* a list longer than this may give a run away: 16 or, in debug, 2
    RklEager        \* MDBX_DEBUG > 0: it always does

ASSUME RklAssumption == MAX_TXNID \in Nat /\ RklSwapFrom \in Nat /\ RklEager \in BOOLEAN

\* rkl_init, rkl_clear: solid_begin = UINT64_MAX > solid_end = 0.
NewRkl == [begin |-> MAX_TXNID + 1, end |-> 0, list |-> <<>>]

rkl_empty(r) == r.begin > r.end
solid_empty(r) == r.begin >= r.end
solid_len(r) == r.end - r.begin
rkl_len(r) == IF rkl_empty(r) THEN 0 ELSE solid_len(r) + Len(r.list)

\* The position of the first element of an ordered list that is not below id.
rkl_bsearch(list, id) == Cardinality({k \in 1 .. Len(list) : list[k] < id})

rkl_contain(r, id) ==
    \/ id >= r.begin /\ id < r.end
    \/ LET it == rkl_bsearch(r.list, id) IN it < Len(r.list) /\ r.list[it + 1] = id

-----------------------------------------------------------------------------
(* rkl_push.                                                               *)

Done(r) == [rc |-> "SUCCESS", r |-> r]
Duplicate(r) == [rc |-> "RESULT_TRUE", r |-> r]

\* The loops of extend_solid: the elements next to the interval move into it.
RECURSIVE ExtendDown(_, _, _)
ExtendDown(list, f, begin) ==
    IF f > 0 /\ list[f] >= begin - 1
    THEN IF list[f] # begin - 1 THEN [ok |-> FALSE]
         ELSE ExtendDown(list, f - 1, begin - 1)
    ELSE [ok |-> TRUE, at |-> f, edge |-> begin]

RECURSIVE ExtendUp(_, _, _)
ExtendUp(list, t, end) ==
    IF t < Len(list) /\ list[t + 1] <= end
    THEN IF list[t + 1] # end THEN [ok |-> FALSE]
         ELSE ExtendUp(list, t + 1, end + 1)
    ELSE [ok |-> TRUE, at |-> t, edge |-> end]

extend_solid(r, begin, end, id) ==
    LET i == rkl_bsearch(r.list, id)
        down == ExtendDown(r.list, i, begin)
        up == ExtendUp(r.list, i, end)
    IN  IF ~down.ok \/ ~up.ok THEN Duplicate(r)
        ELSE Done([begin |-> down.edge, end |-> up.edge,
                   list |-> SubSeq(r.list, 1, down.at)
                               \o SubSeq(r.list, up.at + 1, Len(r.list))])

\* An element that is in the list already: those above it were moved up by one
\* place and move down again, all but the last.
PushDuplicate(r, i) ==
    Duplicate([r EXCEPT !.list =
        [k \in DOMAIN @ |-> IF k = Len(@) /\ k > i + 1 THEN @[k - 1] ELSE @[k]]])

\* The run of consecutive numbers around position i of a list.
RECURSIVE RunFrom(_, _)
RunFrom(list, i) ==
    IF i > 0 /\ list[i] = list[i + 1] - 1 THEN RunFrom(list, i - 1) ELSE i
RECURSIVE RunTo(_, _)
RunTo(list, i) ==
    IF i < Len(list) /\ list[i + 1] = list[i] + 1 THEN RunTo(list, i + 1) ELSE i

\* Mutant: the old interval is put in front of what lies between it and the run.
SwapSolidBefore(r, from, to) ==
    [begin |-> r.list[from + 1], end |-> r.list[to] + 1,
     list |-> SubSeq(r.list, 1, from) \o [k \in 1 .. solid_len(r) |-> r.begin + k - 1]
                 \o SubSeq(r.list, to + 1, Len(r.list))]

\* The run from .. to - 1 of the list changes places with the interval: the
\* three ways in which the rest of the list is moved around the old interval.
SwapSolid(r, from, to) ==
    LET n == Len(r.list)
        pos == rkl_bsearch(r.list, r.begin)
        old == [k \in 1 .. solid_len(r) |-> r.begin + k - 1]
        part(a, b) == SubSeq(r.list, a + 1, b)
        list == IF from > pos
                THEN part(0, pos) \o old \o part(pos, from) \o part(to, n)
                ELSE IF from + (to - from) < pos
                THEN part(0, from) \o part(to, pos) \o old \o part(pos, n)
                ELSE part(0, from) \o old \o part(to, n)
    IN  [begin |-> r.list[from + 1], end |-> r.list[to] + 1, list |-> list]

\* Whether the exchange is cheaper than the next insertion at i would be.
SwapPays(r, from, to, i) ==
    LET pos == rkl_bsearch(r.list, r.begin)
        cost == Len(r.list) - to + (IF from > pos THEN from - pos ELSE 0) + solid_len(r)
    IN  /\ to - from > 3
        /\ to - from > solid_len(r)
        /\ cost < Len(r.list) - i \/ RklEager

\* Insertion at position i, and the exchange it may make worth while.
PushList(r, id, i) ==
    LET s == [r EXCEPT !.list = SubSeq(@, 1, i) \o <<id>> \o SubSeq(@, i + 1, Len(@))]
        n == Len(s.list)
        from == RunFrom(s.list, i)
        to == RunTo(s.list, i + 1)
    IN  Done(IF /\ n > RklSwapFrom
                /\ to - from > 1
                /\ SwapPays(s, from, to, i)
             THEN SwapSolid(s, from, to)
             ELSE s)

rkl_push(r, id) ==
    LET i == Cardinality({k \in 1 .. Len(r.list) : r.list[k] <= id})
    IN  CASE solid_empty(r) -> extend_solid(r, id, id + 1, id)
          [] ~solid_empty(r) /\ id + 1 = r.begin -> extend_solid(r, id, r.end, id)
          [] ~solid_empty(r) /\ id = r.end -> extend_solid(r, r.begin, id + 1, id)
          [] ~solid_empty(r) /\ id \in r.begin .. r.end - 1 -> Duplicate(r)
          [] OTHER ->
                IF /\ Len(r.list) = 1 /\ r.end = r.begin + 1
                   /\ r.list[1] \in {id - 1, id + 1}
                THEN LET couple == IF r.list[1] = id - 1 THEN id - 1 ELSE id
                     IN  Done([begin |-> couple, end |-> couple + 2, list |-> <<r.begin>>])
                ELSE IF i > 0 /\ r.list[i] = id THEN PushDuplicate(r, i)
                ELSE PushList(r, id, i)

-----------------------------------------------------------------------------
(* The ends.                                                               *)

after_cut(r) == IF r.list = <<>> /\ r.begin = r.end THEN NewRkl ELSE r

\* rkl_pop: what is left; the number itself is rkl_lowest or rkl_highest.
PopHighest(r) ==
    LET n == Len(r.list)
    IN  IF n > 0 /\ (solid_empty(r) \/ r.end < r.list[n])
        THEN [id |-> r.list[n], r |-> after_cut([r EXCEPT !.list = SubSeq(@, 1, n - 1)])]
        ELSE IF ~solid_empty(r)
        THEN [id |-> r.end - 1, r |-> after_cut([r EXCEPT !.end = @ - 1])]
        ELSE [id |-> 0, r |-> r]

PopLowest(r) ==
    IF r.list # <<>> /\ (solid_empty(r) \/ r.begin > r.list[1])
    THEN [id |-> r.list[1], r |-> after_cut([r EXCEPT !.list = Tail(@)])]
    ELSE IF ~solid_empty(r)
    THEN [id |-> r.begin, r |-> after_cut([r EXCEPT !.begin = @ + 1])]
    ELSE [id |-> 0, r |-> r]

rkl_pop(r, highest) == IF highest THEN PopHighest(r) ELSE PopLowest(r)

rkl_lowest(r) ==
    IF r.list # <<>> /\ (solid_empty(r) \/ r.list[1] < r.begin) THEN r.list[1]
    ELSE IF ~solid_empty(r) THEN r.begin ELSE MAX_TXNID + 1

rkl_highest(r) ==
    LET n == Len(r.list)
    IN  IF n > 0 /\ (solid_empty(r) \/ r.list[n] >= r.end) THEN r.list[n]
        ELSE IF ~solid_empty(r) THEN r.end - 1 ELSE 0

\* rkl_merge: the list from its end, then the interval; the first error stops it.
RECURSIVE MergeSolid(_, _, _)
MergeSolid(src, dst, id) ==
    IF id >= src.end THEN Done(dst)
    ELSE LET next == rkl_push(dst, id)
         IN  IF next.rc = "SUCCESS" THEN MergeSolid(src, next.r, id + 1) ELSE next
RECURSIVE MergeList(_, _, _)
MergeList(src, dst, i) ==
    IF i = 0 THEN MergeSolid(src, dst, src.begin)
    ELSE LET next == rkl_push(dst, src.list[i])
         IN  IF next.rc = "SUCCESS" THEN MergeList(src, next.r, i - 1) ELSE next
rkl_merge(src, dst) == MergeList(src, dst, Len(src.list))

-----------------------------------------------------------------------------
(* The iterator: a position, and the number of list elements in front of   *)
(* the interval.                                                           *)

rkl_iterator(r, reverse) ==
    [pos |-> IF reverse THEN rkl_len(r) ELSE 0,
     off |-> IF solid_empty(r) \/ r.list = <<>> THEN 0
             ELSE rkl_bsearch(r.list, r.begin)]

rkl_find(r, id) ==
    LET it == rkl_iterator(r, FALSE)
        base == IF id >= r.begin THEN solid_len(r) ELSE 0
    IN  IF id >= r.begin /\ id < r.end
        THEN [it EXCEPT !.pos = it.off + id - r.begin]
        ELSE [it EXCEPT !.pos = base + rkl_bsearch(r.list, id)]

\* rkl_turn: the number at the next position, or 0 at the end.
rkl_turn(r, it, reverse) ==
    LET pos == IF reverse THEN it.pos - 1 ELSE it.pos
        id == IF r.list = <<>> THEN r.begin + pos
              ELSE IF pos < it.off THEN r.list[pos + 1]
              ELSE IF pos < it.off + solid_len(r) THEN r.begin + pos - it.off
              ELSE r.list[pos - solid_len(r) + 1]
    IN  IF pos \notin 0 .. rkl_len(r) - 1 THEN [id |-> 0, it |-> it]
        ELSE [id |-> id, it |-> [it EXCEPT !.pos = IF reverse THEN pos ELSE pos + 1]]

Hole(begin, end, it, pos) ==
    [begin |-> begin, end |-> end, it |-> [it EXCEPT !.pos = pos]]

\* The loop of rkl_hole when the list is not empty.
RECURSIVE HoleAt(_, _, _, _)
HoleAt(r, it, reverse, pos) ==
    LET len == rkl_len(r)
        solid == solid_len(r)
        before == pos < it.off
        after == pos >= it.off + solid
        next == IF before \/ after THEN (IF reverse THEN pos - 1 ELSE pos + 1)
                ELSE IF reverse THEN it.off - 1 ELSE it.off + solid
        here == CASE before -> r.list[pos + 1]
                  [] after -> IF pos < len THEN r.list[pos - solid + 1] ELSE MAX_TXNID
                  [] OTHER -> IF reverse THEN r.begin ELSE r.end - 1
        there == IF next < it.off THEN r.list[next + 1] ELSE r.list[next - solid + 1]
        begin == (IF reverse THEN there ELSE here) + 1
        end == IF reverse THEN here ELSE there
    IN  IF before /\ next = it.off
        THEN Hole(here + 1, r.begin, it, next + solid - 1)
        ELSE IF next \notin 0 .. len - 1
        THEN IF reverse THEN Hole(1, here, it, 0) ELSE Hole(here + 1, MAX_TXNID, it, len)
        ELSE IF after /\ next = it.off + solid - 1
        THEN Hole(r.end, here, it, it.off)
        ELSE IF begin < end THEN Hole(begin, end, it, next)
        ELSE HoleAt(r, it, reverse, next)

\* rkl_hole: the next hole from the iterator's position on.
rkl_hole(r, it, reverse) ==
    LET len == rkl_len(r)
    IN  IF len = 0 THEN Hole(1, MAX_TXNID, it, 0)
        ELSE IF it.pos >= len /\ ~(it.pos = len /\ reverse)
        THEN IF reverse THEN Hole(1, 1, it, 0) ELSE Hole(MAX_TXNID, MAX_TXNID, it, len)
        ELSE IF r.list # <<>> THEN HoleAt(r, it, reverse, it.pos)
        ELSE IF reverse /\ it.pos < len THEN Hole(1, r.begin, it, 0)
        ELSE Hole(r.end, MAX_TXNID, it, IF reverse THEN 0 ELSE len)

\* rkl_check, without what it says of the buffer.
rkl_check(r) ==
    LET n == Len(r.list)
        it == rkl_bsearch(r.list, r.begin)
    IN  IF rkl_empty(r) THEN r.list = <<>>
        ELSE /\ \A k \in 2 .. n : r.list[k - 1] < r.list[k]
             /\ (/\ n > 0 /\ ~solid_empty(r)
                 /\ r.begin - 1 <= r.list[n] /\ r.end >= r.list[1])
                => /\ it > 0 => r.list[it] < r.begin
                   /\ it < n => r.list[it + 1] > r.end
=============================================================================
