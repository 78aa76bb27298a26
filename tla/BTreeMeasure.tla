---------------------------- MODULE BTreeMeasure ----------------------------
(***************************************************************************)
(* What the cursors of a table tell of the rows between them: compare,     *)
(* distance, scroll, distribute, the estimates, scans and batches.  All of *)
(* it is computed from the stacks, level by level, without visiting the    *)
(* rows.                                                                   *)
(*                                                                         *)
(* Levels count from 1, at the root; the API counts from 0.  A cursor of 0 *)
(* stands for NULL.  Nested cursors of MDBX_DUPSORT are left out.          *)
(***************************************************************************)
EXTENDS BTreeCursors

CONSTANT Scrolls  \* the amounts given to mdbx_cursor_scroll

-----------------------------------------------------------------------------
(* Two stacks of one tree. *)

Same     == 0
Inverted == -1

(* tree_diff_level: the level nearest to the root at which the cursors part. *)
tree_diff_level(x, y) ==
  LET apart == {i \in 1..x.top : x.ki[i] # y.ki[i]}
  IN  IF apart = {} THEN Same
      ELSE IF x.ki[Min(apart)] < y.ki[Min(apart)] THEN Min(apart) ELSE Inverted

(* cursor_cmp, and mdbx_cursor_compare of two cursors with a place. *)
cursor_cmp(x, y) ==
  LET apart == {i \in 1..Min({x.top, y.top}) : x.ki[i] # y.ki[i]}
  IN  IF apart = {} THEN 0 ELSE x.ki[Min(apart)] - y.ki[Min(apart)]

Incomparable == 32768

mdbx_cursor_compare(x, y) ==
  IF x.top = 0 \/ y.top = 0
  THEN (IF x.top = 0 THEN 0 ELSE 4 * Incomparable) - (IF y.top = 0 THEN 0 ELSE 4 * Incomparable)
  ELSE cursor_cmp(x, y)

cursor_on_first(c) == \A i \in 1..c.top : c.ki[i] = 0

OnLastFrom(s, c, l) == \A i \in l..c.top : c.ki[i] >= NumKeys(s, c.pg[i]) - 1

cursor_on_last(s, c) == OnLastFrom(s, c, 1)

(* mc->top_and_stash = level *)
CutStack(c, l) ==
  IF l < c.top THEN [c EXCEPT !.top = l, !.pg = SubSeq(@, 1, l), !.ki = SubSeq(@, 1, l)] ELSE c

Eof(c) == "eof_hard" \in c.f

(* What the application is told of one cursor. *)
mdbx_cursor_on_first(s, m) == cursor_on_first(s.cur[m])
mdbx_cursor_on_last(s, m)  == cursor_on_last(s, s.cur[m])
mdbx_cursor_eof(s, m)      == {"eof_soft", "eof_hard", "hollow"} \cap s.cur[m].f # {}

-----------------------------------------------------------------------------
(* Distance.  The answer is a record: the code and the distance. *)

Far(rc, d) == [rc |-> rc, d |-> d]

(* The index at level l; a cursor past the rows is one row further. *)
IndexAt(s, c, l) == c.ki[l] + IF Eof(c) /\ l = s.height THEN 1 ELSE 0

RECURSIVE Beyond(_, _, _, _)
(* From the page on the right of it to the page of y. *)
Beyond(s, it, y, d) ==
  LET side == cursor_sibling_right(s, it)
      l    == it.top
      p    == side.c.pg[l]
  IN  IF ~side.ok THEN Far("NOTFOUND", d)
      ELSE IF p = y.pg[l] THEN Far("OK", d + IndexAt(s, y, l))
      ELSE Beyond(s, side.c, y, d + NumKeys(s, p))

(* cursor_distance_at *)
cursor_distance_at(s, x, y, level) ==
  LET it == CutStack(x, level)
      l  == it.top
  IN  IF it.pg[l] = y.pg[l] THEN Far("OK", IndexAt(s, y, l) - IndexAt(s, x, l))
      ELSE Beyond(s, it, y, NumKeys(s, it.pg[l]) - IndexAt(s, x, l))

(* cursor_distance *)
cursor_distance(s, x, y, level) ==
  LET l == tree_diff_level(x, y)
  IN  IF l = Inverted THEN Far("ENODATA", 0)
      ELSE IF level < l THEN Far("OK", 0)
      ELSE cursor_distance_at(s, x, y, level)

(* A missing cursor is a clone of the other one, at the end of the table. *)
EndOf(s, m, first) ==
  LET a == cursor_brim(Clone(s, m), Len(s.cur) + 1, first)
  IN  a.cur[Len(s.cur) + 1]

(* mdbx_cursor_distance *)
SignedDistance(s, x, y, level) ==
  LET cmp == cursor_cmp(x, y)
      r   == IF cmp > 0 THEN cursor_distance(s, y, x, level) ELSE cursor_distance(s, x, y, level)
  IN  IF cmp = 0 /\ Eof(x) # Eof(y) THEN Far("OK", IF Eof(y) THEN 1 ELSE -1)
      ELSE [r EXCEPT !.d = IF cmp > 0 THEN -@ ELSE @]

mdbx_cursor_distance(s, b, e, level) ==
  IF \E m \in {b, e} \ {0} : Top(s, m) = 0 THEN Far("ENODATA", 0)
  ELSE SignedDistance(s, IF b = 0 THEN EndOf(s, e, TRUE) ELSE s.cur[b],
                         IF e = 0 THEN EndOf(s, b, FALSE) ELSE s.cur[e], level)

-----------------------------------------------------------------------------
(* Scrolling. *)

\* Mutant: the step to the next page forgets where on its page the cursor stood.
RECURSIVE RightFromStart(_, _, _)
RightFromStart(s, it, d) ==
  LET step == NumKeys(s, it.pg[it.top])
      side == cursor_sibling_right(s, it)
  IN  IF d + it.ki[it.top] < step THEN [ok |-> TRUE, c |-> [it EXCEPT !.ki[it.top] = @ + d]]
      ELSE IF side.ok THEN RightFromStart(s, side.c, d - step) ELSE side

RECURSIVE Right(_, _, _)
(* Over whole pages to the right, or to the left. *)
Right(s, it, d) ==
  LET step == NumKeys(s, it.pg[it.top]) - it.ki[it.top]
      side == cursor_sibling_right(s, it)
  IN  IF d < step THEN [ok |-> TRUE, c |-> [it EXCEPT !.ki[it.top] = @ + d]]
      ELSE IF side.ok THEN Right(s, side.c, d - step) ELSE side

RECURSIVE Left(_, _, _)
Left(s, it, d) ==
  LET ki   == it.ki[it.top]
      side == cursor_sibling_left(s, it)
  IN  IF d <= ki THEN [ok |-> TRUE, c |-> [it EXCEPT !.ki[it.top] = @ - d]]
      ELSE IF side.ok THEN Left(s, side.c, d - (ki + 1)) ELSE side

ScrolledTo(s, m, r, how) ==
  IF r.ok THEN [s EXCEPT !.cur[m] = be_filled(Descend(s, r.c, how, NullKey)), !.rc = "OK"]
  ELSE Ret([s EXCEPT !.cur[m] = r.c], "NOTFOUND")

(* cursor_scroll_forward, cursor_forward_at *)
cursor_scroll_forward(s, m, amount, level) ==
  ScrolledTo(s, m, Right(s, CutStack(s.cur[m], level), amount), "first")

(* cursor_scroll_backward, cursor_backward_at *)
cursor_scroll_backward(s, m, amount, level) ==
  ScrolledTo(s, m, Left(s, CutStack(s.cur[m], level), amount), "last")

(* mdbx_cursor_scroll *)
mdbx_cursor_scroll(s, m, amount, level) ==
  IF Top(s, m) = 0 THEN Ret(s, "ENODATA")
  ELSE IF amount > 0 THEN cursor_scroll_forward(s, m, amount, level)
  ELSE IF amount < 0 THEN cursor_scroll_backward(s, m, -amount, level)
  ELSE s

-----------------------------------------------------------------------------
(* Distribution. *)

CeilDiv(a, b) == (a + b - 1) \div b

RECURSIVE Share(_, _, _, _, _, _, _)
(* The cursor it goes from begin towards y and leaves a copy of itself in   *)
(* every place of the array; placed is what the array holds so far.        *)
Share(s, it, y, level, n, left, placed) ==
  LET amount == CeilDiv(left, n - Len(placed))
      go     == cursor_scroll_forward([s EXCEPT !.cur = <<it>>], 1, amount, level)
      over   == go.rc # "OK" \/ cursor_cmp(go.cur[1], y) > 0
      at     == IF over THEN be_poor(go.cur[1]) ELSE go.cur[1]
  IN  IF Len(placed) = n THEN placed
      ELSE IF left <= 0 THEN Share(s, it, y, level, n, 0, Append(placed, be_poor(it)))
      ELSE Share(s, at, y, level, n, IF over THEN 0 ELSE left - amount, Append(placed, at))

(* cursor_distribute over an array of n other cursors: the code and what   *)
(* the array holds, nothing when it was left alone.                        *)
Dealt(rc, array) == [rc |-> rc, array |-> array]

DealtOut(array) ==
  Dealt(IF \E i \in DOMAIN array : array[i].top = 0 THEN "RESULT_TRUE" ELSE "OK", array)

cursor_distribute(s, x, y, n, level) ==
  LET l   == tree_diff_level(x, y)
      far == cursor_distance(s, x, y, level)
  IN  IF l = Inverted THEN Dealt("ENODATA", <<>>)
      ELSE IF level < l \/ l = Same THEN Dealt("RESULT_TRUE", <<>>)
      ELSE IF far.rc # "OK" THEN Dealt(far.rc, <<>>)
      ELSE DealtOut(Share(s, x, y, level, n, far.d, <<>>))

(* mdbx_cursor_distribute *)
mdbx_cursor_distribute(s, b, e, n, level) ==
  IF \E m \in {b, e} \ {0} : Top(s, m) = 0 THEN Dealt("ENODATA", <<>>)
  ELSE cursor_distribute(s, IF b = 0 THEN EndOf(s, e, TRUE) ELSE s.cur[b],
                            IF e = 0 THEN EndOf(s, b, FALSE) ELSE s.cur[e], n, level)

-----------------------------------------------------------------------------
(* Estimation, in trees of up to three levels. *)

Sign(z) == IF z > 0 THEN 1 ELSE IF z < 0 THEN -1 ELSE 0

RECURSIVE Deeper(_, _, _, _, _)
(* Neighbouring twigs: the difference is taken one level deeper. *)
Deeper(s, x, y, l, d) ==
  LET n == Min({x.top, y.top})
      wide(c) == NumKeys(s, c.pg[l + 1])
  IN  IF l = n \/ d \notin {1, -1} THEN [d |-> d, l |-> l]
      ELSE IF d = 1 THEN Deeper(s, x, y, l + 1, (wide(y) - y.ki[l + 1]) + x.ki[l + 1])
      ELSE Deeper(s, x, y, l + 1, -(wide(x) - x.ki[l + 1]) - y.ki[l + 1])

(* cursor_diff: x - y and the level at which it was taken. *)
cursor_diff(s, x, y) ==
  LET apart == {i \in 1..Min({x.top, y.top}) : x.ki[i] # y.ki[i]}
      eof(c) == IF Eof(c) THEN 1 ELSE 0
  IN  IF apart = {} THEN [d |-> eof(x) - eof(y), l |-> Min({x.top, y.top}) + 1]
      ELSE Deeper(s, x, y, Min(apart), x.ki[Min(apart)] - y.ki[Min(apart)])

(* C divides towards zero. *)
Quot(a, b) == IF a < 0 THEN -((-a) \div b) ELSE a \div b

leaf_pages(s) == Cardinality({p \in DOMAIN s.pages : s.pages[p].leaf})

(* estimate *)
estimate(s, dr) ==
  LET power == s.height - 1 - dr.l
  IN  IF power < 0 THEN dr.d
      ELSE IF power = 0 THEN Quot(s.items * dr.d, leaf_pages(s))
      ELSE Quot(s.items * dr.d, NumKeys(s, s.root))

(* mdbx_estimate_distance *)
mdbx_estimate_distance(s, x, y) ==
  LET dr == cursor_diff(s, y, x)
  IN  IF x.top = 0 \/ y.top = 0 THEN Far("ENODATA", 0)
      ELSE Far("OK", IF dr.d = 0 THEN 0 ELSE estimate(s, dr))

(* mdbx_estimate_move *)
EstimateMoved(s, m, a, op) ==
  LET y == IF op = "LAST" THEN [a.cur[1] EXCEPT !.f = @ \cup {"eof_hard"}] ELSE a.cur[1]
  IN  IF a.rc # "OK" /\ (a.rc # "NOTFOUND" \/ y.top = 0) THEN Far(a.rc, 0)
      ELSE mdbx_estimate_distance(s, s.cur[m], y)

mdbx_estimate_move(s, m, op) ==
  IF Top(s, m) = 0 THEN Far("ENODATA", 0)
  ELSE EstimateMoved(s, m, mdbx_cursor_get([s EXCEPT !.cur = <<s.cur[m]>>], op, 1, NullKey), op)

Null    == 0
Epsilon == -1

(* A cursor of the call goes to the first row from k on. *)
SeekOwn(s, k) == cursor_seek([s EXCEPT !.cur = <<fresh>>], 1, k, TRUE)
BrimOwn(s, first) == cursor_brim([s EXCEPT !.cur = <<fresh>>], 1, first)

EstimateBetween(s, a, z) ==
  LET bad(r) == r.rc # "OK" /\ (r.rc # "NOTFOUND" \/ r.cur[1].top = 0)
  IN  IF bad(a) THEN Far(a.rc, 0)
      ELSE IF bad(z) THEN Far(z.rc, 0)
      ELSE mdbx_estimate_distance(s, a.cur[1], z.cur[1])

(* mdbx_estimate_range, with Null for NULL and Epsilon for MDBX_EPSILON. *)
EstimateFrom(s, from) ==
  EstimateBetween(s, from, [BrimOwn(s, FALSE) EXCEPT !.cur[1].f = @ \cup {"eof_hard"}])

EstimateKeys(s, b, e) ==
  IF b = e THEN Far("OK", IF cursor_seek([s EXCEPT !.cur = <<fresh>>], 1, b, FALSE).rc = "OK" THEN 1 ELSE 0)
  ELSE EstimateBetween(s, SeekOwn(s, b), SeekOwn(s, e))

mdbx_estimate_range(s, b, e) ==
  IF b = Epsilon /\ e = Epsilon THEN Far("EINVAL", 0)
  ELSE IF s.items = 0 THEN Far("OK", 0)
  ELSE IF b = Null /\ e = Null THEN Far("OK", s.items)
  ELSE IF {b, e} = {Null, Epsilon} THEN Far("OK", 1)
  ELSE IF b = Null THEN EstimateBetween(s, BrimOwn(s, TRUE), SeekOwn(s, e))
  ELSE IF e = Null THEN EstimateFrom(s, SeekOwn(s, b))
  ELSE EstimateKeys(s, IF b = Epsilon THEN e ELSE b, IF e = Epsilon THEN b ELSE e)

-----------------------------------------------------------------------------
(* Scans and batches. *)

RECURSIVE scan_continue(_, _, _, _)
(* scan_continue: on to the first row for which the predicate holds. *)
scan_continue(s, m, forward, wanted) ==
  IF s.rc = "NOTFOUND" THEN Ret(s, "RESULT_FALSE")
  ELSE IF s.rc # "OK" THEN s
  ELSE IF s.key \in wanted THEN Ret(s, "RESULT_TRUE")
  ELSE scan_continue(cursor_step(s, m, forward), m, forward, wanted)

ScanOn(s, m, forward, wanted) ==
  IF s.rc # "OK" THEN s ELSE scan_continue(s, m, forward, wanted)

(* mdbx_cursor_scan *)
mdbx_cursor_scan(s, m, start, forward, wanted) ==
  ScanOn(mdbx_cursor_get(s, start, m, NullKey), m, forward, wanted)

(* mdbx_cursor_scan_from, without a value *)
Fetched(s, m) == IF s.rc # "OK" THEN s ELSE get_current(s, m)

mdbx_cursor_scan_from(s, m, op, k, forward, wanted) ==
  ScanOn(Fetched(mdbx_cursor_get(s, op, m, k), m), m, forward, wanted)

RECURSIVE Batch(_, _, _, _)
(* The rows from the cursor on, up to limit of them. *)
Batch(s, m, limit, got) ==
  LET nkeys == NumKeys(s, TopPage(s, m))
      ki    == TopKi(s, m)
      side  == cursor_sibling_right(s, s.cur[m])
      here  == IF ki < nkeys THEN <<Node(s, TopPage(s, m), ki).k>> ELSE <<>>
      turn  == [s EXCEPT !.cur[m] = side.c]
  IN  IF limit = 0 THEN [s |-> s, got |-> got]
      ELSE IF ki + 1 < nkeys THEN Batch(SetKi(s, m, Top(s, m), ki + 1), m, limit - 1, got \o here)
      ELSE IF side.ok THEN Batch(turn, m, limit - Len(here), got \o here)
      ELSE [s |-> Ret(turn, "RESULT_TRUE"), got |-> got \o here]

(* mdbx_cursor_get_batch: MDBX_FIRST and MDBX_NEXT. *)
mdbx_cursor_get_batch(s, m, op, limit) ==
  LET c == s.cur[m]
      a == IF op = "FIRST" /\ ~is_filled(c) THEN cursor_brim(s, m, TRUE) ELSE s
  IN  IF op = "NEXT" /\ {"eof_soft", "eof_hard", "hollow"} \cap c.f # {}
      THEN [s |-> Ret(s, IF c.top > 0 THEN "NOTFOUND" ELSE "ENODATA"), got |-> <<>>]
      ELSE IF a.rc # "OK" THEN [s |-> a, got |-> <<>>]
      ELSE Batch(a, m, limit, <<>>)

-----------------------------------------------------------------------------
(* The call that moves a cursor, over the leaves. *)

Scroll == \E c \in 1..NCursors, a \in Scrolls :
  End(Quiet(mdbx_cursor_scroll(Begin(tree, cur), c, a, tree.height)), <<"scroll", c, a>>)

-----------------------------------------------------------------------------
(* Properties.  They are about the cursors that have a place, and about    *)
(* the keys of the table.                                                  *)

Now     == Begin(tree, cur)
Held    == DOMAIN seen.map
Before(k) == Cardinality({j \in Held : j < k})
Placed  == {c \in 1..NCursors : seen.pos[c][1] \notin {"none", "fresh"}}
OnRow   == {c \in 1..NCursors : seen.pos[c][1] \in {"on", "last", "gap"}}
Rank(p) == IF p[1] = "end" THEN tree.items ELSE Before(p[2])
At(c)   == Rank(seen.pos[c])

RECURSIVE Starts(_, _)
(* The ranks at which the twigs of level l begin, below page p. *)
Starts(p, l) ==
  IF l = 1 THEN IF tree.pages[p].leaf THEN {Before(n.k) : n \in ToSet(tree.pages[p].n)}
                ELSE {Before(LowestKey(tree, n.v)) : n \in ToSet(tree.pages[p].n)}
  ELSE UNION {Starts(n.v, l - 1) : n \in ToSet(tree.pages[p].n)}

Steps(l, lo, hi) == Cardinality({t \in Starts(tree.root, l) : lo < t /\ t <= hi})

(* The distance of two cursors is the number of rows from one to the other; *)
(* a cursor past the rows counts for one or two more, depending on the way *)
(* it got there.  At a level above the leaves the distance is the number   *)
(* of twigs that begin in between.                                         *)
Ranks(c) == IF c \in OnRow THEN {At(c)} ELSE {tree.items, tree.items + 1}

DistanceExact ==
  /\ \A b, e \in Placed :
       LET r == mdbx_cursor_distance(Now, b, e, tree.height)
       IN  r.rc = "OK" /\ \E x \in Ranks(b), y \in Ranks(e) : r.d = y - x
  /\ \A c \in OnRow :
       /\ mdbx_cursor_distance(Now, 0, c, tree.height) = Far("OK", At(c))
       /\ mdbx_cursor_distance(Now, c, 0, tree.height) = Far("OK", (tree.items - 1) - At(c))
  /\ \A b, e \in OnRow, l \in 1..(tree.height - 1) :
       At(b) <= At(e) => mdbx_cursor_distance(Now, b, e, l) = Far("OK", Steps(l, At(b), At(e)))

(* The order mdbx_cursor_compare tells is the order of the rows. *)
CompareAgrees ==
  \A b, e \in OnRow : Sign(mdbx_cursor_compare(cur[b], cur[e])) = Sign(At(b) - At(e))

(* Scrolling goes by the distance it was told, at every level, and fails   *)
(* exactly when there is not as much of the table on that side.            *)
Moved(c, a, l) == mdbx_cursor_scroll(Clone(Now, c), NCursors + 1, a, l)
Rest(l, c, a) == IF a > 0 THEN Steps(l, At(c), tree.items) ELSE Steps(l, 0, At(c))

ScrollExact ==
  \A c \in OnRow, l \in 1..tree.height, a \in Scrolls \cup {-i : i \in Scrolls} :
    LET z == Moved(c, a, l)
    IN  /\ (z.rc = "OK") = (IF a > 0 THEN a <= Rest(l, c, a) ELSE -a <= Rest(l, c, a))
        /\ z.rc = "OK" => mdbx_cursor_distance(z, c, NCursors + 1, l).d = a

(* A distribution splits the rows behind the first cursor up to the last   *)
(* one as evenly as can be, and says so when there are not enough of them. *)
Even(n, far) == [i \in 1..n |-> IF i <= far % n THEN i * CeilDiv(far, n)
                                   ELSE (far % n) + i * (far \div n)]

EvenBehind(z, b, far, n) ==
  LET fit == IF far < n THEN far ELSE n
  IN  /\ z.rc = IF n <= far THEN "OK" ELSE "RESULT_TRUE"
      /\ \A i \in 1..fit : Rank(PlaceOf(tree, z.array[i])) - At(b) = Even(fit, far)[i]
      /\ \A i \in (fit + 1)..n : z.array[i].top = 0

DistributeEven ==
  \A b, e \in OnRow, n \in {2, 3} :
    At(e) > At(b) =>
      EvenBehind(mdbx_cursor_distribute(Now, b, e, n, tree.height), b, At(e) - At(b), n)

(* An estimate has the sign of the distance, is never larger than the      *)
(* table, what the code asserts of a range, and is exact within a leaf.    *)
Within(r) == r.rc = "OK" => r.d \in (-tree.items)..tree.items

EstimateSound ==
  /\ \A b, e \in Placed :
       LET r == mdbx_estimate_distance(Now, cur[b], cur[e])
       IN  /\ Within(r)
           /\ r.d * (At(e) - At(b)) >= 0
           /\ {b, e} \subseteq OnRow /\ cur[b].pg = cur[e].pg => r.d = At(e) - At(b)
  /\ \A c \in OnRow, op \in {"PREV", "LAST"} : Within(mdbx_estimate_move(Now, c, op))
  /\ \A r \in {<<Null, 4>>, <<2, 4>>, <<4, Epsilon>>} :
       Within(mdbx_estimate_range(Now, r[1], r[2]))

(* A scan stops at the first of the wanted rows in its direction. *)
ScanFinds ==
  LET k    == 4
      up   == mdbx_cursor_scan(Now, 1, "FIRST", TRUE, {j \in Keys : j >= k})
      down == mdbx_cursor_scan(Now, 1, "LAST", FALSE, {j \in Keys : j <= k})
      from == mdbx_cursor_scan_from(Now, 1, "GREATER_THAN", k, TRUE, {j \in Keys : j % 2 = 0})
      finds(z, S, first) ==
        IF S = {} THEN z.rc \in {"RESULT_FALSE", "NOTFOUND"}
        ELSE z.rc = "RESULT_TRUE" /\ z.key = (IF first THEN Min(S) ELSE Max(S))
  IN  /\ finds(up, {j \in Held : j >= k}, TRUE)
      /\ finds(down, {j \in Held : j <= k}, FALSE)
      /\ finds(from, {j \in Held : j > k /\ j % 2 = 0}, TRUE)

(* A batch is what lies from the cursor on, without a gap, and the cursor  *)
(* goes behind it.                                                         *)
BatchExact ==
  \A c \in OnRow, limit \in {2, 3} :
    LET z == mdbx_cursor_get_batch(Now, c, "NEXT", limit)
        left == tree.items - At(c)
    IN  "eof_soft" \notin cur[c].f =>
          /\ Len(z.got) = IF left < limit THEN left ELSE limit
          /\ \A i \in DOMAIN z.got : Before(z.got[i]) = At(c) + i - 1 /\ z.got[i] \in Held
          /\ Rank(PlaceOf(tree, z.s.cur[c])) = At(c) + Len(z.got)

(* A cursor on a row is on the first or the last one if it is told so, and *)
(* a cursor without a row is told that there are no more data.             *)
EndsTold ==
  /\ \A c \in OnRow : /\ mdbx_cursor_on_first(Now, c) = (At(c) = 0)
                     /\ mdbx_cursor_on_last(Now, c) = (At(c) + 1 = tree.items)
  /\ \A c \in 1..NCursors \ OnRow : mdbx_cursor_eof(Now, c)

(* What the stacks tell agrees with the rows. *)
Measured ==
  /\ EndsTold
  /\ DistanceExact
  /\ CompareAgrees
  /\ ScrollExact
  /\ DistributeEven
  /\ EstimateSound
  /\ ScanFinds
  /\ BatchExact

=============================================================================
