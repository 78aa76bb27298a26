--------------------------- MODULE BTreeCursors ----------------------------
(***************************************************************************)
(* One table of a write transaction of libmdbx under the calls of the API: *)
(* mdbx_put, mdbx_del, mdbx_cursor_put, mdbx_cursor_del, mdbx_cursor_get.  *)
(* The application holds several cursors on the table; every call that     *)
(* changes the tree must leave the other cursors where they were.          *)
(*                                                                         *)
(* Tables with MDBX_DUPSORT, values too long for a leaf, spilled pages and *)
(* nested transactions are left out.                                       *)
(***************************************************************************)
EXTENDS BTree, FiniteSetsExt

CONSTANTS Keys,        \* the keys of the application, numbers above 0
          Values,      \* the values of the application
          NCursors,    \* the cursors of the application
          Puts,        \* the rows and flags the application passes to mdbx_put
          CursorPuts,  \* ... and to mdbx_cursor_put
          Replaces,    \* ... and to mdbx_replace, with Gone for no value
          Gets,        \* the operations and keys it passes to mdbx_cursor_get
          Commits      \* whether the application commits and goes on

VARIABLES tree,        \* pages, root, height, items of the table
          cur,         \* the cursors of the application
          call,        \* the last call of the application
          ret,         \* the code it returned, and the key it found
          seen         \* the rows and places that tree and cur stand for

vars == <<tree, cur, call, ret, seen>>

fresh == [top |-> 0, pg |-> <<>>, ki |-> <<>>, f |-> {"fresh", "eof_hard", "hollow"}]

EmptyTree == [pages |-> <<>>, next |-> 1, root |-> NoPage, height |-> 0, items |-> 0]

(* What a call works on: the tree, the cursors, its own result. *)
Begin(t, cs) ==
  [pages |-> t.pages, next |-> t.next, root |-> t.root, height |-> t.height,
   items |-> t.items, cur |-> cs, tracked |-> 1..NCursors,
   rc |-> "OK", key |-> NullKey, exact |-> FALSE]

-----------------------------------------------------------------------------
(* Positioning. *)

is_filled(c) == ~({"eof_hard", "hollow"} \cap c.f # {})
be_filled(c) == [c EXCEPT !.f = {}]

Ret(s, rc) == [s EXCEPT !.rc = rc]

(* cursor_bring: lands on the row the cursor points at. *)
cursor_bring(s, m, eof) ==
  IF TopKi(s, m) >= NumKeys(s, TopPage(s, m)) THEN Ret(s, "STRAY")
  ELSE [s EXCEPT !.cur[m].f = IF eof THEN {"eof_soft"} ELSE {},
                 !.key = Node(s, TopPage(s, m), TopKi(s, m)).k,
                 !.rc = "OK"]

(* cursor_brim: outer_first and outer_last. *)
cursor_brim(s, m, first) ==
  LET at(c) == cursor_bring(
                 [s EXCEPT !.cur[m] =
                    [c EXCEPT !.ki[c.top] = IF first THEN 0 ELSE NumKeys(s, c.pg[c.top]) - 1]],
                 m, ~first)
  IN  IF Top(s, m) = 1 THEN at(s.cur[m])
      ELSE IF s.root = NoPage THEN Ret(s, "NOTFOUND")
      ELSE at(tree_search(s, s.cur[m], IF first THEN "first" ELSE "last", NullKey))

(* cursor_step: outer_next and outer_prev. *)
StepAside(s, m, side) ==
  IF side.ok THEN cursor_bring([s EXCEPT !.cur[m] = side.c], m, FALSE)
  ELSE Ret([s EXCEPT !.cur[m] = side.c], "NOTFOUND")

cursor_step(s, m, forward) ==
  LET c     == s.cur[m]
      nkeys == NumKeys(s, TopPage(s, m))
      ki    == TopKi(s, m)
      to(i) == cursor_bring(SetKi(s, m, c.top, i), m, FALSE)
  IN  IF c.top = 0
      THEN IF "fresh" \in c.f THEN cursor_brim(s, m, forward)
           ELSE Ret([s EXCEPT !.cur[m].f = {"eof_hard", "hollow"}],
                    IF "after_delete" \in c.f THEN "NOTFOUND" ELSE "ENODATA")
      ELSE IF "hollow" \in c.f THEN Ret(s, "ENODATA")
      ELSE IF forward /\ "after_delete" \in c.f /\ ki < nkeys THEN cursor_bring(s, m, FALSE)
      ELSE IF forward /\ "after_delete" \notin c.f /\ c.f # {} THEN Ret(s, "NOTFOUND")
      ELSE IF ~forward /\ "eof_hard" \in c.f THEN to(nkeys - 1)
      ELSE IF forward /\ ki + 1 < nkeys THEN to(ki + 1)
      ELSE IF ~forward /\ ki > 0 THEN to(ki - 1)
      ELSE StepAside(s, m, IF forward THEN cursor_sibling_right(s, c) ELSE cursor_sibling_left(s, c))

(* The cursor x is on a row; exact when it is the one asked for. *)
SeekHit(s, m, x, exact) ==
  [s EXCEPT !.cur[m] = be_filled(x), !.rc = "OK", !.exact = exact,
            !.key = Node(s, x.pg[x.top], x.ki[x.top]).k]

SeekNext(s, m, side) ==
  IF side.ok THEN SeekHit(s, m, side.c, FALSE)
  ELSE Ret([s EXCEPT !.cur[m] = side.c], "NOTFOUND")

(* The search inside the leaf of d, at node i; past: beyond its last key,  *)
(* with nothing to the right.                                              *)
SeekAt(s, m, d, i, k, range, past) ==
  LET n == s.pages[d.pg[d.top]].n
      e == [d EXCEPT !.ki[d.top] = i]
      at(x) == [s EXCEPT !.cur[m] = x]
  IN  IF i < Len(n) /\ n[i + 1].k = k THEN SeekHit(s, m, e, TRUE)
      ELSE IF ~range THEN Ret(at([e EXCEPT !.f = @ \cup {"hollow"}]), "NOTFOUND")
      ELSE IF past THEN Ret(at([e EXCEPT !.f = {"eof_soft", "eof_hard"}]), "NOTFOUND")
      ELSE IF i < Len(n) THEN SeekHit(s, m, e, FALSE)
      ELSE SeekNext(s, m, cursor_sibling_right(s, e))

SeekIn(s, m, d, k, range, past) ==
  SeekAt(s, m, d, tree_search_foliage(s.pages[d.pg[d.top]], k), k, range, past)

(* cursor_seek on the leaf where the cursor stands, or through the tree;   *)
(* range is MDBX_SET_RANGE, otherwise MDBX_SET.                            *)
cursor_seek(s, m, k, range) ==
  LET c     == s.cur[m]
      n     == s.pages[TopPage(s, m)].n
      here  == c.top > 0
      first == n[1].k
      last  == n[Len(n)].k
      rightward == \E i \in 1..(c.top - 1) : c.ki[i] + 1 < NumKeys(s, c.pg[i])
      stay  == here /\ k >= first /\ (k <= last \/ ~rightward)
      lone  == here /\ k < first /\ c.top = 1
  IN  IF ~here /\ s.root = NoPage THEN Ret(s, "NOTFOUND")
      ELSE SeekIn(s, m, IF stay \/ lone THEN c ELSE tree_search(s, c, "key", k), k, range,
                  stay /\ k > last)

(* A cursor that takes itself to be on a row and is past the last one: the *)
(* code would read whatever lies behind the nodes of the page.             *)
Stray(s, c) == is_filled(c) /\ c.ki[c.top] >= NumKeys(s, c.pg[c.top])

(* cursor_ops: MDBX_GET_CURRENT *)
get_current(s, m) ==
  LET c == s.cur[m]
  IN  IF "hollow" \in c.f THEN Ret(s, "ENODATA")
      ELSE IF ~is_filled(c) /\ TopKi(s, m) >= NumKeys(s, TopPage(s, m)) THEN Ret(s, "NOTFOUND")
      ELSE IF "after_delete" \in c.f THEN cursor_step(s, m, TRUE)
      ELSE IF Stray(s, c) THEN Ret(s, "STRAY")
      ELSE [s EXCEPT !.key = Node(s, TopPage(s, m), TopKi(s, m)).k]

(* cursor_ops: MDBX_NEXT hides the hard end from the application. *)
get_next(s, m) == [cursor_step(s, m, TRUE) EXCEPT !.cur[m].f = @ \ {"eof_hard"}]

(* cursor_ops: MDBX_TO_KEY_LESSER_THAN and MDBX_TO_KEY_GREATER_THAN *)
StepBefore(s, m) == IF s.rc \in {"OK", "NOTFOUND"} THEN cursor_step(Ret(s, "OK"), m, FALSE) ELSE s
StepBehind(s, m) == IF s.rc = "OK" /\ s.exact THEN cursor_step(s, m, TRUE) ELSE s

get_lesser(s, m, k)  == StepBefore(cursor_seek(s, m, k, TRUE), m)
get_greater(s, m, k) == StepBehind(cursor_seek(s, m, k, TRUE), m)

-----------------------------------------------------------------------------
(* Changing the table. *)

(* cursor_touch: a leaf that is not ours yet is copied with its branch. *)
RECURSIVE TouchFrom(_, _, _)
TouchFrom(s, m, h) ==
  IF Top(s, m) = h THEN page_touch(s, m) ELSE TouchFrom(Enroot(page_touch(s, m), m, -1), m, h)

cursor_touch(s, m) ==
  IF Top(s, m) = 0 THEN s
  ELSE IF s.pages[TopPage(s, m)].dirty THEN s
  ELSE TouchFrom([s EXCEPT !.cur[m].top = 1], m, Top(s, m))

(* The first key of a table gets a root leaf. *)
NewRootLeaf(s, m) ==
  LET a == page_new(s, TRUE)
  IN  [a EXCEPT !.root = s.next, !.height = 1, !.cur[m] = cursor_push(@, s.next, 0)]

InsertDone(s, m, ins) ==
  IF s.rc = "OK" /\ ins THEN [s EXCEPT !.items = @ + 1, !.cur[m] = be_filled(@)] ELSE s

\* Mutant: the other cursors of the leaf are not told of the new node.
InsertNodeAlone(s, m, k, v, ins) ==
  LET mp == TopPage(s, m)
      n  == [k |-> k, v |-> v]
  IN  InsertDone(IF page_room(s.pages[mp]) < NodeSize(TRUE, n) THEN page_split(s, m, k, v, ~ins)
                 ELSE node_add(s, mp, TopKi(s, m), n), m, ins)

(* insert_node of cursor_put; ins tells a new key from a replaced node. *)
InsertNode(s, m, k, v, ins) ==
  LET t   == Top(s, m)
      mp  == TopPage(s, m)
      n   == [k |-> k, v |-> v]
      fix(i, x) == IF is_related(s, m, i, x) /\ x.pg[t] = mp /\ x.ki[t] >= TopKi(s, m) /\ ins
                   THEN [x EXCEPT !.ki[t] = @ + 1] ELSE x
  IN  InsertDone(IF page_room(s.pages[mp]) < NodeSize(TRUE, n) THEN page_split(s, m, k, v, ~ins)
                 ELSE Repair(node_add(s, mp, TopKi(s, m), n), fix), m, ins)

(* MDBX_APPEND looks at the last row only. *)
PutLast(last, m, k) ==
  IF k > last.key THEN Ret(SetKi(last, m, Top(last, m), TopKi(last, m) + 1), "NOTFOUND")
  ELSE IF k = last.key THEN last ELSE Ret(last, "EKEYMISMATCH")

(* Where the key goes: "OK" on the row, "NOTFOUND" where it belongs. *)
PutSeek(s, m, k, flag) ==
  LET same(now) == IF now.rc = "OK" /\ now.key # k THEN Ret(now, "EKEYMISMATCH") ELSE now
  IN  CASE flag = "CURRENT" -> same(get_current(s, m))
        [] flag # "CURRENT" /\ s.height = 0 -> Ret(s, "NO_ROOT")
        [] flag = "APPEND" /\ s.items > 0 -> PutLast(cursor_brim(s, m, FALSE), m, k)
        [] OTHER -> cursor_seek(s, m, k, FALSE)

(* The path to the leaf is ours. *)
PutTouched(s, m, k, v, found, held) ==
  IF ~found THEN InsertNode(s, m, k, v, TRUE)
  ELSE IF ValueSize[held] = ValueSize[v]
       THEN [s EXCEPT !.pages[TopPage(s, m)].n[TopKi(s, m) + 1].v = v]
  ELSE InsertNode(node_del(s, m), m, k, v, FALSE)

PutAt(seek, m, k, v, flag) ==
  LET found == seek.rc = "OK"
      held  == Node(seek, TopPage(seek, m), TopKi(seek, m)).v
      a     == cursor_touch([seek EXCEPT !.cur[m].f = @ \ {"after_delete"}], m)
  IN  IF ~found /\ (flag = "CURRENT" \/ seek.rc = "EKEYMISMATCH") THEN seek
      ELSE IF found /\ flag = "NOOVERWRITE" THEN Ret(seek, "KEYEXIST")
      ELSE IF found /\ held = v THEN seek
      ELSE PutTouched(Ret(IF seek.rc = "NO_ROOT" THEN NewRootLeaf(a, m) ELSE a, "OK"),
                      m, k, v, found, held)

(* cursor_put: a new key is inserted, a value of the same length written   *)
(* in place, any other value takes the place of the old node.              *)
cursor_put(s, m, k, v, flag) == PutAt(PutSeek(s, m, k, flag), m, k, v, flag)

(* The cursors that stand past the last node of a leaf go to the next      *)
(* page, or to the end.                                                    *)
StepOff(s, mp, t) ==
  Repair(s, LAMBDA i, x : IF x.top >= t /\ x.pg[t] = mp /\ x.ki[t] >= NumKeys(s, mp)
                          THEN cursor_sibling_right(s, x).c ELSE x)

DelEnd(s, m) ==
  LET d == [s EXCEPT !.cur[m].f = @ \cup {"after_delete"}]
  IN  IF s.rc # "OK" THEN s
      ELSE IF Top(d, m) = 0 THEN d
      ELSE StepOff(d, TopPage(d, m), Top(d, m))

(* The path to the leaf is ours. *)
DelTouched(s, m) ==
  LET t  == Top(s, m)
      mp == TopPage(s, m)
      ki == TopKi(s, m)
      fix(i, x) == IF ~is_related(s, m, i, x) \/ x.pg[t] # mp THEN x
                   ELSE IF x.ki[t] = ki THEN [x EXCEPT !.f = @ \cup {"after_delete"}]
                   ELSE IF x.ki[t] > ki THEN [x EXCEPT !.ki[t] = @ - 1]
                   ELSE x
  IN  DelEnd(tree_rebalance(Repair(node_del([s EXCEPT !.items = @ - 1], m), fix), m), m)

cursor_del(s, m) ==
  IF ~is_filled(s.cur[m]) THEN Ret(s, "ENODATA")
  ELSE IF Stray(s, s.cur[m]) THEN Ret(s, "STRAY")
  ELSE DelTouched(cursor_touch(s, m), m)

-----------------------------------------------------------------------------
(* What the tree and a stack stand for. *)

RECURSIVE Rows(_, _)
(* The rows below page p, in the order of the leaves. *)
Rows(t, p) ==
  IF t.pages[p].leaf THEN t.pages[p].n
  ELSE FlattenSeq([i \in DOMAIN t.pages[p].n |-> Rows(t, t.pages[p].n[i].v)])

TableOf(t) ==
  LET r == IF t.root = NoPage THEN <<>> ELSE Rows(t, t.root)
  IN  [k \in {n.k : n \in ToSet(r)} |-> (CHOOSE n \in ToSet(r) : n.k = k).v]

PlaceOf(t, c) ==
  LET p == t.pages[c.pg[c.top]]
      i == c.ki[c.top] + 1
  IN  IF c.top = 0 THEN IF "fresh" \in c.f THEN <<"fresh", 0>> ELSE <<"none", 0>>
      ELSE IF "hollow" \in c.f THEN <<"none", 0>>
      ELSE IF "eof_hard" \in c.f \/ i > Len(p.n) THEN <<"end", 0>>
      ELSE <<CASE "after_delete" \in c.f -> "gap"
               [] "after_delete" \notin c.f /\ "eof_soft" \in c.f -> "last"
               [] OTHER -> "on", p.n[i].k>>

Seen(t, cs) == [map |-> TableOf(t), pos |-> [i \in 1..NCursors |-> PlaceOf(t, cs[i])]]

-----------------------------------------------------------------------------
(* The calls of the API. *)

RECURSIVE Preorder(_, _)
Preorder(pages, p) ==
  IF p \notin DOMAIN pages \/ pages[p].leaf THEN <<p>>
  ELSE <<p>> \o FlattenSeq([i \in 1..Len(pages[p].n) |-> Preorder(pages, pages[p].n[i].v)])

(* Page numbers carry no meaning, so at the end of a call the pages are    *)
(* numbered in the order of the tree; a page that no page refers to comes  *)
(* last and a reference to a page that was given back becomes NoPage.      *)
Renumber(s) ==
  LET walk  == IF s.root = NoPage THEN <<>> ELSE Preorder(s.pages, s.root)
      live  == SelectSeq(walk, LAMBDA p : p \in DOMAIN s.pages)
      order == live \o SetToSeq(DOMAIN s.pages \ ToSet(live))
      num(p) == IF p \in ToSet(order) THEN CHOOSE i \in DOMAIN order : order[i] = p ELSE NoPage
      pg(p) == IF p.leaf THEN p
               ELSE [p EXCEPT !.n = [i \in DOMAIN p.n |-> [k |-> p.n[i].k, v |-> num(p.n[i].v)]]]
      cu(c) == [c EXCEPT !.pg = [i \in 1..c.top |-> num(c.pg[i])], !.ki = SubSeq(@, 1, c.top)]
  IN  [tree |-> [pages |-> [i \in DOMAIN order |-> pg(s.pages[order[i]])],
                 next |-> Len(order) + 1,
                 root |-> num(s.root), height |-> s.height, items |-> s.items],
       cur  |-> [i \in 1..NCursors |-> cu(s.cur[i])]]

(* A call through a cursor of its own, linked while it changes the tree. *)
own == NCursors + 1
BeginOwn == Track(Begin(tree, Append(cur, fresh)), own)

Quiet(s) == [s EXCEPT !.key = NullKey]

(* mdbx_put *)
PutFound(s, k, v, flag) == IF s.rc # "OK" THEN s ELSE cursor_put(s, own, k, v, flag)

mdbx_put(s, k, v, flag) ==
  PutFound(IF flag = "CURRENT" THEN cursor_seek(s, own, k, FALSE) ELSE s, k, v, flag)

(* mdbx_del *)
DelFound(s) == IF s.rc # "OK" THEN s ELSE cursor_del(s, own)

mdbx_del(s, k) == DelFound(cursor_seek(s, own, k, FALSE))

(* mdbx_replace, which puts or, given no value, deletes, and tells the      *)
(* value there was.                                                        *)
Gone == 0

OldValue(s) == Node(s, TopPage(s, own), TopKi(s, own)).v

Replaced(s, k, v) ==
  IF v = Gone THEN cursor_del(s, own)
  ELSE IF s.pages[TopPage(s, own)].dirty /\ OldValue(s) = v THEN s
  ELSE cursor_put(s, own, k, v, "CURRENT")

ReplaceFound(s, k, v, flag) ==
  IF s.rc = "NOTFOUND" /\ flag # "CURRENT" THEN Quiet(cursor_put(s, own, k, v, flag))
  ELSE IF s.rc # "OK" THEN s
  ELSE IF flag = "NOOVERWRITE" THEN Ret(s, "KEYEXIST")
  ELSE [Replaced(s, k, v) EXCEPT !.key = OldValue(s)]

mdbx_replace_ex(s, k, v, flag) == ReplaceFound(cursor_seek(s, own, k, FALSE), k, v, flag)

MoveOps == {"FIRST", "LAST", "NEXT", "PREV", "GET_CURRENT"}

(* mdbx_cursor_get *)
mdbx_cursor_get(s, op, c, k) ==
  CASE op = "FIRST" -> cursor_brim(s, c, TRUE)
    [] op = "LAST" -> cursor_brim(s, c, FALSE)
    [] op = "NEXT" -> get_next(s, c)
    [] op = "PREV" -> cursor_step(s, c, FALSE)
    [] op = "GET_CURRENT" -> get_current(s, c)
    [] op = "SET" -> cursor_seek(s, c, k, FALSE)
    [] op = "SET_RANGE" -> cursor_seek(s, c, k, TRUE)
    [] op = "LESSER_THAN" -> get_lesser(s, c, k)
    [] op = "GREATER_THAN" -> get_greater(s, c, k)

(* The end of a call that has led to s: what the application sees of it. *)
End(s, what) ==
  \E z \in {s} : \E r \in {Renumber(z)} :
    /\ tree' = r.tree
    /\ cur' = r.cur
    /\ seen' = Seen(r.tree, r.cur)
    /\ call' = what
    /\ ret' = [rc |-> z.rc, key |-> IF z.rc = "OK" THEN z.key ELSE NullKey]

(* The application commits, begins the next transaction and renews its     *)
(* cursors: every page is frozen now.                                      *)
Frozen(pages) == [p \in DOMAIN pages |-> [pages[p] EXCEPT !.dirty = FALSE]]

Commit ==
  /\ Commits
  /\ tree' = [tree EXCEPT !.pages = Frozen(tree.pages)]
  /\ cur' = [c \in 1..NCursors |-> fresh]
  /\ seen' = [seen EXCEPT !.pos = [c \in 1..NCursors |-> <<"fresh", 0>>]]
  /\ call' = <<"commit">>
  /\ ret' = [rc |-> "OK", key |-> NullKey]

Put == \E a \in Puts :
         End(Quiet(mdbx_put(BeginOwn, a[1], a[2], a[3])), <<"put", a[1], a[2], a[3]>>)
Del == \E k \in Keys : End(Quiet(mdbx_del(BeginOwn, k)), <<"del", k>>)
Replace == \E a \in Replaces :
             End(mdbx_replace_ex(BeginOwn, a[1], a[2], a[3]), <<"replace", a[1], a[2], a[3]>>)
CursorPut == \E c \in 1..NCursors, a \in CursorPuts :
               End(Quiet(cursor_put(Begin(tree, cur), c, a[1], a[2], a[3])),
                   <<"cursor_put", c, a[1], a[2], a[3]>>)
CursorDel == \E c \in 1..NCursors :
               End(Quiet(cursor_del(Begin(tree, cur), c)), <<"cursor_del", c>>)
CursorSeek == \E c \in 1..NCursors, a \in Gets :
                End(mdbx_cursor_get(Begin(tree, cur), a[1], c, a[2]), <<a[1], c, a[2]>>)
CursorMove == \E c \in 1..NCursors, op \in MoveOps :
                End(mdbx_cursor_get(Begin(tree, cur), op, c, NullKey), <<op, c>>)

Init ==
  /\ tree = EmptyTree
  /\ cur = [c \in 1..NCursors |-> fresh]
  /\ seen = Seen(EmptyTree, cur)
  /\ call = <<"commit">>
  /\ ret = [rc |-> "OK", key |-> NullKey]

Next == Put \/ Del \/ Replace \/ CursorPut \/ CursorDel \/ CursorSeek \/ CursorMove \/ Commit

Spec == Init /\ [][Next]_vars

-----------------------------------------------------------------------------
(* Properties. *)

(* Every page of the table is referred to by exactly one node, and no      *)
(* other page is left over: page_split, page_merge and the collapse of the *)
(* root neither lose a page nor give back one that is still in the tree.   *)
PagesAccounted ==
  LET walk == IF tree.root = NoPage THEN <<>> ELSE Preorder(tree.pages, tree.root)
  IN  /\ ToSet(walk) = DOMAIN tree.pages
      /\ Len(walk) = Cardinality(DOMAIN tree.pages)

(* page_check: the nodes fit, there are enough of them, their keys ascend,  *)
(* and only the first node of a branch has no key.                         *)
page_check(s, p) ==
  LET pg == s.pages[p]
      n  == pg.n
  IN  /\ page_room(pg) >= 0
      /\ Len(n) >= minkeys(pg)
      /\ \A i \in DOMAIN n : (n[i].k = NullKey) = (i = 1 /\ ~pg.leaf)
      /\ \A i \in 2..Len(n) : n[i - 1].k < n[i].k
      /\ pg.leaf \/ \A i \in DOMAIN n : n[i].v \in DOMAIN s.pages

(* cursor_validate: leaves are at the height of the table, indices within  *)
(* their pages, or one behind the nodes of a leaf for a hollow cursor.     *)
cursor_validate(s, c) ==
  /\ c.top = s.height
  /\ \A l \in 1..c.top :
       LET pg == s.pages[c.pg[l]]
       IN  /\ page_check(s, c.pg[l])
           /\ pg.leaf = (l = s.height)
           /\ c.ki[l] < Len(pg.n) \/ (pg.leaf /\ c.ki[l] = Len(pg.n) /\ "hollow" \in c.f)
           /\ pg.leaf \/ \A i \in DOMAIN pg.n :
                page_check(s, pg.n[i].v) /\ s.pages[pg.n[i].v].leaf = (l + 1 = s.height)

RECURSIVE Shape(_, _, _, _)
(* The subtree of p has height h and its keys are in lo..hi-1. *)
Shape(p, h, lo, hi) ==
  LET pg == tree.pages[p]
      n  == pg.n
  IN  /\ page_check(tree, p)
      /\ pg.leaf = (h = 1)
      /\ \A i \in DOMAIN n : pg.leaf \/ i > 1 => n[i].k \in lo..(hi - 1)
      /\ pg.leaf \/ \A i \in DOMAIN n :
           Shape(n[i].v, h - 1, IF i = 1 THEN lo ELSE n[i].k,
                 IF i = Len(n) THEN hi ELSE n[i + 1].k)

(* Every leaf is at the same depth, every page holds what its space allows *)
(* and at least the minimum of nodes, the keys of a page ascend and lie    *)
(* between the separators above it, the first key of a branch is not       *)
(* stored, and the number of rows is the one the table counts: what        *)
(* tree_propagate_key, node_move and tree_rebalance must leave behind.     *)
TreeValid ==
  /\ tree.items = Cardinality(DOMAIN seen.map)
  /\ IF tree.root = NoPage THEN tree.height = 0
     ELSE Shape(tree.root, tree.height, 1, Max(Keys) + 1)

(* After every call the stack of every cursor is a path of the tree from   *)
(* the root to a leaf, and a cursor that takes itself to be on a row is on *)
(* one: what cursor_validate asserts in a debug build, and what the repair *)
(* loops of page_touch, page_split, node_move, page_merge, tree_rebalance, *)
(* cursor_put and cursor_del are for.                                      *)
CursorsValid ==
  \A i \in 1..NCursors :
    LET c == cur[i]
    IN  c.top > 0 =>
          /\ c.top = tree.height /\ Len(c.pg) = c.top /\ Len(c.ki) = c.top
          /\ c.pg[1] = tree.root
          /\ \A t \in 1..(c.top - 1) :
               /\ c.ki[t] < Len(tree.pages[c.pg[t]].n)
               /\ tree.pages[c.pg[t]].n[c.ki[t] + 1].v = c.pg[t + 1]
          /\ "eof_soft" \notin c.f => cursor_validate(tree, c)

(* All of it together: after every call the pages of the table are the     *)
(* pages of its tree, and tree and cursors are what a debug build checks.  *)
TreeSound == PagesAccounted /\ TreeValid /\ CursorsValid

OM == INSTANCE OrderedMap WITH map <- seen.map, pos <- seen.pos,
                               Cursors <- 1..NCursors,
                               Flags <- {"UPSERT", "NOOVERWRITE", "APPEND", "CURRENT"}

(* The calls on the tree are the calls on a sorted map: whatever pages are *)
(* split, merged or copied on the way, a call changes its row only,        *)
(* returns what the map holds and leaves every other cursor on its row;    *)
(* and no call fails with an internal error.                               *)
ImplementsMap == OM!Spec

CallView == <<tree, cur>>

=============================================================================
