----------------------------- MODULE BTreeRange -----------------------------
(***************************************************************************)
(* Ranges of rows: mdbx_cursor_delete_range and mdbx_cursor_bunch_delete,  *)
(* which cut whole pages and branches out of the tree while the cursors of *)
(* the application stand on them.                                          *)
(*                                                                         *)
(* Levels count from 1 as in BTree.  A cursor argument of 0 stands for     *)
(* NULL.  Tables with MDBX_DUPSORT and values on pages of their own are    *)
(* left out, as in BTreeCursors.                                           *)
(***************************************************************************)
EXTENDS BTreeMeasure

CONSTANTS Loaded,   \* the sequences of keys with which the table may be filled
          Ranges,   \* the cursors and flags given to mdbx_cursor_delete_range
          Bunches   \* the actions given to mdbx_cursor_bunch_delete

-----------------------------------------------------------------------------
(* Cutting twigs. *)

\* Mutant: the rows of a twig are not counted down.
CutTwigUncounted(s, p, whole) ==
  [s EXCEPT !.pages = Restrict(@, DOMAIN @ \ ToSet(Preorder(s.pages, p)))]

(* tree_cutoff_twig: every page below p is given back; the rows are counted *)
(* down unless the whole tree goes.                                        *)
tree_cutoff_twig(s, p, whole) ==
  [s EXCEPT !.pages = Restrict(@, DOMAIN @ \ ToSet(Preorder(s.pages, p))),
            !.items = IF whole THEN @ ELSE @ - Len(Rows(s, p))]

(* tree_drop, tbl_purge: the table is emptied, its cursors have no place.  *)
tree_drop(s) == IF s.height = 0 THEN s ELSE tree_cutoff_twig(s, s.root, TRUE)

tbl_purge(s) ==
  IF s.height = 0 THEN s
  ELSE Repair([tree_drop(s) EXCEPT !.root = NoPage, !.height = 0, !.items = 0],
              LAMBDA i, x : be_poor(x))

(* The nodes of the branch page under mc that lie between the cursors; the *)
(* first one always stays, so that no separator above has to change.       *)
CutFrom(s, mc, b, l) ==
  1 + IF s.cur[b].pg[l] = TopPage(s, mc) THEN s.cur[b].ki[l] ELSE 0

CutPast(s, mc, e, l, inc) ==
  IF s.cur[e].pg[l] # TopPage(s, mc) THEN NumKeys(s, TopPage(s, mc))
  ELSE s.cur[e].ki[l] + IF inc THEN 1 ELSE 0

(* A cursor on a page that is gone stands before the next row, or past the *)
(* last one.                                                               *)
Landed(s, side) ==
  LET d == Descend(s, side.c, IF side.ok THEN "first" ELSE "last", NullKey)
  IN  [d EXCEPT !.f = @ \cup {"after_delete"}]

\* Mutant: a cursor on a page that is gone goes to the last row before it.
CutFixBack(s, mp, l, at, past, x) ==
  LET u == [CutStack(x, l) EXCEPT !.ki[l] = at - 1]
  IN  IF x.top < l \/ x.pg[l] # mp \/ x.ki[l] < at THEN x
      ELSE IF x.ki[l] >= past THEN [x EXCEPT !.ki[l] = @ - (past - at)]
      ELSE Landed(s, [ok |-> FALSE, c |-> u])

(* The other cursors after the nodes at..past-1 of mp are gone. *)
CutFix(s, mp, l, at, past, x) ==
  LET u == [CutStack(x, l) EXCEPT !.ki[l] = at]
  IN  IF x.top < l \/ x.pg[l] # mp \/ x.ki[l] < at THEN x
      ELSE IF x.ki[l] >= past THEN [x EXCEPT !.ki[l] = @ - (past - at)]
      ELSE Landed(s, IF at < NumKeys(s, mp) THEN [ok |-> TRUE, c |-> u]
                     ELSE cursor_sibling_right(s, u))

(* mc stands on a page of its own; at least two of its nodes must remain.  *)
CutNodes(s, mc, l, at, past) ==
  LET mp   == TopPage(s, mc)
      n    == s.pages[mp].n
      twig == FoldSet(LAMBDA i, t : tree_cutoff_twig(t, n[i].v, FALSE), s, (at + 1)..past)
      a    == [twig EXCEPT !.pages[mp].n = SubSeq(n, 1, at) \o SubSeq(n, past + 1, Len(n)),
                           !.cur[mc].ki[l] = at]
  IN  Repair(a, LAMBDA i, x : IF i = mc THEN x ELSE CutFix(a, mp, l, at, past, x))

CutPage(s, mc, l, from, past) ==
  CutNodes(cursor_touch(s, mc), mc, l,
           past - Min({NumKeys(s, TopPage(s, mc)) - 2, past - from}), past)

RECURSIVE CutLevel(_, _, _, _, _, _)

(* To the page on the left, or one level down from the end of the range.   *)
CutOn(s, mc, b, e, l, inc) ==
  LET side == cursor_sibling_left(s, s.cur[mc])
      down == [Ret(s, "NOTFOUND") EXCEPT !.cur[mc] = CutStack(s.cur[e], l + 1)]
  IN  IF side.ok
      THEN IF \E i \in 1..l : side.c.ki[i] < s.cur[b].ki[i] THEN s
           ELSE CutLevel([s EXCEPT !.cur[mc] = side.c], mc, b, e, l, inc)
      ELSE IF l + 1 < Top(s, b) THEN CutLevel(down, mc, b, e, l + 1, inc) ELSE s

(* One page of level l; inc tells that the twig under e goes as well, which *)
(* it does once only.                                                      *)
CutLevel(s, mc, b, e, l, inc) ==
  LET from == CutFrom(s, mc, b, l)
      past == CutPast(s, mc, e, l, inc)
  IN  IF s.items < 4 THEN s
      ELSE IF NumKeys(s, TopPage(s, mc)) < 3 \/ from >= past
      THEN CutOn(Ret(s, "OK"), mc, b, e, l, inc)
      ELSE CutOn(CutPage(Ret(s, "OK"), mc, l, from, past), mc, b, e, l,
                 inc /\ s.cur[e].pg[l] # TopPage(s, mc))

(* cutoff_zikkurat: level by level, through a linked clone of e. *)
CutEnd(s, mc) == Drop(Untrack(s, mc))

cutoff_zikkurat(s, b, e, l, inc) ==
  LET mc == Len(s.cur) + 1
      a  == Track([Clone(s, e) EXCEPT !.cur[mc] = CutStack(@, l)], mc)
  IN  CutEnd(CutLevel(a, mc, b, e, l, inc /\ OnLastFrom(s, s.cur[e], l)), mc)

-----------------------------------------------------------------------------
(* Cutting what is left row by row, from the end. *)

Met(s, b, e) == TopPage(s, e) = TopPage(s, b) /\ TopKi(s, e) = TopKi(s, b)

RECURSIVE CutRows(_, _, _, _)

CutMore(s, b, e, last) == IF last THEN s ELSE CutRows(s, b, e, FALSE)

CutRow(s, b, e, last) == CutMore(cursor_del(s, IF last THEN b ELSE e), b, e, last)

CutRows(s, b, e, inc) ==
  LET over    == TopPage(s, e) = TopPage(s, b) /\ TopKi(s, e) <= TopKi(s, b)
      here    == over \/ inc
      stepped == IF here THEN s ELSE cursor_step(s, e, FALSE)
  IN  IF s.rc # "OK" THEN s
      ELSE IF stepped.rc # "OK" THEN stepped
      ELSE CutRow(stepped, b, e, IF here THEN over ELSE Met(stepped, b, e))

(* The twigs are gone; the end of the range may have gone with them. *)
CutRest(s, b, e, inc, twigs) ==
  LET gap(m) == "after_delete" \in s.cur[m].f
  IN  IF s.rc # "OK" \/ (twigs /\ gap(e) /\ gap(b)) THEN s
      ELSE CutRows(s, b, e, inc /\ ~(twigs /\ gap(e)))

CutTwigs(s, b, e, l, inc) ==
  LET twigs == l < Top(s, e)
  IN  CutRest(IF twigs THEN cutoff_zikkurat(s, b, e, l, inc) ELSE s, b, e, inc, twigs)

(* cutoff_storey *)
TouchEnd(s, b, e) == IF TopPage(s, e) # TopPage(s, b) THEN cursor_touch(s, e) ELSE s

cutoff_storey(s, b, e, l, inc) == CutTwigs(TouchEnd(cursor_touch(s, b), b, e), b, e, l, inc)

tree_cutoff_range(s, b, e, inc) ==
  LET x == s.cur[b]
      y == s.cur[e]
      l == tree_diff_level(x, y)
  IN  IF x.top = 0 \/ y.top = 0 THEN Ret(s, "ENODATA")
      ELSE IF l = Inverted THEN Ret(s, "ENODATA")
      ELSE IF l = Same THEN IF inc THEN cursor_del(s, b) ELSE s
      ELSE IF inc /\ cursor_on_first(x) /\ cursor_on_last(s, y) THEN tbl_purge(s)
      ELSE cutoff_storey(s, b, e, l, inc)

-----------------------------------------------------------------------------
(* The calls of the API. *)

(* For NULL a clone of the other cursor goes to the end of the table; it is *)
(* linked once it is there.                                                *)
FromBrim(s, b, e) ==
  IF 0 \notin {b, e} THEN s ELSE cursor_brim(Clone(s, IF b = 0 THEN e ELSE b), own, b = 0)

Given(m) == IF m = 0 THEN own ELSE m

CutRange(s, b, e, inc) ==
  IF s.rc # "OK" THEN s
  ELSE tree_cutoff_range(IF 0 \in {b, e} THEN Track(s, own) ELSE s, Given(b), Given(e), inc)

mdbx_cursor_delete_range(s, b, e, inc) ==
  IF \E m \in {b, e} \ {0} : Top(s, m) = 0 THEN Ret(s, "ENODATA")
  ELSE CutRange(FromBrim(s, b, e), b, e, inc)

(* outer_next with MDBX_NEXT_DUP has nowhere to go without MDBX_DUPSORT.   *)
next_dup(s, m) ==
  LET c == s.cur[m]
  IN  IF c.top = 0 THEN cursor_step(s, m, TRUE)
      ELSE IF "hollow" \in c.f THEN Ret(s, "ENODATA") ELSE Ret(s, "NOTFOUND")

(* get_axe *)
get_axe(s, m) == Track(Clone(s, m), own)

(* One side of the row, or the values of its key: the axe and the cursor   *)
(* enclose what goes.                                                      *)
ToNext(s, m, action) ==
  CASE action = "AFTER_EXCLUDING" -> cursor_step(s, m, TRUE)
    [] action = "CURRENT_MULTIVAL_AFTER_EXCLUDING" -> next_dup(s, m)
    [] OTHER -> s

ToBrim(s, m, action) ==
  IF s.rc # "OK" THEN s
  ELSE CASE action \in {"BEFORE_EXCLUDING", "BEFORE_INCLUDING"} -> cursor_brim(get_axe(s, m), own, TRUE)
         [] action \in {"AFTER_EXCLUDING", "AFTER_INCLUDING"} -> cursor_brim(get_axe(s, m), m, FALSE)
         [] OTHER -> get_axe(s, m)

(* Nothing on that side is no error. *)
CutSide(s, m, inc) ==
  CASE s.rc = "OK" -> tree_cutoff_range(s, own, m, inc)
    [] s.rc = "NOTFOUND" -> Ret(s, "OK")
    [] OTHER -> s

mdbx_cursor_bunch_delete(s, m, action) ==
  CASE action \in {"CURRENT_VALUE", "CURRENT_MULTIVAL_ALL"} -> cursor_del(s, m)
    [] action = "WHOLE" -> tbl_purge(s)
    [] OTHER -> CutSide(ToBrim(ToNext(s, m, action), m, action), m,
                        action \notin {"BEFORE_EXCLUDING", "CURRENT_MULTIVAL_BEFORE_EXCLUDING"})

(* number_of_affected *)
Counted(s) == [s EXCEPT !.key = tree.items - s.items]

DeleteRange == \E r \in Ranges :
  End(Counted(mdbx_cursor_delete_range(Begin(tree, cur), r[1], r[2], r[3])),
      <<"delete_range", r[1], r[2], r[3]>>)

BunchDelete == \E c \in 1..NCursors, a \in Bunches :
  End(Counted(mdbx_cursor_bunch_delete(Begin(tree, cur), c, a)), <<"bunch_delete", c, a>>)

(* A table that was filled and committed; its cursors were just opened. *)
Filled(keys) ==
  LET put(s, k) == [mdbx_put(Track([s EXCEPT !.cur[own] = fresh], own), k, 1, "UPSERT") EXCEPT !.rc = "OK"]
      opened == [c \in 1..NCursors |-> fresh]
      s == FoldLeft(put, Begin(EmptyTree, Append(opened, fresh)), keys)
      t == Renumber(s).tree
  IN  [t EXCEPT !.pages = Frozen(t.pages)]

RangeInit ==
  /\ \E keys \in Loaded : tree = Filled(keys)
  /\ cur = [c \in 1..NCursors |-> fresh]
  /\ seen = Seen(tree, cur)
  /\ call = <<"commit">>
  /\ ret = [rc |-> "OK", key |-> NullKey]

RangeNext == DeleteRange \/ BunchDelete \/ CursorSeek \/ Scroll

RangeSpec == RangeInit /\ [][RangeNext]_vars

=============================================================================
