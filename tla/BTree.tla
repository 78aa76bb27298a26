------------------------------- MODULE BTree -------------------------------
(***************************************************************************)
(* The B+tree of one table of libmdbx inside a write transaction: pages,   *)
(* nodes, the stack of a cursor, copy-on-write of a page, and the four     *)
(* operations that change the shape of the tree (page_split, page_merge,   *)
(* node_move, tree_rebalance), each with the loop that repairs the other   *)
(* cursors of the transaction.                                             *)
(*                                                                         *)
(* Everything here is a function from a record s to a record s.  Sizes are *)
(* the bytes of the file format.  A page is its number; the pages that the *)
(* transaction already owns are dirty, the others are frozen and are       *)
(* copied before they change.                                              *)
(*                                                                         *)
(* Levels of a cursor count from 1 (pg[1] is the root), where the code     *)
(* counts from 0; indices of nodes count from 0 as in the code.  The part  *)
(* of pg and ki above top is what the code calls the stash.                *)
(***************************************************************************)
EXTENDS Integers, Sequences, FiniteSets, Functions, SequencesExt, TLC

CONSTANTS KeySize,         \* the length of every key, a function
          ValueSize,       \* the length of every value, a function
          PageSpace,       \* page_space(env)
          MergeThreshold,  \* env->merge_threshold
          PreferWaf        \* MDBX_opt_prefer_waf_insteadof_balance

NullKey == 0               \* the first key of a branch page is not stored
NoPage  == 0               \* P_INVALID

-----------------------------------------------------------------------------
(* Nodes and pages. *)

NodeHdr == 10              \* NODESIZE + sizeof(indx_t)

KeyLen(k) == IF k = NullKey THEN 0 ELSE KeySize[k]

branch_size(k) == NodeHdr + KeyLen(k)

NodeSize(leaf, n) == NodeHdr + KeyLen(n.k) + IF leaf THEN ValueSize[n.v] ELSE 0

RECURSIVE SizeOf(_, _)
SizeOf(leaf, q) == IF q = <<>> THEN 0 ELSE NodeSize(leaf, Head(q)) + SizeOf(leaf, Tail(q))

page_used(p) == SizeOf(p.leaf, p.n)

page_room(p) == PageSpace - page_used(p)

(* MDBX_MINKEYS of a page: a leaf keeps 1 node, a branch 2. *)
minkeys(p) == IF p.leaf THEN 1 ELSE 2

Node(s, p, i)  == s.pages[p].n[i + 1]
NumKeys(s, p)  == Len(s.pages[p].n)
Top(s, m)      == s.cur[m].top
TopPage(s, m)  == s.cur[m].pg[s.cur[m].top]
TopKi(s, m)    == s.cur[m].ki[s.cur[m].top]

SetKi(s, m, t, i) == [s EXCEPT !.cur[m].ki[t] = i]
SetPg(s, m, t, p) == [s EXCEPT !.cur[m].pg[t] = p]

(* cursor_enroot, cursor_undo_enroot: the stack above top stays in place. *)
Enroot(s, m, n) == [s EXCEPT !.cur[m].top = @ - n]

Fail(s, rc) == [s EXCEPT !.rc = rc]

be_poor(c) == [c EXCEPT !.top = 0, !.pg = <<>>, !.ki = <<>>,
                        !.f = @ \cup {"eof_hard", "hollow"}]

(* cursor_push: one level deeper, dropping whatever was stashed. *)
cursor_push(c, p, i) ==
  [c EXCEPT !.pg = Append(SubSeq(c.pg, 1, c.top), p),
            !.ki = Append(SubSeq(c.ki, 1, c.top), i),
            !.top = @ + 1]

(* The temporary cursors of the shape-changing operations live on the C    *)
(* stack; while one is linked into txn->cursors the repairs see it too.    *)
Clone(s, m)    == [s EXCEPT !.cur = Append(@, s.cur[m])]
Drop(s)        == [s EXCEPT !.cur = Front(@)]
Track(s, m)    == [s EXCEPT !.tracked = @ \cup {m}]
Untrack(s, m)  == [s EXCEPT !.tracked = @ \ {m}]

(* The repair loops walk txn->cursors. *)
Repair(s, Fix(_, _)) ==
  LET fix(i) == IF i \in s.tracked THEN Fix(i, s.cur[i]) ELSE s.cur[i]
  IN  [s EXCEPT !.cur = SubSeq([i \in 1..Len(s.cur) |-> fix(i)], 1, Len(s.cur))]

-----------------------------------------------------------------------------
(* Allocation, copy-on-write, retirement. *)

(* page_new: a dirty page with a number that is not in use. *)
page_new(s, leaf) ==
  [s EXCEPT !.pages = (s.next :> [leaf |-> leaf, dirty |-> TRUE, n |-> <<>>]) @@ s.pages,
            !.next = @ + 1]

\* Mutant: the page is unlinked and never given back.
page_retire_never(s, p) == s

(* page_retire: a page of this transaction becomes loose, a frozen one     *)
(* goes to retired_pages; neither may be referred to again.                *)
page_retire(s, p) == [s EXCEPT !.pages = Restrict(s.pages, DOMAIN s.pages \ {p})]

(* page_touch: a frozen page is copied, its parent and every cursor of the *)
(* transaction that stands on it follow the copy.                          *)
page_touch(s, m) ==
  LET t  == Top(s, m)
      mp == TopPage(s, m)
      np == s.next
      c  == s.cur[m]
      a  == [page_retire(s, mp) EXCEPT
               !.pages = (np :> [s.pages[mp] EXCEPT !.dirty = TRUE]) @@ @, !.next = @ + 1]
      b  == IF t = 1 THEN [a EXCEPT !.root = np]
            ELSE [a EXCEPT !.pages[c.pg[t - 1]].n[c.ki[t - 1] + 1].v = np]
      d  == SetPg(b, m, t, np)
  IN  IF s.pages[mp].dirty THEN s
      ELSE Repair(d, LAMBDA i, x : IF Len(x.pg) >= t /\ x.pg[t] = mp
                                   THEN [x EXCEPT !.pg[t] = np] ELSE x)

(* node_add_leaf, node_add_branch *)
node_add(s, p, i, n) ==
  IF page_room(s.pages[p]) < NodeSize(s.pages[p].leaf, n)
  THEN Fail(s, "PAGE_FULL")
  ELSE [s EXCEPT !.pages[p].n = InsertAt(@, i + 1, n)]

node_del(s, m) == [s EXCEPT !.pages[TopPage(s, m)].n = RemoveAt(@, TopKi(s, m) + 1)]

-----------------------------------------------------------------------------
(* Descent and siblings. *)

(* tree_search_branch: the last child whose separator is not above k. *)
tree_search_branch(p, k) ==
  CHOOSE i \in 0..(Len(p.n) - 1) :
     /\ i = 0 \/ p.n[i + 1].k <= k
     /\ \A j \in (i + 1)..(Len(p.n) - 1) : p.n[j + 1].k > k

(* tree_search_foliage: the first node that is not below k, or the end. *)
tree_search_foliage(p, k) ==
  Cardinality({j \in 1..Len(p.n) : p.n[j].k < k})

RECURSIVE Descend(_, _, _, _)
(* tree_search (key), tree_deepen_edge (Z_FIRST, Z_LAST) *)
Descend(s, c, how, k) ==
  LET p == s.pages[c.pg[c.top]]
      i == IF how = "key" THEN tree_search_branch(p, k) ELSE c.ki[c.top]
      q == p.n[i + 1].v
      j == IF how = "last" THEN NumKeys(s, q) - 1 ELSE 0
  IN  IF p.leaf THEN c
      ELSE Descend(s, cursor_push([c EXCEPT !.ki[c.top] = i], q, j), how, k)

tree_search(s, c, how, k) ==
  Descend(s, [c EXCEPT !.top = 1, !.pg = <<s.root>>,
                       !.ki = <<IF how = "last" THEN NumKeys(s, s.root) - 1 ELSE 0>>], how, k)

(* tree_deepen_lowest: the lowest key below a branch page. *)
RECURSIVE LowestKey(_, _)
LowestKey(s, p) == IF s.pages[p].leaf THEN Node(s, p, 0).k
                   ELSE LowestKey(s, Node(s, p, 0).v)

RECURSIVE Sibling(_, _, _)
(* sibling: [ok, c]; without a neighbour the stack stays as it was. *)
Sibling(s, c, right) ==
  LET u    == [c EXCEPT !.top = @ - 1]
      i    == u.ki[u.top]
      edge == IF right THEN i + 1 >= NumKeys(s, u.pg[u.top]) ELSE i = 0
      r    == IF edge THEN Sibling(s, u, right)
              ELSE [ok |-> TRUE, c |-> [u EXCEPT !.ki[u.top] = IF right THEN i + 1 ELSE i - 1]]
      q    == Node(s, r.c.pg[r.c.top], r.c.ki[r.c.top]).v
  IN  IF c.top = 1 THEN [ok |-> FALSE, c |-> c]
      ELSE IF ~r.ok THEN [ok |-> FALSE, c |-> c]
      ELSE [ok |-> TRUE,
            c |-> cursor_push(r.c, q, IF right THEN 0 ELSE NumKeys(s, q) - 1)]

OrFirst(r, c) == IF r.ok THEN r ELSE [r EXCEPT !.c.ki[c.top] = 0]

OrLast(s, r, c) ==
  IF r.ok THEN r
  ELSE [r EXCEPT !.c.ki[c.top] = NumKeys(s, c.pg[c.top]) - 1,
                 !.c.f = {"eof_soft", "eof_hard"}]

cursor_sibling_left(s, c)  == OrFirst(Sibling(s, c, FALSE), c)
cursor_sibling_right(s, c) == OrLast(s, Sibling(s, c, TRUE), c)

-----------------------------------------------------------------------------
(* page_split *)

(* Where the page is cut: at the quantitative middle, at an edge for an    *)
(* insertion at that edge, or not at all (0 and nkeys: the new node gets a *)
(* page of its own to the left or to the right).                           *)
SplitPoint(s, m, rep) ==
  LET c      == s.cur[m]
      t      == c.top
      p      == s.pages[c.pg[t]]
      nkeys  == Len(p.n)
      new    == c.ki[t]
      min    == minkeys(p)
      pureleft == /\ new = 0
                  /\ ~rep
                  /\ \A i \in 1..(t - 1) : c.ki[i] = 0
                  /\ page_room(s.pages[c.pg[t - 1]]) >= branch_size(p.n[1].k)
  IN  IF new = nkeys THEN nkeys + 1 - min
      ELSE IF new <= min THEN IF pureleft THEN 0 ELSE min
      ELSE IF PreferWaf THEN new ELSE (nkeys + 1) \div 2

(* The cut nearest to the wanted one at which both halves fit, searched    *)
(* for when the new node may not fit into its half.                        *)
BestSplit(p, tmp, new, want) ==
  LET nkeys == Len(p.n)
      lo    == minkeys(p)
      hi    == nkeys + 1 - lo
      mid   == IF want < lo THEN lo ELSE IF want > hi THEN hi ELSE want
      size(a, b) == page_used([p EXCEPT !.n = SubSeq(tmp, a, b)])
      dim   == IF new >= mid THEN mid ELSE nkeys - mid
      fits  == {i \in lo..hi : size(1, i) <= PageSpace /\ size(i + 1, nkeys + 1) <= PageSpace}
      dist(i) == IF i > mid THEN i - mid ELSE mid - i
      better(i, j) == dist(i) < dist(j) \/ (dist(i) = dist(j) /\ i < j)
  IN  IF NodeSize(p.leaf, tmp[new + 1]) < (NodeHdr + 1) * dim \/ fits = {} THEN mid
      ELSE CHOOSE i \in fits : \A j \in fits \ {i} : better(i, j)

(* A root that splits gets a new root above it. *)
NewRoot(s, m) ==
  LET np == s.next
      a  == page_new(s, FALSE)
  IN  [a EXCEPT !.cur[m].pg = <<np>> \o @, !.cur[m].ki = <<0>> \o @, !.cur[m].top = 2,
                !.root = np, !.height = @ + 1,
                !.pages[np].n = <<[k |-> NullKey, v |-> TopPage(s, m)]>>]

RECURSIVE page_split(_, _, _, _, _)

(* tree_propagate_key: replaces a separator, by a split when the longer    *)
(* key does not fit.                                                       *)
tree_propagate_key(s, m, k) ==
  LET mp    == TopPage(s, m)
      n     == Node(s, mp, TopKi(s, m))
      delta == KeyLen(k) - KeyLen(n.k)
  IN  IF delta > page_room(s.pages[mp])
      THEN page_split(node_del(s, m), m, k, n.v, TRUE)
      ELSE [s EXCEPT !.pages[mp].n[TopKi(s, m) + 1].k = k]

OrLeft(s, m, side) == IF side.ok THEN [s EXCEPT !.cur[m] = side.c] ELSE Fail(s, "PROBLEM")

(* After the split of the parent through the clone mn the left page may    *)
(* have got another parent as well.                                        *)
FollowParent(s, m, cm, cn) ==
  LET pt    == cm.top - 1
      moved == [cm EXCEPT !.pg = SubSeq(cn.pg, 1, pt) \o SubSeq(@, pt + 1, Len(@)),
                          !.ki = SubSeq(cn.ki, 1, pt - 1)
                                 \o <<IF cn.ki[pt] > 0 THEN cn.ki[pt] - 1 ELSE 0>>
                                 \o SubSeq(@, pt + 1, Len(@))]
  IN  IF cn.pg[pt] = cm.pg[pt] \/ cm.ki[pt] < NumKeys(s, cm.pg[pt]) THEN s
      ELSE IF cn.ki[pt] > 0 THEN [s EXCEPT !.cur[m] = moved]
      ELSE OrLeft(s, m, cursor_sibling_left(s, moved))

ParentSplit(s, m, mn) ==
  IF s.rc # "OK" THEN s
  ELSE FollowParent(Untrack(Enroot(s, mn, -1), mn), m, s.cur[m], s.cur[mn])

(* A full parent is split first, through the tracked clone mn. *)
SplitParent(s, m, mn, sep, sister) ==
  ParentSplit(page_split(Track(Enroot(s, mn, 1), mn), mn, sep, sister, FALSE), m, mn)

(* The new leftmost page goes before the page in the parent, whose entry   *)
(* now needs its key.                                                      *)
AddLeft(s, m, sep, sister) ==
  LET t == Top(s, m)
      a == Enroot(node_add(s, s.cur[m].pg[t - 1], 0, [k |-> NullKey, v |-> sister]), m, 1)
      first(b) == Enroot(SetKi(b, m, Top(b, m), 0), m, -1)
  IN  IF a.rc # "OK" THEN a ELSE first(tree_propagate_key(SetKi(a, m, t - 1, 1), m, sep))

AddToParent(s, m, z) ==
  LET pt == Top(s, m) - 1
      cn == s.cur[z.mn]
  IN  IF z.did THEN SplitParent(s, m, z.mn, z.sep, z.sister)
      ELSE IF z.pure = "left" THEN AddLeft(s, m, z.sep, z.sister)
      ELSE node_add(s, cn.pg[pt], cn.ki[pt], [k |-> z.sep, v |-> z.sister])

(* The nodes go to their pages, and m to the new node. *)
MoveNodes(s, m, z) ==
  LET t    == Top(s, m)
      cm   == s.cur[m]
      cn   == s.cur[z.mn]
      leaf == s.pages[z.mp].leaf
      rgt  == SubSeq(z.tmp, z.si + 1, Len(z.tmp))
      rn   == IF leaf THEN rgt ELSE [rgt EXCEPT ![1].k = NullKey]
      full == \E q \in {SubSeq(z.tmp, 1, z.si), rn} :
                 page_room([leaf |-> leaf, n |-> q]) < 0
      a    == [s EXCEPT !.pages[z.sister].n = rn, !.pages[z.mp].n = SubSeq(z.tmp, 1, z.si)]
      stale == cn.pg[t - 1] # cm.pg[t - 1]
               /\ cm.ki[t - 1] + 1 >= NumKeys(s, cm.pg[t - 1])
  IN  CASE z.pure = "left" ->
             [s EXCEPT !.pages[z.sister].n = <<z.tmp[1]>>,
                       !.cur[m].pg[t] = z.sister, !.cur[m].ki[t] = 0]
        [] z.pure = "right" ->
             [s EXCEPT !.pages[z.sister].n = <<z.tmp[Len(z.tmp)]>>,
                       !.cur[m].pg[t] = z.sister,
                       !.cur[m].ki = SubSeq(cn.ki, 1, t - 1) \o <<0>> \o SubSeq(@, t + 1, Len(@))]
        [] full -> Fail(s, "PAGE_FULL")
        [] z.new < z.si ->
             [a EXCEPT !.cur[m].pg[t] = z.mp, !.cur[m].ki[t] = z.new]
        [] OTHER ->
             [a EXCEPT !.cur[m].pg = (IF stale THEN SubSeq(cn.pg, 1, t - 1) ELSE SubSeq(@, 1, t - 1))
                                      \o <<z.sister>> \o SubSeq(@, t + 1, Len(@)),
                       !.cur[m].ki = (IF stale THEN SubSeq(cn.ki, 1, t - 1)
                                      ELSE [SubSeq(@, 1, t - 1) EXCEPT ![t - 1] = @ + 1])
                                      \o <<z.new - z.si>> \o SubSeq(@, t + 1, Len(@))]

(* The other cursors: a root split deepens them, those on the page follow  *)
(* their node, those right of it in the parent move by one.                *)
SplitFix(s, m, z, c0) ==
  LET t  == Top(s, m)
      cm == s.cur[m]
      cn == s.cur[z.mn]
      n  == NumKeys(s, z.mp)
      c  == IF z.root
            THEN [c0 EXCEPT !.pg = <<cm.pg[1]>> \o @,
                            !.ki = <<IF c0.ki[1] >= n + (IF z.pure = "left" THEN 1 ELSE 0)
                                     THEN 1 ELSE 0>> \o @,
                            !.top = @ + 1]
            ELSE c0
      i  == c.ki[t]
      j  == IF i >= z.new /\ ~z.rep THEN i + 1 ELSE i
  IN  IF z.root /\ c0.pg[1] # z.mp THEN c0
      ELSE IF c.top >= t /\ c.pg[t] = z.mp /\ z.pure # "left"
      THEN IF j >= n
           THEN [c EXCEPT !.pg = SubSeq(cn.pg, 1, t - 1) \o <<z.sister>> \o SubSeq(@, t + 1, Len(@)),
                          !.ki = SubSeq(cn.ki, 1, t - 1) \o <<j - n>> \o SubSeq(@, t + 1, Len(@))]
           ELSE [c EXCEPT !.ki[t] = j]
      ELSE IF ~z.did /\ c.top >= t - 1 /\ c.pg[t - 1] = cm.pg[t - 1] /\ c.ki[t - 1] >= cm.ki[t - 1]
      THEN [c EXCEPT !.ki[t - 1] = @ + 1]
      ELSE c

(* What a split of page mp for the node (k, v) will do: where it is cut,   *)
(* the separator, the new page, the clone mn of the cursor that will stand *)
(* on it, and whether the parent must be split as well.                    *)
Separated(s, m, z) ==
  LET sep == IF z.pure = "left" THEN s.pages[z.mp].n[1].k ELSE z.tmp[z.si + 1].k
      up  == s.pages[s.cur[m].pg[Top(s, m) - 1]]
  IN  z @@ [sep |-> sep, did |-> page_room(up) < branch_size(sep)]

SplitAt(s, m, z, at) ==
  LET p    == s.pages[z.mp]
      pure == CASE at = 0 -> "left" [] at = Len(p.n) -> "right" [] OTHER -> "no"
  IN  Separated(s, m, z @@ [pure |-> pure,
                            si   |-> IF pure = "no" THEN BestSplit(p, z.tmp, z.new, at) ELSE at])

SplitPlan(s, m, k, v, rep, mp, root) ==
  LET new == TopKi(s, m)
  IN  SplitAt(s, m, [mp |-> mp, root |-> root, new |-> new, rep |-> rep, sister |-> s.next,
                     mn |-> Len(s.cur) + 1,
                     tmp |-> InsertAt(s.pages[mp].n, new + 1, [k |-> k, v |-> v])],
              SplitPoint(s, m, rep))

(* The new page, and the clone of the cursor that stands on it. *)
NewSister(s, m, z) ==
  LET t == Top(s, m)
  IN  [Clone(page_new(s, s.pages[z.mp].leaf), m) EXCEPT
         !.cur[z.mn].pg[t] = z.sister, !.cur[z.mn].ki[t] = 0, !.cur[z.mn].ki[t - 1] = @ + 1]

SplitCursors(s, m, z) ==
  IF s.rc # "OK" THEN s
  ELSE Drop(Repair(s, LAMBDA i, x : IF i = m \/ x.top = 0 THEN x ELSE SplitFix(s, m, z, x)))

SplitNodes(s, m, z) == IF s.rc # "OK" THEN s ELSE SplitCursors(MoveNodes(s, m, z), m, z)

SplitBy(s, m, z) == SplitNodes(AddToParent(NewSister(s, m, z), m, z), m, z)

(* The page under m, which a new root may just have been put above. *)
SplitBelow(s, m, k, v, rep, mp, root) == SplitBy(s, m, SplitPlan(s, m, k, v, rep, mp, root))

page_split(s, m, k, v, rep) ==
  SplitBelow(IF Top(s, m) = 1 THEN NewRoot(s, m) ELSE s, m, k, v, rep,
             TopPage(s, m), Top(s, m) = 1)

-----------------------------------------------------------------------------
(* node_move, page_merge, tree_rebalance *)

tree_propagate_nullkey(s, m) == tree_propagate_key(s, m, NullKey)

(* Is x, another cursor, deep enough to stand on the pages of base? *)
is_related(s, base, i, x) == i # base /\ Top(s, base) <= x.top

EndClone(s, mn) == IF s.rc # "OK" THEN s ELSE Drop(Untrack(s, mn))

(* The separator of the page m stands on becomes k, through a tracked      *)
(* clone.                                                                  *)
Reseparate(s, m, k) ==
  LET mn == Len(s.cur) + 1
  IN  EndClone(tree_propagate_key(Track(Enroot(Clone(s, m), mn, 1), mn), mn, k), mn)

\* Mutant: the separator above the page stays as it was.
NewFirstOnly(s, m) ==
  IF TopKi(s, m) # 0 \/ s.pages[TopPage(s, m)].leaf THEN s ELSE tree_propagate_nullkey(s, m)

NullBranch(s, m, p) == IF s.rc # "OK" \/ s.pages[p].leaf THEN s ELSE tree_propagate_nullkey(s, m)

(* When a page has got another first node: the separator above it, and the *)
(* key that a branch does not keep.                                        *)
NewFirst(s, m) ==
  LET p == TopPage(s, m)
  IN  IF TopKi(s, m) # 0 THEN s
      ELSE NullBranch(IF s.cur[m].ki[Top(s, m) - 1] # 0 THEN Reseparate(s, m, Node(s, p, 0).k) ELSE s,
                      m, p)

(* The cursors on the moved node go with it, those on the page that has    *)
(* lost or got it shift.                                                   *)
MoveFix(s, src, dst, psrc, pdst, fromleft, i, x) ==
  LET t    == Top(s, src)
      from == TopKi(s, src)
      to   == TopKi(s, dst)
      moved(d) == [x EXCEPT !.pg[t] = pdst, !.ki[t] = to, !.ki[t - 1] = @ + d]
  IN  IF ~is_related(s, src, i, x) THEN x
      ELSE IF fromleft
      THEN IF i # dst /\ x.pg[t] = pdst /\ x.ki[t] >= to THEN [x EXCEPT !.ki[t] = @ + 1]
           ELSE IF x.pg[t] = psrc /\ x.ki[t] = from THEN moved(1)
           ELSE x
      ELSE IF x.pg[t] # psrc THEN x
           ELSE IF x.ki[t] = 0 THEN moved(-1)
           ELSE [x EXCEPT !.ki[t] = @ - 1]

(* The separators of the two pages, when their first node is another one. *)
MoveEnd(s, dst) == IF s.rc # "OK" THEN s ELSE NewFirst(s, dst)

MoveShift(s, src, dst, psrc, pdst, fromleft) ==
  Repair(s, LAMBDA i, x : MoveFix(s, src, dst, psrc, pdst, fromleft, i, x))

MoveOut(s, src, dst, psrc, pdst, fromleft) ==
  IF s.rc # "OK" THEN s
  ELSE MoveEnd(NewFirst(MoveShift(node_del(s, src), src, dst, psrc, pdst, fromleft), src), dst)

MoveNode(s, src, dst, fromleft, n) ==
  MoveOut(node_add(s, TopPage(s, dst), TopKi(s, dst), n), src, dst,
          TopPage(s, src), TopPage(s, dst), fromleft)

(* The first node of the target page, which is no longer to be the first,  *)
(* gets its key, through a tracked clone.                                  *)
GiveKey(s, dst, low) ==
  LET mn == Len(s.cur) + 1
  IN  Drop(Untrack(tree_propagate_key(Track(Clone(s, dst), mn), mn, low), mn))

MoveTouched(s, src, dst, fromleft, first, low, n) ==
  MoveNode(IF first THEN GiveKey(s, dst, low) ELSE s, src, dst, fromleft, n)

(* node_move: one node from src to the neighbour page of dst; "TRUE" when  *)
(* the keys that come down with it do not fit.                             *)
node_move(s, src, dst, fromleft) ==
  LET p     == s.pages[TopPage(s, src)]
      n     == Node(s, TopPage(s, src), TopKi(s, src))
      key   == IF p.leaf \/ TopKi(s, src) # 0 THEN n.k ELSE LowestKey(s, TopPage(s, src))
      low   == LowestKey(s, TopPage(s, dst))
      first == ~p.leaf /\ TopKi(s, dst) = 0
      need  == branch_size(key) + IF first
               THEN KeyLen(low) - KeyLen(Node(s, TopPage(s, dst), 0).k) ELSE 0
  IN  IF ~p.leaf /\ need > page_room(s.pages[TopPage(s, dst)]) THEN Fail(s, "TRUE")
      ELSE MoveTouched(page_touch(page_touch(s, src), dst), src, dst, fromleft, first, low,
                       [k |-> key, v |-> n.v])

RECURSIVE tree_rebalance(_, _)

\* Mutant: the cursors right of the merged page keep their index.
MergeFixNoShift(s, src, dst, psrc, pdst, cnt, i, x) ==
  LET t == Top(s, src)
  IN  IF is_related(s, src, i, x) /\ x.pg[t] = psrc
      THEN [x EXCEPT !.pg[t] = pdst, !.ki[t] = @ + cnt, !.ki[t - 1] = s.cur[dst].ki[t - 1]]
      ELSE x

(* The cursors of the merged page continue on the page that took its       *)
(* nodes, those right of it in the parent move by one.                     *)
MergeFix(s, src, dst, psrc, pdst, cnt, i, x) ==
  LET t == Top(s, src)
      cs == s.cur[src]
  IN  IF ~is_related(s, src, i, x) THEN x
      ELSE IF x.pg[t] = psrc
      THEN [x EXCEPT !.pg[t] = pdst, !.ki[t] = @ + cnt, !.ki[t - 1] = s.cur[dst].ki[t - 1]]
      ELSE IF x.pg[t - 1] = cs.pg[t - 1] /\ x.ki[t - 1] > cs.ki[t - 1]
      THEN [x EXCEPT !.ki[t - 1] = @ - 1]
      ELSE x

(* Unlinks the page of src from its parent. *)
NullFirst(s, m) == IF TopKi(s, m) = 0 THEN tree_propagate_nullkey(s, m) ELSE s

Unlink(s, src) == Enroot(NullFirst(node_del(Enroot(s, src, 1), src), src), src, -1)

(* The parent is rebalanced; then dst stands on its leaf again, whatever   *)
(* became of the levels above it.                                          *)
MergeEnd(s, f, dst) ==
  LET c   == f.cur[dst]
      top == IF f.pages[c.pg[c.top]].leaf THEN c.top ELSE Top(s, dst) - (s.height - f.height)
  IN  IF f.rc # "OK" THEN f ELSE [f EXCEPT !.cur[dst].top = top]

MergeUp(s, dst) == MergeEnd(s, tree_rebalance(Enroot(s, dst, 1), dst), dst)

(* The page of src is unlinked: its cursors are taken over, and it is free. *)
MergeCursors(s, src, dst, cnt) ==
  LET psrc == TopPage(s, src)
      pdst == TopPage(s, dst)
      a    == Repair(s, LAMBDA i, x : MergeFix(s, src, dst, psrc, pdst, cnt, i, x))
  IN  MergeUp(SetPg(page_retire(a, psrc), src, Top(a, src), pdst), dst)

MergeNodes(s, src, dst, cnt, nodes) ==
  MergeCursors(Unlink([s EXCEPT !.pages[TopPage(s, dst)].n = @ \o nodes], src), src, dst, cnt)

(* page_merge: all nodes of src go to the end of dst; "TRUE" when the key  *)
(* that comes down with them does not fit.                                 *)
page_merge(s, src, dst) ==
  LET p     == s.pages[TopPage(s, src)]
      nodes == IF p.leaf \/ p.n = <<>> THEN p.n
               ELSE [p.n EXCEPT ![1].k = LowestKey(s, TopPage(s, src))]
      room  == page_room(s.pages[TopPage(s, dst)])
  IN  IF page_used([p EXCEPT !.n = nodes]) > room
      THEN Fail(s, IF p.leaf \/ p.n = <<>> THEN "PAGE_FULL" ELSE "TRUE")
      ELSE MergeNodes(IF p.n = <<>> THEN s ELSE page_touch(s, dst), src, dst,
                      NumKeys(s, TopPage(s, dst)), nodes)

(* The root: an empty leaf is given back, a branch with one child gives    *)
(* way to it.                                                              *)
RebalanceRoot(s, m) ==
  LET mp    == s.cur[m].pg[1]
      p     == s.pages[mp]
      empty == Repair(s, LAMBDA i, x : IF x.top > 0 /\ x.pg[1] = mp
                                       THEN [be_poor(x) EXCEPT !.f = @ \cup {"after_delete"}]
                                       ELSE x)
      child == p.n[1].v
      one   == [s EXCEPT !.root = child, !.height = @ - 1,
                         !.cur[m].pg = <<child>> \o SubSeq(@, 3, Len(@)),
                         !.cur[m].ki = Tail(@)]
      fix(i, x) == IF ~is_related(s, m, i, x) \/ x.pg[1] # mp THEN x
                   ELSE IF x.top = 1 THEN be_poor(x)
                   ELSE [x EXCEPT !.pg = Tail(@), !.ki = Tail(@), !.top = @ - 1]
  IN  CASE p.n = <<>> -> page_retire([empty EXCEPT !.root = NoPage, !.height = 0], mp)
        [] ~p.leaf /\ Len(p.n) = 1 -> page_retire(Repair(one, fix), mp)
        [] OTHER -> s

(* The four ways to help an underfilled page; d is -1 for the left         *)
(* neighbour and 1 for the right one.                                      *)
AtNeighbour(s, m, d) ==
  LET t  == Top(s, m)
      kp == s.cur[m].ki[t - 1] + d
      q  == Node(s, s.cur[m].pg[t - 1], kp).v
      a  == Clone(s, m)
      mn == Len(a.cur)
  IN  [a EXCEPT !.cur[mn].pg[t] = q, !.cur[mn].ki[t - 1] = kp, !.tracked = @ \cup {mn}]

Finish(s, mn) == IF s.rc \in {"OK", "TRUE"} THEN Drop(Untrack(s, mn)) ELSE s

(* After a merge to the left the cursor is where its node went. *)
MergedLeft(s, m, mn, i) ==
  LET t == s.cur[mn].top
      a == [s EXCEPT !.cur[m].top = t,
                     !.cur[m].pg = SubSeq(s.cur[mn].pg, 1, t) \o SubSeq(@, t + 1, Len(@)),
                     !.cur[m].ki = SubSeq(s.cur[mn].ki, 1, t - 1) \o <<i>>
                                   \o SubSeq(@, t + 1, Len(@))]
  IN  Finish(IF s.rc = "OK" THEN a ELSE s, mn)

(* In the other cases it keeps its page and is on node i. *)
Stayed(s, m, mn, i) == Finish(IF s.rc = "OK" THEN SetKi(s, m, Top(s, m), i) ELSE s, mn)

(* s has the clone mn of m on the neighbour page. *)
TryMerge(s, m, mn, d) ==
  LET t  == Top(s, m)
      ki == TopKi(s, m)
      lk == NumKeys(s, TopPage(s, mn))
  IN  IF d = -1
      THEN MergedLeft(page_merge(SetKi(SetKi(s, mn, t, lk), m, t, 0), m, mn), m, mn, ki + lk)
      ELSE Stayed(page_merge(SetKi(SetKi(s, mn, t, 0), m, t, NumKeys(s, TopPage(s, m))), mn, m),
                  m, mn, ki)

TryMove(s, m, mn, d) ==
  LET t  == Top(s, m)
      ki == TopKi(s, m)
      a  == IF d = -1 THEN SetKi(SetKi(s, mn, t, NumKeys(s, TopPage(s, mn)) - 1), m, t, 0)
            ELSE SetKi(SetKi(s, mn, t, 0), m, t, NumKeys(s, TopPage(s, m)))
  IN  Stayed(node_move(a, mn, m, d = -1), m, mn, IF d = -1 THEN ki + 1 ELSE ki)

RECURSIVE FirstOf(_, _, _)
OrNext(r, s, m, ways) == IF r.rc # "TRUE" THEN r ELSE FirstOf(s, m, ways)

Try(s, m, w) ==
  IF w[1] = "merge" THEN TryMerge(s, m, Len(s.cur), w[2]) ELSE TryMove(s, m, Len(s.cur), w[2])

(* The first way of the sequence that is possible. *)
FirstOf(s, m, ways) ==
  IF ways = <<>> THEN Fail(s, "TRUE")
  ELSE OrNext(Try(AtNeighbour(s, m, Head(ways)[2]), m, Head(ways)), s, m, Tail(ways))

(* Which ways are considered: an empty page can only be merged; pages that are still clean only when they    *)
(* must be involved, a merge only with a page emptier than the threshold.  *)
Ways(s, m, involve, threshold) ==
  LET t    == Top(s, m)
      up   == s.pages[s.cur[m].pg[t - 1]]
      kp   == s.cur[m].ki[t - 1]
      p    == s.pages[TopPage(s, m)]
      min  == minkeys(p)
      has  == [d \in {-1, 1} |-> kp + d \in 0..(Len(up.n) - 1)]
      pgof(d) == s.pages[up.n[kp + d + 1].v]
      room == [d \in {-1, 1} |-> IF has[d] THEN page_room(pgof(d)) ELSE 0]
      nk   == [d \in {-1, 1} |-> IF has[d] THEN Len(pgof(d).n) ELSE 0]
      may(d) == has[d] /\ (involve \/ pgof(d).dirty)
      way(c, w) == IF c THEN <<w>> ELSE <<>>
  IN  IF p.n = <<>> THEN way(kp > 0, <<"merge", -1>>) \o <<<<"merge", 1>>>>
      ELSE way(may(-1) /\ room[-1] > threshold /\ room[-1] >= room[1], <<"merge", -1>>)
           \o way(may(1) /\ room[1] > threshold, <<"merge", 1>>)
           \o way(may(-1) /\ nk[-1] > min /\ (nk[1] <= nk[-1] \/ room[1] >= room[-1]), <<"move", -1>>)
           \o way(may(1) /\ nk[1] > min, <<"move", 1>>)

RECURSIVE Retry(_, _, _, _)
OrWider(r, s, m, involve, threshold) ==
  IF r.rc # "TRUE" THEN r
  ELSE IF NumKeys(s, TopPage(s, m)) = 0 THEN Fail(s, "PROBLEM")
  ELSE IF NumKeys(s, TopPage(s, m)) >= minkeys(s.pages[TopPage(s, m)]) THEN s
  ELSE IF PreferWaf /\ threshold > 0 THEN Retry(s, m, involve, 0)
  ELSE IF ~involve THEN Retry(s, m, TRUE, threshold)
  ELSE IF threshold > 0 THEN Retry(s, m, TRUE, 0)
  ELSE Fail(s, "PROBLEM")

(* A page that has enough nodes may stay as it is; otherwise the search is *)
(* widened until something helps.                                          *)
Retry(s, m, involve, threshold) ==
  OrWider(FirstOf(s, m, Ways(s, m, involve, threshold)), s, m, involve, threshold)

tree_rebalance(s, m) ==
  LET t    == Top(s, m)
      p    == s.pages[TopPage(s, m)]
      kp   == s.cur[m].ki[t - 1]
      left == kp > 0
      right == kp + 1 < NumKeys(s, s.cur[m].pg[t - 1])
  IN  IF Len(p.n) >= minkeys(p) /\ page_room(p) <= MergeThreshold THEN s
      ELSE IF t = 1 THEN RebalanceRoot(s, m)
      ELSE Retry(s, m, ~(left /\ right), MergeThreshold)

=============================================================================
