--------------------------------- MODULE Gc ---------------------------------
(***************************************************************************)
(* Pages of a write transaction (mdbx.c): where page numbers come from,    *)
(* where they go to, and the tree of records of free pages (the GC).       *)
(*                                                                         *)
(* The state of a transaction is a record T and every C function that      *)
(* takes an MDBX_txn is an operator from T to T; the page or the code it   *)
(* returns is left in T.pg and T.rc.  Fields of T, with the names of the   *)
(* code where it has one:                                                  *)
(*   txnid, detent      the id of the transaction, env->gc.detent          *)
(*   first, end         geo.first_unallocated and geo.end_pgno             *)
(*   repnl, retired     the lists of reclaimed and of retired pages        *)
(*   loose, wl          the LIFO of loose pages and loose_refund_wl        *)
(*   dirty, spilled     pages of the dirty list and of the spill list      *)
(*   up                 << >>, or the parent of a nested transaction       *)
(*   data               user data: spans [pg, n] of n adjacent pages       *)
(*   gc                 the GC records: id -> [cap, pages, big, n]         *)
(*   leaves, root       the pages of the GC tree: leaves [pg, ids] in key  *)
(*                      order, and the root page when there are several    *)
(*   reclaimed, ready, comeback    wr.gc.reclaimed, ready4reuse, comeback  *)
(*   drained, gcdirty   txn_gc_drained, DBI_DIRTY of the GC                *)
(*   err, lifo          MDBX_TXN_ERROR, MDBX_LIFORECLAIM                   *)
(*                                                                         *)
(* The B-tree of the GC is abstracted to two levels whose leaves hold      *)
(* LeafCap records, split in the middle or, when appending, at the end,    *)
(* and disappear when empty (module BTree has the tree in full): what      *)
(* matters here is which pages an update of the GC takes and frees.        *)
(***************************************************************************)
EXTENDS GcDense

CONSTANTS InPage,        \* longest list stored in a leaf (chunk_inpage)
          PerBranch,     \* maxgc_per_branch
          LeafCap,       \* records of a GC leaf
          LooseLimit,    \* options.dp_loose_limit
          AugmentLimit,  \* options.rp_augment_limit
          DirtyLimit,    \* options.dp_limit
          GrowStep, Upper   \* geometry, in pages

NUM_METAS == 3
MIN_TXNID == 1

goodchunk == L - L \div 16

(* Pages pg .. pg + n - 1.                                                 *)
Span(pg, n) == pg .. pg + n - 1

Last1(S, d) == IF S = {} THEN d ELSE Max(S)
First1(S, d) == IF S = {} THEN d ELSE Min(S)

Height(T) == IF T.leaves = << >> THEN 0 ELSE IF T.root = 0 THEN 1 ELSE 2

gc_stockpile(T) == Cardinality(T.repnl) + Len(T.loose)

(* Lists of the ancestors, for the status of a page.                       *)
UpDirty(T)   == IF T.up = << >> THEN {} ELSE T.up[1].dirty
UpSpilled(T) == IF T.up = << >> THEN {} ELSE T.up[1].spilled

dirtyroom(T) == DirtyLimit - Cardinality(T.dirty) - Cardinality(UpDirty(T))

(***************************************************************************)
(* The status of a page (is_frozen, is_modifiable, is_spilled,             *)
(* is_shadowed): the code reads it from the txnid in the page header.      *)
(***************************************************************************)
Status(T, pg) ==
  CASE pg \in T.dirty      -> "modifiable"
    [] pg \in T.spilled    -> "spilled"
    [] pg \in UpDirty(T)   -> "shadowed"
    [] pg \in UpSpilled(T) -> "upspilled"
    [] OTHER               -> "frozen"

-----------------------------------------------------------------------------
(*                       Refund to the unallocated tail                    *)

RECURSIVE TailRun(_, _)
(* The least f such that all of f .. first - 1 is in S.                    *)
TailRun(S, first) == IF first - 1 \in S THEN TailRun(S, first - 1) ELSE first

refund_reclaimed(T) ==
  LET f == TailRun(T.repnl, T.first) IN
  [T EXCEPT !.first = f, !.repnl = {p \in @ : p < f}]

refund_loose(T) ==
  LET f == TailRun(Range(T.loose), T.first) IN
  [T EXCEPT !.first = f, !.wl = f,
            !.loose = SelectSeq(@, LAMBDA p : p < f),
            !.dirty = {p \in @ : p < f}]

RECURSIVE RefundLoop(_)
RefundAgain(T, first) == IF T.first = first THEN T ELSE RefundLoop(T)

RefundStep(T) ==
  IF T.loose = << >> \/ T.wl <= T.first THEN T ELSE RefundAgain(refund_loose(T), T.first)

RefundLoop(T) == IF T.first - 1 \notin T.repnl THEN T ELSE RefundStep(refund_reclaimed(T))

txn_refund(T) ==
  RefundLoop(IF T.loose # << >> /\ T.wl > T.first THEN refund_loose(T) ELSE T)

(* The test that guards most calls of txn_refund.                          *)
Refund(T) == IF T.first - 1 \in T.repnl THEN txn_refund(T) ELSE T

-----------------------------------------------------------------------------
(*                              Retiring pages                             *)

suitable4loose(T, pg) ==
  /\ Len(T.loose) < LooseLimit
  /\ T.first > pg + LooseLimit \/ T.first <= LooseLimit

(* What is done with n pages of this transaction that are free again.      *)
Reclaim(T, pg, n) == Refund([T EXCEPT !.repnl = @ \cup Span(pg, n)])

page_retire_ex(T, pg, n) ==
  LET S  == Span(pg, n)
      st == Status(T, pg)
      \* page_wash or spill_remove
      washed == [T EXCEPT !.dirty = @ \ S, !.spilled = @ \ S]
  IN IF st = "frozen" THEN [T EXCEPT !.retired = @ \cup S]
     ELSE IF pg + n = T.first THEN txn_refund([washed EXCEPT !.first = pg])
     ELSE IF st = "modifiable" /\ n = 1 /\ suitable4loose(T, pg)
       THEN [T EXCEPT !.loose = <<pg>> \o @, !.wl = IF pg + 2 > @ THEN pg + 2 ELSE @]
     ELSE IF st = "upspilled" \/ (st = "spilled" /\ pg \in UpDirty(T))
       THEN [washed EXCEPT !.retired = @ \cup S]
     ELSE Reclaim(washed, pg, n)

-----------------------------------------------------------------------------
(*                              Allocating pages                           *)

(* page_alloc_finalize: the pages join the dirty list.                     *)
page_alloc_finalize(T, pg, n) ==
  [T EXCEPT !.dirty = @ \cup Span(pg, n), !.pg = pg, !.rc = "ok"]

repnl_get_single(T) == [T EXCEPT !.repnl = @ \ {Min(@)}, !.pg = Min(T.repnl)]

(* The lowest run of num adjacent pages of repnl, as a set of 0 or 1 page. *)
scan4seq(T, num) ==
  LET S == {p \in T.repnl : Span(p, num) \subseteq T.repnl} IN
  IF S = {} THEN {} ELSE {Min(S)}

gc_repnl_has_span(T, num) == num = 0 \/ scan4seq(T, num) # {}

(***************************************************************************)
(* is_reclaimable.  An allocation is made for user data ("data"), for the  *)
(* GC tree while a step of gc_update prepares itself ("prep"), or for the  *)
(* GC tree otherwise ("gc"): the last must not reclaim, the list of        *)
(* retired pages would grow while it is being saved.                       *)
(***************************************************************************)
is_reclaimable(T, mode, reserve) ==
  /\ mode # "gc" \/ reserve
  /\ DOMAIN T.gc # {}

gc_is_reclaimed(T, id) == id \in T.reclaimed \cup T.comeback

gc_may_clean_reclaimed(T) ==
  LET threshold == 2 * Height(T) + 3 IN
  /\ gc_stockpile(T) + (T.end - T.first) > threshold
  /\ dirtyroom(T) + Len(T.loose) > threshold

(* Mutant: a record of the transaction after the oldest reader is taken.   *)
Candidates_Late(T, lo) ==
  {id \in DOMAIN T.gc : id <= T.detent + 1 /\ id > lo /\ ~gc_is_reclaimed(T, id)}

(***************************************************************************)
(* The records gc_alloc_ex may take: no reader may need their pages.  The  *)
(* FIFO mode goes on after the highest record it has reclaimed.            *)
(***************************************************************************)
Candidates(T, lo) ==
  {id \in DOMAIN T.gc : id <= T.detent /\ id > lo /\ ~gc_is_reclaimed(T, id)}

(* Where a search starts: only FIFO skips what is behind.                  *)
SearchFrom(T) == IF T.lifo THEN 0 ELSE Last1(T.reclaimed, 0)

NextRecord(T, lo) == IF T.lifo THEN Max(Candidates(T, lo)) ELSE Min(Candidates(T, lo))

(* Takes num pages from repnl, if it has them; T.pg = 0 if not.            *)
FromRepnl(T, num, reserve) ==
  IF Cardinality(T.repnl) < num THEN [T EXCEPT !.pg = 0]
  ELSE IF reserve THEN [T EXCEPT !.pg = IF gc_repnl_has_span(T, num) THEN 1 ELSE 0]
  ELSE IF num = 1 THEN repnl_get_single(T)
  ELSE IF scan4seq(T, num) = {} THEN [T EXCEPT !.pg = 0]
  ELSE LET p == Min(scan4seq(T, num)) IN
       [T EXCEPT !.repnl = @ \ Span(p, num), !.pg = p]

(* The label "done": the pages are T.pg, or come from the tail.            *)
AllocDone(T, num, reserve) ==
  IF reserve THEN [T EXCEPT !.pg = 0, !.rc = "ok"]
  ELSE IF T.pg # 0 THEN page_alloc_finalize(T, T.pg, num)
  ELSE page_alloc_finalize([T EXCEPT !.first = @ + num], T.first, num)

(* The label "fail".                                                       *)
AllocFail(T, rc, reserve) ==
  LET T1 == IF T.err THEN T ELSE Refund(T) IN
  [T1 EXCEPT !.pg = 0, !.rc = rc, !.err = @ \/ ~reserve]

(***************************************************************************)
(* The label "no_gc": the tail of the file, grown if the geometry allows.  *)
(***************************************************************************)
NoGc(T, num, reserve) ==
  LET next == T.first + num
      aligned == next + GrowStep - (next % GrowStep)
      grown == IF next <= T.end THEN T.end ELSE IF aligned > Upper THEN Upper ELSE aligned
  IN IF reserve \/ (next > T.end /\ next > Upper)
       THEN AllocFail(T, IF reserve THEN "notfound" ELSE "full", reserve)
     ELSE AllocDone([T EXCEPT !.end = grown, !.pg = 0], num, reserve)

(***************************************************************************)
(* The label "depleted_gc".  Making or wiping a steady point and kicking   *)
(* lagging readers belong to modules Mvcc and Meta: here they are the      *)
(* steps that raise detent.                                                *)
(***************************************************************************)
FoundOrNoGc(T, num, reserve) ==
  IF T.pg # 0 THEN AllocDone(T, num, reserve) ELSE NoGc(T, num, reserve)

Depleted(T, num, reserve, scan) ==
  LET T1 == [T EXCEPT !.drained = TRUE, !.pg = 0] IN
  IF scan /\ reserve /\ num < 2 THEN [T1 EXCEPT !.rc = "ok"]
  ELSE FoundOrNoGc(IF scan THEN FromRepnl(T1, num, reserve) ELSE T1, num, reserve)

-----------------------------------------------------------------------------
(*                        The tree of the GC records                       *)

RECURSIVE ReclaimLoop(_, _, _, _, _, _, _)

ReclaimStart(T, num, mode, reserve) ==
  LET coalesce == num > 0 /\ T.root # 0 /\ Cardinality(T.repnl) < L \div 2
  IN IF T.pg # 0 THEN AllocDone(T, num, reserve)
     ELSE IF ~is_reclaimable(T, mode, reserve)
       THEN NoGc([T EXCEPT !.drained = @ \/ DOMAIN T.gc = {}], num, reserve)
     ELSE ReclaimLoop(T, num, mode, reserve, coalesce, FALSE, SearchFrom(T))

(***************************************************************************)
(* gc_alloc_ex: num pages, or with reserve only a stock of them (num = 0:  *)
(* an id) and no page.                                                     *)
(***************************************************************************)
gc_alloc_ex(T, num, mode, reserve) ==
  ReclaimStart(IF num > 1 THEN FromRepnl(T, num, reserve) ELSE [T EXCEPT !.pg = 0],
               num, mode, reserve)

PopLoose(T, mode) ==
  IF T.loose # << >>
    THEN [T EXCEPT !.loose = Tail(@), !.pg = Head(T.loose), !.rc = "ok"]
  ELSE IF T.repnl # {} THEN page_alloc_finalize(repnl_get_single(T), Min(T.repnl), 1)
  ELSE gc_alloc_ex(T, 1, mode, FALSE)

gc_alloc_single(T, mode) ==
  PopLoose(IF T.loose # << >> /\ T.wl > T.first THEN txn_refund(T) ELSE T, mode)

CopyOf(T, pg) == IF T.rc # "ok" THEN [T EXCEPT !.err = TRUE] ELSE [T EXCEPT !.retired = @ \cup {pg}]

(***************************************************************************)
(* page_touch of a page: copy on write of a frozen one, the page itself    *)
(* after unspilling or cloning it.  T.pg is the page to use.               *)
(***************************************************************************)
page_touch(T, pg, mode) ==
  IF Status(T, pg) = "frozen" THEN CopyOf(gc_alloc_single(T, mode), pg)
  ELSE [T EXCEPT !.dirty = @ \cup {pg}, !.spilled = @ \ {pg}, !.pg = pg, !.rc = "ok"]

(* The leaf of an id: the last one that starts at or before it.            *)
LeafOf(T, id) ==
  LET S == {i \in 1..Len(T.leaves) : Min(T.leaves[i].ids) <= id} IN
  IF S = {} THEN 1 ELSE Max(S)

TouchedRoot(T) == IF T.rc # "ok" THEN T ELSE [T EXCEPT !.root = T.pg]
TouchedLeaf(T, i) == IF T.rc # "ok" THEN T ELSE [T EXCEPT !.leaves[i].pg = T.pg]

TouchLeaf(T, i, mode) ==
  IF T.leaves = << >> \/ T.rc # "ok" THEN T
  ELSE TouchedLeaf(page_touch(T, T.leaves[i].pg, mode), i)

(***************************************************************************)
(* cursor_touch on the GC: the path to leaf i becomes modifiable.  The     *)
(* tree itself is only changed by early cleaning, which does not happen    *)
(* in an allocation for the GC, so i stays valid.                          *)
(***************************************************************************)
cursor_touch(T, i, mode) ==
  TouchLeaf(IF T.root = 0 THEN [T EXCEPT !.gcdirty = TRUE, !.rc = "ok"]
            ELSE TouchedRoot(page_touch([T EXCEPT !.gcdirty = TRUE], T.root, mode)), i, mode)

(* A leaf without records is unlinked, a root with one child dropped.      *)
DropRoot(T) ==
  IF T.root = 0 \/ Len(T.leaves) > 1 THEN T ELSE page_retire_ex([T EXCEPT !.root = 0], T.root, 1)

tree_rebalance(T, i) ==
  IF T.leaves[i].ids # {} THEN T
  ELSE DropRoot(page_retire_ex([T EXCEPT !.leaves = RemoveAt(@, i)], T.leaves[i].pg, 1))

(* The node goes, with the large page of its data.                         *)
NodeDel(T, i, id) ==
  LET T1 == [T EXCEPT !.gc = [k \in DOMAIN @ \ {id} |-> @[k]], !.leaves[i].ids = @ \ {id}] IN
  IF T.gc[id].big = 0 THEN T1 ELSE page_retire_ex(T1, T.gc[id].big, T.gc[id].n)

(* cursor_del of the record id.                                            *)
DelTouched(T, i, id) == IF T.rc # "ok" THEN T ELSE tree_rebalance(NodeDel(T, i, id), i)

gc_del(T, id, mode) ==
  LET i == LeafOf(T, id) IN DelTouched(cursor_touch(T, i, mode), i, id)

CleanedEarly(T, id) ==
  IF T.rc # "ok" THEN [T EXCEPT !.reclaimed = @ \cup {id}]
  ELSE [T EXCEPT !.drained = @ \/ DOMAIN T.gc = {}, !.ready = @ \cup {id}]

(***************************************************************************)
(* A record that was taken is deleted at once when that is cheap, and its  *)
(* id is then free; else it stays until gc_update removes it.              *)
(***************************************************************************)
EarlyClean(T, id, mode) ==
  IF mode = "data" /\ gc_may_clean_reclaimed(T) THEN CleanedEarly(gc_del(T, id, "gc"), id)
  ELSE [T EXCEPT !.reclaimed = @ \cup {id}]

(* What repnl has is enough, or the search goes on behind the record.      *)
ServedOrNext(T, num, mode, reserve, lo) ==
  IF T.pg # 0 THEN AllocDone(T, num, reserve)
  ELSE IF T.drained THEN Depleted(T, num, reserve, FALSE)
  ELSE ReclaimLoop(T, num, mode, reserve, FALSE, FALSE, lo)

(* A record has been merged into repnl.                                    *)
MergedRecord(T, num, mode, reserve, coalesce, lo) ==
  LET more == coalesce /\ (T.drained => DOMAIN T.gc # {}) IN
  IF T.err THEN AllocFail(T, T.rc, reserve)
  ELSE IF more /\ Cardinality(T.repnl) < L \div 2
    THEN ReclaimLoop(T, num, mode, reserve, TRUE, TRUE, lo)
  ELSE IF reserve /\ num < 2 THEN [T EXCEPT !.pg = 0, !.rc = "ok"]
  ELSE ServedOrNext(FromRepnl(T, num, reserve), num, mode, reserve, lo)

MergeRecord(T, id, num, mode, reserve, coalesce, lo) ==
  MergedRecord(EarlyClean(Refund([T EXCEPT !.repnl = @ \cup T.gc[id].pages]), id, mode),
               num, mode, reserve, coalesce, lo)

(* When repnl would grow beyond one large page (full): what it has may be  *)
(* enough, or the tail of the file is preferred.                           *)
ServedOrMerge(T, id, num, mode, reserve, coalesce, full, lo) ==
  IF T.pg # 0 THEN AllocDone(T, num, reserve)
  ELSE IF full /\ Cardinality(T.repnl) >= AugmentLimit /\ num > 0 /\ Upper >= T.first + num
    THEN Depleted(T, num, reserve, FALSE)
  ELSE MergeRecord(T, id, num, mode, reserve, coalesce /\ ~full, lo)

(***************************************************************************)
(* The label "next_gc": one record after the other is merged into repnl,   *)
(* several at once while coalescing, until the request can be served.      *)
(***************************************************************************)
ReclaimLoop(T, num, mode, reserve, coalesce, scan, lo) ==
  LET id  == NextRecord(T, lo)
      len == Cardinality(T.gc[id].pages)
      full == len + Cardinality(T.repnl) >= L
      T1  == [T EXCEPT !.drained = FALSE, !.pg = 0]
  IN IF Candidates(T, lo) = {} THEN Depleted(T, num, reserve, scan)
     ELSE IF num = 0 /\ len > 3 * (L \div 4) /\ Cardinality(T.repnl) + len > L
       THEN [T1 EXCEPT !.rc = "notfound"]
     ELSE ServedOrMerge(IF full /\ scan /\ num > 0 THEN FromRepnl(T1, num, reserve) ELSE T1,
                        id, num, mode, reserve, coalesce, full, lo)

(* page_new and page_new_large.                                            *)
page_new(T, n, mode) == IF n = 1 THEN gc_alloc_single(T, mode) ELSE gc_alloc_ex(T, n, mode, FALSE)

-----------------------------------------------------------------------------
(* The new page takes the records `upper' of leaf i.                       *)
SplitLeaf(T, i, upper) ==
  IF T.rc # "ok" THEN T
  ELSE [T EXCEPT !.leaves = InsertAt([@ EXCEPT ![i].ids = @ \ upper], i + 1,
                                     [pg |-> T.pg, ids |-> upper])]

NewRoot(T, j) == IF T.rc # "ok" THEN T ELSE [T EXCEPT !.root = T.pg, !.pg = j]

GrowRoot(T, j) ==
  IF T.rc # "ok" THEN T
  ELSE IF T.root # 0 THEN [T EXCEPT !.pg = j]
  ELSE NewRoot(gc_alloc_single(T, "gc"), j)

(***************************************************************************)
(* Room for the key id in leaf i: the leaf itself or, after a split of a   *)
(* full one, one of its halves.  T.pg is then the index of the leaf.       *)
(***************************************************************************)
LeafRoom(T, i, id) ==
  LET ids == T.leaves[i].ids
      append == i = Len(T.leaves) /\ id > Max(ids)
      sorted == SetToSortSeq(ids, <)
      upper == IF append THEN {} ELSE Range(SubSeq(sorted, Len(sorted) \div 2 + 1, Len(sorted)))
      j == IF append \/ (upper # {} /\ id > Min(upper)) THEN i + 1 ELSE i
  IN IF Cardinality(ids) < LeafCap THEN [T EXCEPT !.pg = i]
     ELSE GrowRoot(SplitLeaf(gc_alloc_single(T, "gc"), i, upper), j)

(* node_add_leaf with MDBX_RESERVE: space for cap page numbers, all zero.  *)
NodePut(T, i, id, cap, n) ==
  LET rec == [cap |-> cap, pages |-> {}, big |-> T.pg, n |-> n]
  IN IF T.rc # "ok" THEN T
     ELSE [T EXCEPT !.gc = [k \in DOMAIN @ \cup {id} |-> IF k = id THEN rec ELSE @[k]],
                    !.leaves[i].ids = @ \cup {id}]

LargePages(cap) == IF cap <= InPage THEN 0 ELSE ChunkPages(cap)

NodeAdd(T, id, cap) ==
  IF T.rc # "ok" THEN T
  ELSE NodePut(IF LargePages(cap) = 0 THEN [T EXCEPT !.pg = 0]
               ELSE page_new(T, LargePages(cap), "gc"), T.pg, id, cap, LargePages(cap))

(* A large page of this transaction that is not more than one page too     *)
(* long is used again.                                                     *)
Reusable(T, id, cap) ==
  LET r == T.gc[id] IN
  /\ id \in DOMAIN T.gc
  /\ IF r.big = 0 THEN r.cap = cap
     ELSE Status(T, r.big) # "frozen" /\ r.n \in {LargePages(cap), LargePages(cap) + 1}

PutRoom(T, i, id) == IF T.leaves[i].ids = {} THEN [T EXCEPT !.pg = i] ELSE LeafRoom(T, i, id)

PutTouched(T, i, id, cap) ==
  IF T.rc # "ok" THEN T
  ELSE IF Reusable(T, id, cap) THEN [T EXCEPT !.gc[id].cap = cap]
  ELSE NodeAdd(PutRoom(IF id \in DOMAIN T.gc THEN NodeDel(T, i, id) ELSE T, i, id), id, cap)

(* The first record gets a root leaf.                                      *)
NewLeaf(T) == IF T.rc # "ok" THEN T ELSE [T EXCEPT !.leaves = << [pg |-> T.pg, ids |-> {}] >>]

PutLeaf(T, id, cap) ==
  LET i == IF T.leaves[1].ids = {} THEN 1 ELSE LeafOf(T, id)
  IN IF T.rc # "ok" THEN T ELSE PutTouched(cursor_touch(T, i, "gc"), i, id, cap)

(* cursor_put of the record id with MDBX_RESERVE for cap page numbers.     *)
gc_put(T, id, cap) ==
  PutLeaf(IF T.leaves # << >> THEN [T EXCEPT !.rc = "ok"]
          ELSE NewLeaf(gc_alloc_single([T EXCEPT !.gcdirty = TRUE], "gc")), id, cap)

=============================================================================
