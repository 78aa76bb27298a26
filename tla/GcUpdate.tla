------------------------------ MODULE GcUpdate ------------------------------
(***************************************************************************)
(* gc_update (mdbx.c): at commit the list of retired pages and what is     *)
(* left of the reclaimed ones are written to the GC.  The update changes   *)
(* the tree it writes to: every put or delete may take pages from the      *)
(* lists that are being saved and add others to them, so the code works in *)
(* a loop until the lists and the space reserved for them agree.           *)
(*                                                                         *)
(* T.u is the gcu_t of the code: loop, prev_first (prev_first_unallocated),*)
(* stored (retired_stored), bigfoot, lo and hi (return_reserved_lo/hi),    *)
(* left (return_left), gc_first, dense; `cur' is the id the cursor stands  *)
(* at and `pc' where the loop goes on: "retry", "loop", "done" or "fail".  *)
(***************************************************************************)
EXTENDS Gc

CONSTANTS MaxLoops,     \* iterations before MDBX_PROBLEM (42)
          FactorBits    \* scale of the fixed-point factor of gc_fill_returned (32)

(* x | 3, and the roundings to a multiple of g.                            *)
Or3(x) == x - (x % 4) + 3
CeilTo(x, g) == ((x + g - 1) \div g) * g
FloorTo(x, g) == (x \div g) * g
CeilDiv(x, d) == (x + d - 1) \div d

(* The list of the pages of S, the highest first (a PNL).                  *)
Pnl(S) == LET m == Last1(S, 0) IN
          SelectSeq([i \in 1..m |-> m + 1 - i], LAMBDA p : p \in S)

Ok(T) == [T EXCEPT !.rc = "ok"]

gc_put_init(T) ==
  [T EXCEPT !.u = [loop |-> 0, prev_first |-> 0, stored |-> 0, bigfoot |-> T.txnid, lo |-> 0,
                   hi |-> 0, left |-> 0, gc_first |-> 0, dense |-> FALSE, cur |-> 0,
                   pc |-> "retry"]]

-----------------------------------------------------------------------------
(*                    The stock of pages for a step                        *)

gc_touch(T) == cursor_touch(T, LeafOf(T, T.u.cur), "prep")

RECURSIVE StockUp(_, _)
(* Reclaims records until there are `need' pages or no record is left.     *)
StockUp(T, need) ==
  IF T.rc = "ok" /\ gc_stockpile(T) < need THEN StockUp(gc_alloc_ex(T, 1, "prep", TRUE), need)
  ELSE IF T.rc = "notfound" THEN Ok(T) ELSE T

(***************************************************************************)
(* Makes the path of the cursor modifiable and gathers enough pages that   *)
(* the put or delete that follows neither retires a page nor reclaims.     *)
(***************************************************************************)
gc_prepare_stockpile(T, for_retired) ==
  LET for_cow == Height(T)
      for_rebalance == for_cow + 2
  IN IF for_retired < 2 /\ gc_stockpile(T) > for_retired + for_cow + for_rebalance THEN Ok(T)
     ELSE StockUp(gc_touch(T), for_retired + for_rebalance)

RECURSIVE BranchPages(_)
BranchPages(entries) ==
  IF entries <= 1 THEN 0
  ELSE LET n == CeilDiv(entries, PerBranch) IN n + BranchPages(n)

gc_prepare_stockpile4retired(T) ==
  LET left == Cardinality(T.retired) - T.u.stored
      fst  == left > 0 /\ T.u.stored = 0
      T0   == IF fst THEN [T EXCEPT !.u.cur = Last1(DOMAIN T.gc, 0)] ELSE T
      n    == CeilDiv(left, goodchunk) + (IF fst THEN 1 ELSE 0)
  IN gc_prepare_stockpile(T0, IF left > 0 THEN n + BranchPages(n) ELSE 0)

-----------------------------------------------------------------------------
(*                      Saving the list of retired pages                   *)

RECURSIVE gc_clean_stored_retired(_)
CleanNext(T) == IF T.u.bigfoot >= T.txnid THEN gc_clean_stored_retired(T) ELSE T

CleanedOne(T) == IF T.rc # "ok" THEN T ELSE CleanNext([T EXCEPT !.u.bigfoot = @ - 1])

(* Deletes what was stored, from bigfoot down to txnid.                    *)
gc_clean_stored_retired(T) ==
  LET found == T.u.bigfoot \in DOMAIN T.gc
      forget(X) == [X EXCEPT !.u.stored = IF found THEN 0 ELSE @]
  IN IF T.u.stored = 0 THEN Ok(T)
     ELSE forget(CleanedOne(IF found
                              THEN gc_del([T EXCEPT !.u.cur = T.u.bigfoot], T.u.bigfoot, "gc")
                              ELSE Ok(T)))

(***************************************************************************)
(* Loose pages join the list of retired pages as long as the GC is not     *)
(* changed otherwise, else the reclaimed ones.                             *)
(***************************************************************************)
gc_merge_loose(T) ==
  LET S == Range(T.loose)
      few == ~T.gcdirty /\ Len(T.loose) < 3 + 2 * Height(T)
  IN [T EXCEPT !.retired = IF few THEN @ \cup S ELSE @,
               !.repnl = IF few THEN @ ELSE @ \cup S,
               !.dirty = @ \ S, !.loose = << >>, !.wl = 0]

RECURSIVE StoreChunks(_, _)
(* Mutant: without LIFO every record gets the same end of the list.        *)
StoredChunk_Same(T, before, chunk_hi) ==
  LET after == Cardinality(T.retired)
      chunk == IF after - T.u.stored < chunk_hi THEN after - T.u.stored ELSE chunk_hi
      retry == before # after /\ chunk < after
      at == IF T.lifo THEN T.u.stored ELSE before - chunk
      T1 == [T EXCEPT !.u.stored = @ + chunk,
                      !.gc[T.u.bigfoot].pages =
                          IF retry THEN @ ELSE Range(SubSeq(Pnl(T.retired), at + 1, at + chunk))]
  IN IF T.rc # "ok" THEN T
     ELSE IF T1.u.stored < after THEN StoreChunks([T1 EXCEPT !.u.bigfoot = @ + 1], before)
     ELSE [T1 EXCEPT !.pg = IF retry THEN 1 ELSE 0]

(* The record bigfoot has been put: its part of the list is copied into    *)
(* it, unless the list has changed meanwhile.                              *)
StoredChunk(T, before, chunk_hi) ==
  LET after == Cardinality(T.retired)
      chunk == IF after - T.u.stored < chunk_hi THEN after - T.u.stored ELSE chunk_hi
      retry == before # after /\ chunk < after
      at == IF T.lifo THEN T.u.stored ELSE before - T.u.stored - chunk
      T1 == [T EXCEPT !.u.stored = @ + chunk,
                      !.gc[T.u.bigfoot].pages =
                          IF retry THEN @ ELSE Range(SubSeq(Pnl(T.retired), at + 1, at + chunk))]
  IN IF T.rc # "ok" THEN T
     ELSE IF T1.u.stored < after THEN StoreChunks([T1 EXCEPT !.u.bigfoot = @ + 1], before)
     ELSE [T1 EXCEPT !.pg = IF retry THEN 1 ELSE 0]

StoreChunk(T, before) ==
  LET left == before - T.u.stored
      chunk_hi == IF Or3(left) > goodchunk THEN goodchunk ELSE Or3(left)
  IN IF T.rc # "ok" THEN T
     ELSE StoredChunk(gc_put([T EXCEPT !.u.cur = T.u.bigfoot], T.u.bigfoot, chunk_hi),
                      before, chunk_hi)

(***************************************************************************)
(* One record after the other, with the ids txnid, txnid + 1, ... .  The   *)
(* put may have retired pages: `before' is the length the list had, and    *)
(* T.pg tells the caller whether all must be stored again.                 *)
(***************************************************************************)
StoreChunks(T, before) ==
  StoreChunk(IF T.u.stored = 0 THEN Ok(T) ELSE gc_prepare_stockpile4retired(T), before)

RECURSIVE gc_store_retired(_)
StoreAgain(T) == IF T.rc # "ok" \/ T.pg = 0 THEN T ELSE gc_store_retired(T)

StoreAll(T) ==
  IF T.rc # "ok" THEN T
  ELSE StoreAgain(StoreChunks([T EXCEPT !.u.stored = 0, !.u.bigfoot = T.txnid],
                              Cardinality(T.retired)))

StoreCleaned(T) == IF T.rc # "ok" THEN T ELSE StoreAll(gc_prepare_stockpile4retired(T))

gc_store_retired(T) ==
  StoreCleaned(IF T.u.bigfoot > T.txnid THEN gc_clean_stored_retired(T) ELSE Ok(T))

-----------------------------------------------------------------------------
(*                     Ids for the pages that go back                      *)

RECURSIVE gc_remove_rkl(_, _)
RklEdge(T, rkl) == IF T.lifo THEN Max(T[rkl]) ELSE Min(T[rkl])

Removed(T, rkl, id) ==
  IF T.rc # "ok" THEN T
  ELSE gc_remove_rkl([T EXCEPT ![rkl] = @ \ {id}, !.ready = @ \cup {id}], rkl)

RemoveRecord(T, rkl, id) ==
  IF T.rc # "ok" THEN T
  ELSE IF RklEdge(T, rkl) # id THEN gc_remove_rkl(T, rkl)
  ELSE Removed(gc_del(T, id, "gc"), rkl, id)

(* Deletes the records of a list of ids, which are then free for reuse.    *)
gc_remove_rkl(T, rkl) ==
  LET id == RklEdge(T, rkl)
      T0 == [T EXCEPT !.u.gc_first = IF @ = id THEN 0 ELSE @, !.u.cur = id]
  IN IF T[rkl] = {} THEN Ok(T)
     ELSE IF id \notin DOMAIN T.gc THEN Removed(Ok(T0), rkl, id)
     ELSE RemoveRecord(gc_prepare_stockpile(T0, 0), rkl, id)

gc_clear_reclaimed(T) == gc_remove_rkl(T, "reclaimed")

gc_clear_returned(T) == gc_remove_rkl([T EXCEPT !.u.lo = 0, !.u.hi = 0], "comeback")

(***************************************************************************)
(* Free ids below the detent, the highest first, a goodchunk for each,     *)
(* until there are enough.  FIFO looks only before the first record when   *)
(* the records are dense.  (The code gives up on a deep search for ids     *)
(* more than maxgc_per_branch below the detent, more ids than the runs     *)
(* use.)                                                                   *)
(***************************************************************************)
gc_search_holes(T) ==
  LET first == IF T.u.gc_first # 0 THEN T.u.gc_first ELSE First1(DOMAIN T.gc, T.detent)
      items == Cardinality(DOMAIN T.gc)
      hi    == IF ~T.lifo /\ first < T.detent /\ T.detent - first < items THEN first ELSE T.detent
      holes == (MIN_TXNID .. hi - 1) \ (DOMAIN T.gc \cup T.ready \cup T.comeback)
      n     == Min({CeilDiv(T.u.left, goodchunk), Cardinality(holes)})
      sequel == Range(SubSeq(Pnl(holes), 1, n))
  IN [T EXCEPT !.u.gc_first = first, !.u.left = @ - goodchunk * Cardinality(sequel),
               !.ready = @ \cup sequel, !.u.cur = First1(sequel, @)]

(* Mutant: the word for the length of a list is counted as room.           *)
Reserved_Over(T, chunk_lo, chunk_hi) ==
  IF T.rc # "ok" THEN T
  ELSE [T EXCEPT !.u.lo = @ + chunk_lo, !.u.hi = @ + chunk_hi + 1,
                 !.rc = IF T.reclaimed # {} THEN "true" ELSE "ok"]

Reserved(T, chunk_lo, chunk_hi) ==
  IF T.rc # "ok" THEN T
  ELSE [T EXCEPT !.u.lo = @ + chunk_lo, !.u.hi = @ + chunk_hi,
                 !.rc = IF T.reclaimed # {} THEN "true" ELSE "ok"]

ReserveRecord(T, id, chunk_lo, chunk_hi) ==
  IF id \in DOMAIN T.gc THEN [T EXCEPT !.rc = "keyexist"]
  ELSE Reserved(gc_put([T EXCEPT !.u.cur = id], id, chunk_hi), chunk_lo, chunk_hi)

(***************************************************************************)
(* Reserves a record for chunk_hi page numbers under the highest free id.  *)
(* RESULT_TRUE ("true"): records were reclaimed meanwhile, start again.    *)
(***************************************************************************)
gc_reserve4return(T, chunk_lo, chunk_hi) ==
  LET id == Max(T.ready) IN
  IF T.ready = {} THEN [T EXCEPT !.rc = "problem"]
  ELSE ReserveRecord(gc_prepare_stockpile([T EXCEPT !.ready = @ \ {id}, !.comeback = @ \cup {id}], 0),
                     id, chunk_lo, chunk_hi)

-----------------------------------------------------------------------------
(*                               Dense mode                                *)

dense_chunk_outlay(T, chunk) ==
  LET need == ChunkPages(chunk) IN IF gc_repnl_has_span(T, need) THEN need ELSE 0

RECURSIVE AdjustBisect(_, _, _, _)
AdjustBisect(T, chunk, lo, hi) ==
  LET adjusted == (hi + lo) \div 2
      probe == chunk - dense_chunk_outlay(T, adjusted)
  IN IF probe > adjusted /\ adjusted + 1 < hi THEN AdjustBisect(T, chunk, adjusted + 1, hi)
     ELSE IF probe < adjusted /\ lo < adjusted - 1 THEN AdjustBisect(T, chunk, lo, adjusted - 1)
     ELSE adjusted

(* The largest chunk that is left when its own pages are taken off.        *)
dense_adjust_chunk(T, chunk) ==
  IF chunk <= L THEN chunk ELSE AdjustBisect(T, chunk, chunk - ChunkPages(chunk) - 1, chunk + 1)

dense_adjust_amount(T, amount) ==
  IF amount + 2 + Height(T) < L THEN L ELSE amount + W \div 2

Adjust(T, amount) ==
  IF T.u.loop = 1 \/ T.u.loop % 3 = 0 THEN dense_adjust_amount(T, amount) ELSE amount

RECURSIVE ReserveSolution(_, _, _, _), ReserveUnsolved(_)
NextOfSolution(T, sol, i) ==
  LET amount == Cardinality(T.repnl) IN
  IF T.rc # "ok" THEN T
  ELSE IF T.u.hi >= amount THEN [T EXCEPT !.pg = 1]
  ELSE ReserveSolution(T, sol, i, dense_adjust_amount(T, amount) - T.u.lo)

(***************************************************************************)
(* Reserves the runs of a solution, longest first.  T.pg = 1: the reserve  *)
(* is already large enough.                                                *)
(***************************************************************************)
ReserveSolution(T, sol, i, left_max) ==
  LET hi0 == L + W * (i - 1)
      chunk_hi == IF hi0 > left_max THEN left_max ELSE hi0
  IN IF i = 0 THEN [T EXCEPT !.rc = "ok", !.pg = 0]
     ELSE IF sol[i] = 0 THEN ReserveSolution(T, sol, i - 1, left_max)
     ELSE NextOfSolution(gc_reserve4return(T, chunk_hi - L + goodchunk, chunk_hi),
                         [sol EXCEPT ![i] = @ - 1], i)

MoreUnsolved(T) ==
  IF T.rc = "ok" /\ T.u.hi < Cardinality(T.repnl) THEN ReserveUnsolved(T) ELSE T

(* What is left is divided evenly between the ids that are left.           *)
ReserveUnsolved(T) ==
  LET left  == dense_adjust_amount(T, Cardinality(T.repnl)) - T.u.hi
      adjusted == dense_adjust_chunk(T, CeilDiv(left, Cardinality(T.ready)))
      more == adjusted > L
  IN IF T.ready = {} THEN [T EXCEPT !.rc = "true"]
     ELSE MoreUnsolved(gc_reserve4return(T, IF more THEN L + FloorTo(adjusted - L, W) ELSE adjusted,
                                         IF more THEN L + CeilTo(adjusted - L, W) ELSE L))

UnsolvedRest(T) == IF T.rc \notin {"ok", "notfound"} THEN T ELSE ReserveUnsolved(T)

OrSpan(T) ==
  IF T.rc # "notfound" THEN T
  ELSE gc_alloc_ex(T, ChunkPages(dense_adjust_chunk(T, T.u.left)), "prep", TRUE)

(* The label where no solution was found, or it did not suffice.           *)
Unsolved(T) == UnsolvedRest(IF T.u.left > L THEN OrSpan(gc_alloc_ex(T, 0, "prep", TRUE)) ELSE Ok(T))

SolvedRest(T) == IF T.rc # "ok" \/ T.pg = 1 THEN T ELSE Unsolved(T)

BySolution(T, s, end, max) ==
  IF s.rc = "problem" THEN [T EXCEPT !.rc = "problem"]
  ELSE IF s.rc = "none" THEN [T EXCEPT !.rc = "ok", !.pg = 0]
  ELSE ReserveSolution(T, s.sol, end, max)

(* A solution for the upper bound, or else for the lower one.              *)
SolveAgain(T, s, hist, max, min, left_min) ==
  LET again == s.rc = "none" /\ max # left_min /\ max # min
      T1 == [T EXCEPT !.u.left = IF again THEN min ELSE max]
  IN BySolution(T1, IF again THEN gc_dense_solve(hist, Cardinality(T.ready), min) ELSE s,
                hist.end, max)

Solve(T, hist, max, min, left_min) ==
  SolveAgain(T, gc_dense_solve(hist, Cardinality(T.ready), max), hist, max, min, left_min)

gc_handle_dense(T, left_min, left_max) ==
  SolvedRest(IF T.ready = {} THEN [T EXCEPT !.rc = IF T.comeback # {} THEN "true" ELSE "ok", !.pg = 0]
             ELSE Solve(T, gc_dense_hist(T.repnl), Adjust(T, left_max), Adjust(T, left_min), left_min))

-----------------------------------------------------------------------------
(*                      Reserving and filling records                      *)

Rerere(T, suffice, left_min, left_max) ==
  LET unfit == ~suffice /\ T.u.left > 0 /\ left_min > Cardinality(T.ready) * L
      chunk_lo == IF left_min < InPage THEN left_min ELSE goodchunk
      chunk_hi == IF Or3(left_max + 1) > InPage THEN L ELSE Or3(left_max + 1)
  IN IF unfit THEN gc_handle_dense([T EXCEPT !.u.dense = TRUE], left_min, left_max)
     ELSE gc_reserve4return(T, chunk_lo, chunk_hi)

(***************************************************************************)
(* One step of reserving.  (The branch for a reserve that suffices is not  *)
(* reached: the only caller has made sure that it does not.)               *)
(***************************************************************************)
gc_rerere(T) ==
  LET left_min == Cardinality(T.repnl) - T.u.hi
      left_max == Cardinality(T.repnl) - T.u.lo
      suffice == \/ left_min < L /\ T.ready # {}
                 \/ Cardinality(T.ready) * goodchunk >= left_max
  IN Rerere(IF suffice THEN T ELSE gc_search_holes([T EXCEPT !.u.left = left_max]),
            suffice, left_min, left_max)

(* The page that holds the data of a record is made modifiable again.      *)
gc_enforce_not_spilled(T, id) ==
  LET i == LeafOf(T, id)
      T1 == IF T.gc[id].big # 0
              THEN [T EXCEPT !.dirty = @ \cup Span(T.gc[id].big, T.gc[id].n),
                             !.spilled = @ \ Span(T.gc[id].big, T.gc[id].n)]
              ELSE [T EXCEPT !.dirty = @ \cup {T.leaves[i].pg},
                             !.spilled = @ \ {T.leaves[i].pg}]
  IN [T1 EXCEPT !.rc = "ok", !.u.cur = id]

RECURSIVE FillSeries(_, _, _, _, _)
(***************************************************************************)
(* Fills the records `ids' with the lowest pages first; the surplus of the *)
(* reserve is spread over the records in proportion to their length.       *)
(***************************************************************************)
FillSeries(T, ids, left, surplus, factor) ==
  LET id == Head(ids)
      T1 == gc_enforce_not_spilled(T, id)
      chunk_hi == T.gc[id].cap
      scaled(x) == (x * factor) \div 2^FactorBits
      hole == scaled(chunk_hi)
      spread == chunk_hi - hole -
        (IF chunk_hi - hole > 1 /\ surplus - hole > scaled(left + surplus - chunk_hi) THEN 1 ELSE 0)
      chunk == IF left <= chunk_hi THEN left
               ELSE IF surplus > 0 /\ Len(ids) > 1 THEN spread ELSE chunk_hi
      lowest == Range(SubSeq(Pnl(T.repnl), left - chunk + 1, left))
      T2 == [T1 EXCEPT !.gc[id].pages = lowest]
  IN IF ids = << >> THEN [T EXCEPT !.rc = "problem"]
     ELSE IF chunk_hi - chunk >= W THEN [T1 EXCEPT !.rc = "true"]
     ELSE IF left = chunk THEN T2
     ELSE FillSeries(T2, Tail(ids), left - chunk, surplus - (chunk_hi - chunk), factor)

gc_fill_returned(T) ==
  LET amount == Cardinality(T.repnl)
      down == Pnl(T.comeback)
      ids == IF T.lifo THEN down ELSE Reverse(down)
      surplus == T.u.hi - amount
      T1 == gc_enforce_not_spilled(T, ids[1])
  IN IF Len(ids) > 1
       THEN FillSeries(T, ids, amount, surplus, (surplus * 2^FactorBits) \div T.u.hi)
     ELSE IF T.gc[ids[1]].cap - amount >= 2 * W THEN [T1 EXCEPT !.rc = "true"]
     ELSE [T1 EXCEPT !.gc[ids[1]].pages = T.repnl]

-----------------------------------------------------------------------------
(*                               The loop                                  *)

GoTo(T, pc) == [T EXCEPT !.u.pc = pc]

(* Ends the update with the code of T.                                     *)
Bailout(T) == [GoTo(T, IF T.rc = "ok" THEN "done" ELSE "fail") EXCEPT !.repnl = {}]

RetryLoop(T) == IF T.rc # "ok" THEN Bailout(T) ELSE GoTo(T, "loop")

RetryCleaned(T) ==
  IF T.rc # "ok" THEN Bailout(T) ELSE RetryLoop(gc_clear_returned([T EXCEPT !.u.prev_first = T.first]))

(* The label "retry".                                                      *)
UpdateRetry(T) ==
  LET shrunk == T.u.prev_first > T.first
      T0 == [T EXCEPT !.u.loop = IF shrunk THEN @ ELSE @ + 1]
  IN IF T0.u.loop > MaxLoops THEN Bailout([T0 EXCEPT !.rc = "problem"])
     ELSE RetryCleaned(IF shrunk THEN gc_clean_stored_retired(T0) ELSE Ok(T0))

(* What follows a step of the reserve: again, from the start, or give up.  *)
After(T, pc) ==
  IF T.rc = "ok" THEN GoTo(T, pc) ELSE IF T.rc = "true" THEN GoTo(T, "retry") ELSE Bailout(T)

(* The end of the loop: loose pages that appeared meanwhile start it again. *)
UpdateEnd(T) == IF T.loose # << >> THEN GoTo(T, "retry") ELSE Bailout(Ok(T))

Filled(T) == IF T.rc # "ok" THEN After(T, "loop") ELSE UpdateEnd(T)

LoopRefunded(T) ==
  LET amount == Cardinality(T.repnl) IN
  IF T.u.stored < Cardinality(T.retired) THEN After(gc_store_retired(T), "loop")
  ELSE IF amount + L <= T.u.lo /\ ~T.u.dense THEN GoTo(T, "retry")
  ELSE IF T.u.hi < amount THEN After(gc_rerere(T), "loop")
  ELSE IF amount = 0 THEN UpdateEnd(T)
  ELSE Filled(gc_fill_returned(T))

LoopCleared(T) ==
  IF T.rc # "ok" THEN Bailout(T)
  ELSE LoopRefunded(txn_refund(IF T.loose # << >> THEN gc_merge_loose(T) ELSE T))

(* One iteration of the loop.                                              *)
UpdateLoop(T) == LoopCleared(gc_clear_reclaimed(T))

(* gc_update, one round of its loop at a time.                             *)
gc_update(T) == IF T.u.pc = "retry" THEN UpdateRetry(T) ELSE UpdateLoop(T)

=============================================================================
