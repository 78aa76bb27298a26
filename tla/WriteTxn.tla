------------------------------ MODULE WriteTxn ------------------------------
(***************************************************************************)
(* Write transactions of mdbx.c seen from their pages: a transaction       *)
(* begins on the last snapshot, allocates, touches and retires pages of    *)
(* user data, may spill its dirty pages, may have a nested transaction     *)
(* that is merged into it or dropped, and commits by saving the lists of   *)
(* free pages in the GC (module GcUpdate, one round of its loop per step)  *)
(* or is aborted.  Readers keep old snapshots alive: db.snaps maps the ids *)
(* of the snapshots in use, the last one always among them, to the pages   *)
(* they consist of.                                                        *)
(***************************************************************************)
EXTENDS GcUpdate

CONSTANTS INITIAL_TXNID,  \* the snapshot of a new database
          Lower,          \* its size in pages
          Loads,          \* how many pages a bulk operation allocates
          LargeSizes,     \* pages of a large value
          Patterns,       \* which data pages a bulk operation is about
          Modes,          \* MDBX_LIFORECLAIM set or not, per transaction
          MaxTxns, MaxOps, MaxSnaps   \* bounds: transactions, operations, snapshots in use

VARIABLES db,     \* the last snapshot: txnid, first, end, data, gc, leaves, root, snaps
          txn,    \* << >>, or the transaction in work in module Gc's representation
          txns, ops   \* transactions begun, operations done

vars == <<db, txn, txns, ops>>

Pages(spans) == UNION {Span(s.pg, s.n) : s \in spans}

GcPages(T) ==
  {T.leaves[i].pg : i \in 1..Len(T.leaves)} \cup (IF T.root = 0 THEN {} ELSE {T.root})
    \cup UNION {Span(T.gc[id].big, T.gc[id].n) : id \in {k \in DOMAIN T.gc : T.gc[k].big # 0}}

InUse(T) == Pages(T.data) \cup GcPages(T)

Oldest == Min(DOMAIN db.snaps)

-----------------------------------------------------------------------------
(*                        Begin, operations, spilling                      *)

NoUpdate == [pc |-> "none"]

(* basal_start_locked.                                                     *)
basal_start(d, lifo) ==
  [lifo |-> lifo, txnid |-> d.txnid + 1, detent |-> Min(DOMAIN d.snaps), first |-> d.first, end |-> d.end,
   repnl |-> {}, retired |-> {}, loose |-> << >>, wl |-> 0, dirty |-> {}, spilled |-> {},
   up |-> << >>, data |-> d.data, gc |-> d.gc, leaves |-> d.leaves, root |-> d.root,
   reclaimed |-> {}, ready |-> {}, comeback |-> {}, drained |-> FALSE, gcdirty |-> FALSE,
   err |-> FALSE, pg |-> 0, rc |-> "ok", u |-> NoUpdate]

RECURSIVE Bulk(_, _, _)
(***************************************************************************)
(* A bulk operation is a sequence of calls, one per element of s (halving  *)
(* keeps TLC's stack low): "put" allocates a page (page_new), "del"        *)
(* retires the span that starts at the page, "touch" makes the page one of *)
(* the transaction's own (page_touch).  It ends when a call fails.         *)
(***************************************************************************)
Bulk(T, op, s) ==
  LET half == Len(s) \div 2
      pg == Head(s)
      old == CHOOSE x \in T.data : x.pg = pg
      T1 == IF op = "put" THEN page_new(T, 1, "data") ELSE page_touch(T, pg, "data")
      kept == IF op = "put" THEN T.data ELSE T.data \ {old}
  IN IF s = << >> \/ T.err THEN T
     ELSE IF half > 0
       THEN Bulk(Bulk(T, op, SubSeq(s, 1, half)), op, SubSeq(s, half + 1, Len(s)))
     ELSE IF op = "del" THEN page_retire_ex([T EXCEPT !.data = @ \ {old}], pg, old.n)
     ELSE IF T1.rc # "ok" THEN T1
     ELSE [T1 EXCEPT !.data = kept \cup {[pg |-> T1.pg, n |-> 1]}]

(* A value on n pages (page_new_large).                                    *)
PutLarge(T, n) ==
  LET T1 == page_new(T, n, "data") IN
  IF T1.rc # "ok" THEN T1 ELSE [T1 EXCEPT !.data = @ \cup {[pg |-> T1.pg, n |-> n]}]

(* The data pages a bulk operation is about, in the order it meets them.   *)
Chosen(T, pattern) ==
  LET heads == Reverse(Pnl({s.pg : s \in T.data}))
      half == Len(heads) \div 2
  IN CASE pattern = "all"  -> heads
       [] pattern = "low"  -> SubSeq(heads, 1, half)
       [] pattern = "high" -> SubSeq(heads, half + 1, Len(heads))
       [] pattern = "odd"  -> [i \in 1..(Len(heads) + 1) \div 2 |-> heads[2 * i - 1]]
       [] pattern = "one"  -> SubSeq(heads, 1, 1)

Singles(T, pgs) == SelectSeq(pgs, LAMBDA p : [pg |-> p, n |-> 1] \in T.data)

(* txn_spill of all that can be spilled: everything but the loose pages.   *)
txn_spill(T) ==
  LET S == T.dirty \ Range(T.loose) IN
  [T EXCEPT !.dirty = @ \ S, !.spilled = @ \cup S]

-----------------------------------------------------------------------------
(*                           Nested transactions                           *)

(* nested_start: the loose pages of the parent become reclaimed ones.      *)
nested_start(P) ==
  LET S  == Range(P.loose)
      P1 == [P EXCEPT !.repnl = @ \cup S, !.dirty = @ \ S, !.loose = << >>, !.wl = 0]
  IN [P1 EXCEPT !.up = << P1 >>, !.dirty = {}, !.spilled = {}, !.gcdirty = FALSE]

(* Mutant: every page that the child retired is taken for the parent's.    *)
nested_merge_all(P, T) ==
  LET d0 == {p \in P.dirty : p < T.first} \ T.repnl
      back == T.retired \ P.retired
      repnl == T.repnl \cup back
  IN [T EXCEPT !.up = P.up, !.repnl = repnl, !.retired = @ \ back,
               !.dirty = (d0 \ (back \cup T.spilled)) \cup T.dirty,
               !.spilled = ({p \in P.spilled : p < T.first} \ (repnl \cup T.dirty)) \cup T.spilled]

(***************************************************************************)
(* nested_merge: the dirty and spilled pages of the child replace those of *)
(* the parent, without what was refunded, reclaimed or retired meanwhile.  *)
(* A page of the parent's own that the child retired is free at once.      *)
(***************************************************************************)
nested_merge(P, T) ==
  LET d0 == {p \in P.dirty : p < T.first} \ T.repnl
      back == (T.retired \ P.retired) \cap (d0 \cup P.spilled)
      repnl == T.repnl \cup back
  IN [T EXCEPT !.up = P.up, !.repnl = repnl, !.retired = @ \ back,
               !.dirty = (d0 \ (back \cup T.spilled)) \cup T.dirty,
               !.spilled = ({p \in P.spilled : p < T.first} \ (repnl \cup T.dirty)) \cup T.spilled]

(* nested_join.                                                            *)
nested_join(T) ==
  LET P == T.up[1] IN
  [txn_refund(nested_merge(P, T)) EXCEPT !.gcdirty = @ \/ P.gcdirty, !.err = @ \/ P.err]

-----------------------------------------------------------------------------
(*                                 Actions                                 *)

Open(T) == T # << >> /\ T.u.pc = "none"
Usable == Open(txn) /\ ~txn.err

Begin ==
  /\ txn = << >> /\ txns < MaxTxns
  /\ \E lifo \in Modes : txn' = basal_start(db, lifo)
  /\ txns' = txns + 1
  /\ UNCHANGED <<db, ops>>

Do(T) == Usable /\ ops < MaxOps /\ txn' = T /\ ops' = ops + 1 /\ UNCHANGED <<db, txns>>

Put == Usable /\ \E k \in Loads : Do(Bulk(txn, "put", [i \in 1..k |-> i]))

PutBig == Usable /\ \E n \in LargeSizes : Do(PutLarge(txn, n))

Del == Usable /\ txn.data # {} /\ \E p \in Patterns : Do(Bulk(txn, "del", Chosen(txn, p)))

Update == Usable /\ txn.data # {}
          /\ \E p \in Patterns : Do(Bulk(txn, "touch", Singles(txn, Chosen(txn, p))))

(* Dirty pages are written out when the list of them is full.              *)
Spill == Usable /\ txn.dirty \ Range(txn.loose) # {} /\ Do(txn_spill(txn))

BeginNested ==
  /\ Usable /\ txn.up = << >>
  /\ txn' = nested_start(txn) /\ UNCHANGED <<db, txns, ops>>

CommitNested ==
  /\ Usable /\ txn.up # << >>
  /\ txn' = nested_join(txn) /\ UNCHANGED <<db, txns, ops>>

(* nested_undo: the parent goes on as it was.                              *)
AbortNested ==
  /\ Open(txn) /\ txn.up # << >>
  /\ txn' = [txn.up[1] EXCEPT !.detent = txn.detent] /\ UNCHANGED <<db, txns, ops>>

(* txn_nested_checkpoint: merged into the parent, and begun anew.          *)
CheckpointNested ==
  /\ Usable /\ txn.up # << >> /\ txn.dirty \cup txn.spilled # {}
  /\ txn' = nested_start(nested_join(txn)) /\ UNCHANGED <<db, txns, ops>>

(* A reader that held the oldest snapshot has gone.                        *)
ReaderEnds ==
  /\ Cardinality(DOMAIN db.snaps) > 1
  /\ db' = [db EXCEPT !.snaps = [id \in DOMAIN @ \ {Oldest} |-> @[id]]]
  /\ UNCHANGED <<txn, txns, ops>>

(* txn_gc_detent: the writer looks for the oldest reader again.            *)
txn_gc_detent ==
  /\ txn # << >> /\ txn.detent # Oldest
  /\ txn' = [txn EXCEPT !.detent = Oldest] /\ UNCHANGED <<db, txns, ops>>

(* txn_basal_end without a commit: an abort, or the end of a failed one.   *)
Abort ==
  /\ txn # << >> /\ txn.up = << >> /\ (Open(txn) \/ txn.u.pc = "fail")
  /\ txn' = << >> /\ UNCHANGED <<db, txns, ops>>

(* txn_basal_rollback: ends and starts again under the same lock.          *)
Rollback ==
  /\ Open(txn) /\ txn.up = << >> /\ txns < MaxTxns
  /\ txn' = basal_start(db, txn.lifo) /\ txns' = txns + 1
  /\ UNCHANGED <<db, ops>>

(* Nothing has been changed.                                               *)
Pure(T) ==
  /\ T.dirty \cup T.spilled \cup T.retired \cup T.repnl = {} /\ T.loose = << >>
  /\ T.data = db.data /\ T.gc = db.gc

(***************************************************************************)
(* txn_basal_commit up to gc_update.  A transaction without changes just   *)
(* ends, unless the last snapshot is a steady one.                         *)
(***************************************************************************)
Commit ==
  /\ Usable /\ txn.up = << >>
  /\ \/ Pure(txn) /\ txn' = << >>
     \/ txn' = gc_put_init(txn)
  /\ UNCHANGED <<db, txns, ops>>

GcStep ==
  /\ txn # << >> /\ txn.u.pc \in {"retry", "loop"}
  /\ txn' = gc_update(txn) /\ UNCHANGED <<db, txns, ops>>

(* Spilling while the GC is updated.                                       *)
SpillInUpdate ==
  /\ txn # << >> /\ txn.u.pc = "loop" /\ ops < MaxOps
  /\ txn.dirty \ Range(txn.loose) # {}
  /\ txn' = txn_spill(txn) /\ ops' = ops + 1 /\ UNCHANGED <<db, txns>>

(***************************************************************************)
(* The rest of txn_basal_commit: the meta page.  The id of the snapshot is *)
(* that of the last record of retired pages; a reader may hold the         *)
(* previous snapshot.                                                      *)
(***************************************************************************)
Publish(keep) ==
  LET id == txn.u.bigfoot
      old == IF keep THEN DOMAIN db.snaps ELSE DOMAIN db.snaps \ {db.txnid}
  IN [txnid |-> id, first |-> txn.first, end |-> txn.end, data |-> txn.data, gc |-> txn.gc,
      leaves |-> txn.leaves, root |-> txn.root,
      snaps |-> [s \in old \cup {id} |-> IF s = id THEN InUse(txn) ELSE db.snaps[s]]]

Finish ==
  /\ txn # << >> /\ txn.u.pc = "done"
  /\ \E keep \in BOOLEAN :
        /\ keep => Cardinality(DOMAIN db.snaps) < MaxSnaps
        /\ db' = Publish(keep)
  /\ \/ txn' = << >> /\ txns' = txns
     \/ \* txn_basal_checkpoint goes on with the next transaction at once
        txns < MaxTxns /\ txn' = basal_start(db', txn.lifo) /\ txns' = txns + 1
  /\ UNCHANGED ops

Init ==
  /\ db = [txnid |-> INITIAL_TXNID, first |-> NUM_METAS, end |-> Lower, data |-> {},
           gc |-> << >>, leaves |-> << >>, root |-> 0,
           snaps |-> [s \in {INITIAL_TXNID} |-> {}]]
  /\ txn = << >> /\ txns = 0 /\ ops = 0

Next == \/ Begin \/ Put \/ PutBig \/ Del \/ Update \/ Spill
        \/ BeginNested \/ CommitNested \/ AbortNested \/ CheckpointNested
        \/ ReaderEnds \/ txn_gc_detent \/ Commit \/ GcStep \/ SpillInUpdate \/ Finish
        \/ Rollback \/ Abort

Spec == Init /\ [][Next]_vars

-----------------------------------------------------------------------------
(*                               Properties                                *)

(* The number of pages of records.                                         *)
RecordPages(gc, ids) == Cardinality(UNION {{id} \X gc[id].pages : id \in ids})

(* The records that count: what was taken from the others is in repnl, and *)
(* while the update runs its own records repeat the lists they are for.    *)
Counted(T) ==
  IF T.u.pc = "done" THEN DOMAIN T.gc
  ELSE {id \in DOMAIN T.gc : id < T.txnid} \ (T.reclaimed \cup T.comeback)

(* The pages that wait to be saved in the GC.                              *)
Pending(T) ==
  IF T.u.pc = "done" THEN {} ELSE T.retired

Accounted(T) ==
  /\ UNION {InUse(T), Range(T.loose), T.repnl, Pending(T),
            UNION {T.gc[id].pages : id \in Counted(T)}} = NUM_METAS .. T.first - 1
  /\ Cardinality(UNION {{s} \X (1..s.n) : s \in T.data}) + Cardinality(GcPages(T)) + Len(T.loose)
       + Cardinality(T.repnl) + Cardinality(Pending(T)) + RecordPages(T.gc, Counted(T))
     = T.first - NUM_METAS

(* Every allocated page is in exactly one place: in a tree, in a list of   *)
(* the transaction, or in one record of the GC (what audit_ex_locked adds  *)
(* up), at every step of a transaction, of a nested one and of gc_update.  *)
PagesAccounted ==
  txn # << >> => \/ txn.err \/ txn.u.pc = "fail"
                 \/ Accounted(txn)

(* No page of a snapshot is written, nor cut off the file. *)
SnapshotsUnwritten ==
  txn # << >> =>
    \A s \in DOMAIN db.snaps :
      /\ db.snaps[s] \cap (txn.dirty \cup txn.spilled \cup UpDirty(txn) \cup UpSpilled(txn)) = {}
      /\ \A p \in db.snaps[s] : p < txn.first

(* The pages of a record of the GC are in no snapshot that is as new as    *)
(* the record: once the older ones are gone they can be used again.        *)
RecordsMature ==
  \A id \in DOMAIN db.gc : \A s \in DOMAIN db.snaps :
    s >= id => db.gc[id].pages \cap db.snaps[s] = {}

(* No page of a snapshot that a reader may use, nor of the last one, is    *)
(* ever written by a transaction, or cut off the file, and no record of    *)
(* the GC offers it before the snapshot is gone.                           *)
SnapshotsSafe == SnapshotsUnwritten /\ RecordsMature

(* gc_update never gives up with MDBX_PROBLEM ("too many loops", no id for *)
(* the pages that go back, a reserve that is too small), whatever lists a  *)
(* transaction ends with: a commit fails only when the file is full.       *)
NeverGivesUp == txn # << >> /\ txn.u.pc = "fail" => txn.rc = "full"

=============================================================================
